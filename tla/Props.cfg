SPECIFICATION HistorySpec
CONSTANTS
  Error = Error
  Absent = Absent
  Names = {a, b, c}
  a = a
  b = b
  c = c
  Procs = {p, q}
  p = p
  q = q
  Tokens <- MCTokens
  SetLists <- MCSetLists
  GetArgs <- MCGetArgs
  Plugins <- MCPlugins
  BrokenPlugins <- MCBroken
  BootRoots <- MCBootRoots
  MaxSecond = 1
  MaxFaults = 1
SYMMETRY Symmetry
CONSTRAINT Apart
INVARIANTS
  ZeTypeOK
  PluginFollowsSet
PROPERTIES
  GetShowsWhatWasSet
  ListComplete
