CONSTANTS
  Envs = {a, b, c}
  Kids <- MCKids
  Unmanaged <- MCUnmanaged
  Names <- MCNames
  Suffixes = {s}
  BootPool = FALSE
  Ops = {"activate", "create", "destroy", "mount", "rename", "snapshot", "unmount"}
  MayCrash = TRUE
  MaxFaults = 1
  NoName = NoName
  NoSnap = NoSnap
SPECIFICATION TreeSpec
SYMMETRY Symmetry
CONSTRAINT FewDatasets
INVARIANTS
  TreeTypeOK
  TreeInv
  MountsNested
PROPERTIES
  OthersKept
  WalksComplete
  TreeSuccessIsReal
  TreeImplementsBootEnvs
