CONSTANTS
  Names = {a, b, c}
  Suffixes = {s, t}
  BootPool = TRUE
  BootMountpoints = {"legacy"}
  Procs = {p}
  Ops = {"activate", "create", "destroy", "destroy_snapshot", "mount", "rename", "snapshot", "unmount"}
  Plugin = TRUE
  MayCrash = FALSE
  MaxFaults = 0
  NoName = NoName
  NoSnap = NoSnap
SPECIFICATION PairsSpec
SYMMETRY Symmetry
CONSTRAINT OneSuffixApart
INVARIANTS
  PairsUntilApart
  PairInv
  MountInv
  MountedInPairs
  NoLeftoverMountpoint
