CONSTANTS
  Names = {a, b}
  Suffixes = {s}
  BootPool = TRUE
  BootMountpoints = {"legacy", "other"}
  Procs = {p}
  Ops = {"activate", "create", "destroy", "destroy_snapshot", "mount", "rename", "snapshot", "unmount"}
  Plugin = TRUE
  MayCrash = TRUE
  MaxFaults = 1
  NoName = NoName
  NoSnap = NoSnap
SPECIFICATION FairSpec
PROPERTIES
  SuccessIsReal
  CommandReturns
