CONSTANTS
  Names = {a, b, c}
  Suffixes = {s}
  BootPool = FALSE
  BootMountpoints = {"legacy"}
  Procs = {p}
  Ops = {"activate", "create", "destroy", "destroy_snapshot", "mount", "rename", "snapshot", "unmount"}
  Plugin = TRUE
  MayCrash = TRUE
  MaxFaults = 1
  NoName = NoName
  NoSnap = NoSnap
SPECIFICATION Spec
SYMMETRY Symmetry
INVARIANTS
  TypeOK
  RunningSafe
  RunningInv
  ActiveSafe
PROPERTIES
  ActiveKept
  ImplementsBootEnvs
