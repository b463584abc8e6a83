CONSTANTS
  Names = {a, b, c}
  Suffixes = {s}
  BootPool = TRUE
  BootMountpoints = {"legacy"}
  Procs = {p}
  Ops = {"activate", "create", "destroy", "mount", "rename", "unmount"}
  Plugin = TRUE
  MayCrash = TRUE
  MaxFaults = 1
  NoName = NoName
  NoSnap = NoSnap
SPECIFICATION Spec
SYMMETRY Symmetry
INVARIANTS
  SingleInv
PROPERTIES
  SuccessIsReal
