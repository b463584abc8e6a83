CONSTANTS
  Names = {a, b, c}
  Suffixes = {s}
  BootPool = FALSE
  BootMountpoints = {"legacy"}
  Procs = {p, q}
  Ops = {"activate", "rename", "create"}
  Plugin = FALSE
  MayCrash = FALSE
  MaxFaults = 0
  NoName = NoName
  NoSnap = NoSnap
SPECIFICATION Spec
SYMMETRY Symmetry
PROPERTIES
  ActiveKept
