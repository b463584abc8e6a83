CONSTANTS
  Names = {a, b}
  Suffixes = {s}
  BootPool = FALSE
  BootMountpoints = {"legacy"}
  Procs = {p}
  Ops = {"activate", "create"}
  Plugin = TRUE
  MayCrash = FALSE
  MaxFaults = 1
  NoName = NoName
  NoSnap = NoSnap
SPECIFICATION Spec
SYMMETRY Symmetry
PROPERTIES
  ActivateIsReal
