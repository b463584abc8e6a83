CONSTANTS
  Names = {a, b}
  Suffixes = {s, t}
  BootPool = TRUE
  BootMountpoints = {"legacy", "other"}
  Procs = {p, q}
  Ops = {"create", "mount", "snapshot"}
  Plugin = FALSE
  MayCrash = FALSE
  MaxFaults = 0
  NoName = NoName
  NoSnap = NoSnap
SPECIFICATION Spec
SYMMETRY Symmetry
INVARIANTS
  PairsComplete
PROPERTIES
  SuccessIsReal
