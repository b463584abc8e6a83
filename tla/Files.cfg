CONSTANTS
  Names = {a, b, c}
  Procs = {p, q}
  Lines = 2
  NoLine = NoLine
  Absent = Absent
  MaxFaults = 1
  MaxSilent = 1
  MayCrash = TRUE
SPECIFICATION BackupSpec
SYMMETRY Symmetry
INVARIANTS
  FRTypeOK
  FRInv
  TargetWhole
  NoTempLeft
PROPERTIES
  ImplementsConfigFile
  ReplacedIsBackedUp
