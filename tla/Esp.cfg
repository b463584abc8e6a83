CONSTANTS
  Names = {a, b, c}
  Ops = {"activate", "create", "destroy", "rename", "snapshot"}
  Sources = {"active", "dataset", "snapshot", "auto"}
  MaxVersion = 2
  MaxSnaps = 1
  MaxFaults = 0
  Absent = Absent
  Torn = Torn
  Template = Template
SPECIFICATION SBSpec
SYMMETRY Symmetry
INVARIANTS
  SBTypeOK
  KernelsMatch
  NoOrphans
  DefaultIsActive
  SnapshotsBootable
