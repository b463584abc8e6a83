CONSTANTS
  Names = {a, b, c}
  Ops = {"activate", "create", "destroy", "rename", "snapshot"}
  Sources = {"active", "dataset", "snapshot", "auto"}
  MaxVersion = 1
  MaxSnaps = 1
  MaxFaults = 1
  Absent = Absent
  Torn = Torn
  Template = Template
SPECIFICATION SBSpec
SYMMETRY Symmetry
INVARIANTS
  RunningBootable
