SPECIFICATION Spec
CONSTANTS
  Frames = {f1, f2, f3}
  Objects = {o1, o2, o3}
  NoObject = NoObject
  Wrap = 8
  MaxChanges = 1
INVARIANTS
  FactoryRunsFirst
SYMMETRY FactorySymmetry
CHECK_DEADLOCK FALSE
