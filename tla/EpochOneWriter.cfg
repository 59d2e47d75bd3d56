CONSTANTS
  p1 = p1
  p2 = p2
  Proc <- MCTwo
  Volume = {"a"}
  NoId = NoId
  Lease = 1
  Margin = 1
  MaxFailedChecks = 2
  MaxTime = 3
SPECIFICATION Spec
SYMMETRY MCSymmetry
CHECK_DEADLOCK FALSE
INVARIANTS
  TypeOK
  OneWriter
  EpochsUnique
PROPERTY FenceMonotone
