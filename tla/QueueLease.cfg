CONSTANTS
  c1 = c1
  c2 = c2
  Consumer <- MCConsumers
  NoLease = NoLease
  Messages = 2
  MaxBatch = 2
  Ttl = 1
  Skew = 0
  MaxTime = 2
SPECIFICATION FairSpec
VIEW MCView
CHECK_DEADLOCK FALSE
INVARIANTS
  TypeOK
  ProgressIsHolders
  CommittedWasAcked
PROPERTIES
  ValidLeaseKept
  OffsetMonotone
  LossIsNoticed
