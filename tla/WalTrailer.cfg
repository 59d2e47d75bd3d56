CONSTANTS
  c1 = c1
  NoColl = NoColl
  NoFence = NoFence
  Coll = {c1}
  Op <- MCBranched
  MaxSeq = 4
  MaxBatch = 2
  MaxPins = 0
  SegmentBytes = 2
  SummaryTrailer = TRUE
  RenameFaults = {"plain"}
  SectionMayTear = FALSE
  SectionFaults = {}
  CallerMayCancel = FALSE
  MarkerSyncMayFail = TRUE
  Fences <- MCFences
SPECIFICATION FairSpec
INVARIANTS
  TypeOK
  AckedDurable
  SequenceNeverReused
  GroupAllOrNothing
  ListMatchesDisk
  RetainedGapFree
  GenerationSettles
PROPERTIES
  CrashLeavesOpenable
  LockReleased
  ImplementsDurableLog
