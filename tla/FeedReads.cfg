CONSTANTS
  c1 = c1
  NoColl = NoColl
  NoFence = NoFence
  Coll = {c1}
  Op <- MCOne
  MaxSeq = 3
  MaxBatch = 1
  MaxPins = 0
  SegmentBytes = 2
  SummaryTrailer = TRUE
  RenameFaults = {}
  SectionMayTear = FALSE
  SectionFaults = {}
  CallerMayCancel = FALSE
  MarkerSyncMayFail = FALSE
  Fences <- MCNoFences
  MaxRetries = 2
SPECIFICATION FeedFairSpec
INVARIANTS
  FeedComplete
  FeedNoDuplicates
  FeedNeverFails
PROPERTY FeedTerminates
