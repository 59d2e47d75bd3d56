CONSTANTS
  c1 = c1
  NoColl = NoColl
  NoFence = NoFence
  Coll = {c1}
  Op <- MCOne
  MaxSeq = 2
  MaxBatch = 1
  MaxPins = 1
  SegmentBytes = 1
  SummaryTrailer = TRUE
  RenameFaults = {"plain", "section"}
  SectionMayTear = TRUE
  SectionFaults = {"open", "rollback"}
  CallerMayCancel = TRUE
  MarkerSyncMayFail = FALSE
  Fences <- MCNoFences
SPECIFICATION Spec
INVARIANT
  PinnedHistoryKept
