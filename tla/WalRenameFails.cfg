CONSTANTS
  c1 = c1
  NoColl = NoColl
  NoFence = NoFence
  Coll = {c1}
  Op <- MCTwo
  MaxSeq = 3
  MaxBatch = 2
  MaxPins = 1
  SegmentBytes = 2
  SummaryTrailer = TRUE
  RenameFaults = {"section"}
  SectionMayTear = FALSE
  SectionFaults = {}
  CallerMayCancel = FALSE
  MarkerSyncMayFail = FALSE
  Fences <- MCNoFences
SPECIFICATION Spec
INVARIANT AckedDurable
