CONSTANTS
  w1 = w1
  w2 = w2
  Writers <- MCOneWriter
  Defs = {"f"}
  NoDef = NoDef
  NoLsn = NoLsn
  MaxSeq = 3
  Retain = 0
  MaxLag = 1
  CallerMayCancel = TRUE
  Publishing = TRUE
SPECIFICATION Spec
INVARIANTS
  SnapshotCoversItsLsn
  CapturedDeltaKept
  LiveDefinitionKept
