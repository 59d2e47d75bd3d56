CONSTANTS
  w1 = w1
  w2 = w2
  Writers <- MCWriters
  Defs = {}
  NoDef = NoDef
  NoLsn = NoLsn
  MaxSeq = 3
  Retain = 0
  MaxLag = 1
  CallerMayCancel = FALSE
  Publishing = TRUE
SPECIFICATION Spec
SYMMETRY MCSymmetry
INVARIANT PublishedDeltaKept
