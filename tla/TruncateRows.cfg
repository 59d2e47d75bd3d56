CONSTANTS
  w1 = w1
  w2 = w2
  Writers <- MCWriters
  Defs = {"f"}
  NoDef = NoDef
  NoLsn = NoLsn
  MaxSeq = 4
  Retain = 0
  MaxLag = 1
  CallerMayCancel = FALSE
  Publishing = FALSE
SPECIFICATION Spec
SYMMETRY MCSymmetry
INVARIANTS
  TypeOK
  RowsNeverLost
  FunctionsSurvive
