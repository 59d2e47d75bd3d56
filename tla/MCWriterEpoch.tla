--------------------------- MODULE MCWriterEpoch ---------------------------
(* TLC instances of WriterEpoch. *)
EXTENDS WriterEpoch, TLC

CONSTANTS p1, p2

MCTwo == {p1, p2}
MCSymmetry == Permutations(Proc)
============================================================================
