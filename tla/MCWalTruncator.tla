--------------------------- MODULE MCWalTruncator ---------------------------
(* TLC instances of WalTruncator. *)
EXTENDS WalTruncator, TLC

CONSTANTS w1, w2

MCWriters == {w1, w2}
MCOneWriter == {w1}
MCSymmetry == Permutations(MCWriters)
=============================================================================
