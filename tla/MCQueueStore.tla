---------------------------- MODULE MCQueueStore ----------------------------
(* QueueStore for TLC: interchangeable senders and groups. *)
EXTENDS QueueStore

CONSTANTS p1, p2, g1, g2

MCTwoSenders == {p1, p2}
MCTwoGroups == {g1, g2}
MCSymmetry == Permutations(MCTwoSenders) \cup Permutations(MCTwoGroups)
============================================================================
