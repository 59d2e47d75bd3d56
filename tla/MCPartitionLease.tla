-------------------------- MODULE MCPartitionLease --------------------------
(* PartitionLease for TLC: interchangeable pods. *)
EXTENDS PartitionLease, TLC

CONSTANTS a, b

MCPods == {a, b}
MCOnePod == {a}
MCSymmetry == Permutations(MCPods)
============================================================================
