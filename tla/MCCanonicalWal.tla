--------------------------- MODULE MCCanonicalWal ---------------------------
(* TLC instances of CanonicalWal. *)
EXTENDS CanonicalWal

CONSTANTS c1

MCOne == {[coll |-> c1, branch |-> FALSE]}
MCTwo == {[coll |-> c1, branch |-> FALSE], [coll |-> NoColl, branch |-> FALSE]}
MCBranched == {[coll |-> c1, branch |-> TRUE]}
MCFences == [covered : SUBSET Coll, marked : SUBSET Coll]
MCNoFences == {}
=============================================================================
