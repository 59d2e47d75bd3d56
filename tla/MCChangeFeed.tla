---------------------------- MODULE MCChangeFeed ----------------------------
(* TLC instances of ChangeFeed. *)
EXTENDS ChangeFeed

CONSTANTS c1

MCOne == {[coll |-> c1, branch |-> FALSE]}
MCTwo == {[coll |-> c1, branch |-> FALSE], [coll |-> NoColl, branch |-> FALSE]}
MCNoFences == {}
=============================================================================
