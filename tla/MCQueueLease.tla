---------------------------- MODULE MCQueueLease ----------------------------
(* QueueLease for TLC: two consumers, and states told apart only by what a   *)
(* later step or a property reads: not the variables of a call that is over, *)
(* not the tracker of a consumer that is refused every call.                 *)
EXTENDS QueueLease

CONSTANTS c1, c2

MCConsumers == {c1, c2}

MCTracker(c) ==
  IF usable[c] THEN <<subscribed[c], status[c], next_read[c]>>
  ELSE <<subscribed[c]>>

MCCall(c) ==
  CASE pc[c] \in {"acquire_cas", "renew_cas"} -> <<seen[c], deadline[c]>>
    [] pc[c] = "release_cas" -> <<seen[c]>>
    [] pc[c] = "commit" -> <<targets[c]>>
    [] pc[c] = "commit_offset" -> <<seen[c], targets[c]>>
    [] pc[c] = "commit_cas" -> <<seen[c], prior[c], targets[c]>>
    [] OTHER -> <<>>

MCView ==
  <<files, orphans, now, usable, renewer, pc, done,
    [c \in Consumer |-> <<MCTracker(c), MCCall(c)>>]>>
============================================================================
