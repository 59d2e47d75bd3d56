----------------------------- MODULE DurableLog -----------------------------
(***************************************************************************)
(* What a write-ahead log promises its users, whatever files, locks and    *)
(* crashes are behind it: a set of stored entries that no failure takes,   *)
(* the entries a caller was told are stored, and a floor up to which       *)
(* entries may be forgotten.                                               *)
(*                                                                         *)
(* An entry carries its sequence number seq and the range lo..hi of the    *)
(* atomic group it belongs to.                                             *)
(***************************************************************************)
EXTENDS Naturals

VARIABLES
  stored,   \* entries that can be read back after any crash
  acked,    \* entries a caller was told are stored
  floor     \* entries up to here may be forgotten

logVars == <<stored, acked, floor>>

\* Everything the log has ever answered for or could still show
Known == stored \cup acked

\* Every entry of e's group is in S.
WithGroup(e, S) ==
  \A n \in e.lo..e.hi : \E f \in S : f.seq = n /\ f.lo = e.lo /\ f.hi = e.hi

Init == stored = {} /\ acked = {} /\ floor = 0

\* New entries become durable, whole groups of them, each numbered above all
\* that is known and above the floor, no two alike.
Store ==
  /\ stored \subseteq stored'
  /\ \A e \in stored' \ stored :
       /\ e.seq > floor
       /\ \A f \in Known : f.seq < e.seq
       /\ \A f \in stored' \ stored : f.seq = e.seq => f = e
       /\ WithGroup(e, stored' \ stored)
  /\ UNCHANGED <<acked, floor>>

\* A caller is told so, of stored entries only.
Acknowledge ==
  /\ acked \subseteq acked'
  /\ acked' \subseteq acked \cup stored
  /\ UNCHANGED <<stored, floor>>

\* A new floor is recorded, and takes back no promise: what lies above it
\* and was acknowledged is still stored.
RecordFloor ==
  /\ floor' \in Nat
  /\ \A e \in acked : e.seq > floor' => e \in stored
  /\ UNCHANGED <<stored, acked>>

\* Entries up to the floor are forgotten.
Forget ==
  /\ stored' \subseteq stored
  /\ \A e \in stored \ stored' : e.seq =< floor
  /\ UNCHANGED <<acked, floor>>

Next == Store \/ Acknowledge \/ RecordFloor \/ Forget

Spec == Init /\ [][Next]_logVars
=============================================================================
