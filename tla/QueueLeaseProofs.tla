-------------------------- MODULE QueueLeaseProofs --------------------------
(***************************************************************************)
(* Proofs about QueueLease, for any number of consumers and messages, any  *)
(* batch, lease time, clock skew and bound on time: the types, that the    *)
(* committed offset is the progress of the lease's holder and was          *)
(* acknowledged, that it never goes back and that a valid lease stays      *)
(* where it is.                                                            *)
(***************************************************************************)
EXTENDS QueueLease, MinMaxLemmas, FiniteSetTheorems, TLAPS

(***************************************************************************)
(* The inductive invariant                                                 *)
(***************************************************************************)

AcquirePc == {"acquire", "acquire_cas", "first_read"}

CommitPc == {"commit", "commit_offset", "commit_cas"}

Progress == -1..(Messages - 1)

\* What c found when it decided to take the lease: nobody's, its own, or one
\* that some clock has called expired.
MayReplace(l, c) ==
  l = NoLease \/ l.holder = c \/ l.expires =< now + Skew

\* What a call in progress knows.  A consumer that is refused has no call of
\* the application in progress, only its renewer, which is the one to release.
CallOK(c) ==
  /\ pc[c] \in CallerPc => usable[c]
  /\ pc[c] \in AcquirePc => ~subscribed[c]
  /\ pc[c] \in CommitPc => subscribed[c] /\ AckedPrefix(c, targets[c]) # {}
  /\ pc[c] \in {"release", "release_cas"} => ~usable[c]
  /\ pc[c] = "acquire_cas" => MayReplace(seen[c], c)
  /\ pc[c] \in {"acquire_cas", "renew_cas"} => deadline[c] > 0
  /\ pc[c] \in {"commit_offset", "commit_cas", "renew_cas", "release_cas"} =>
       seen[c] \in Lease /\ seen[c].holder = c
  /\ pc[c] = "commit_cas" => prior[c] =< offset

\* An exchange left behind by a cancelled call: its consumer is refused for
\* good.  Only a consumer that never subscribed left a takeover behind, and
\* an offset is from one that did.
OrphanLeaseOK(x) ==
  /\ x.file = "lease"
  /\ x.old \in LeaseFile /\ x.new \in Lease
  /\ ~usable[x.new.holder]
  /\ MayReplace(x.old, x.new.holder)
  /\ (x.old = NoLease \/ x.old.holder # x.new.holder)
       => ~subscribed[x.new.holder]

OrphanOffsetOK(x) ==
  /\ x.file = "offset"
  /\ x.old \in Progress /\ x.new \in Offset /\ x.guard \in Lease
  /\ x.old =< x.new
  /\ ~usable[x.guard.holder] /\ subscribed[x.guard.holder]

OrphanOK(x) == OrphanLeaseOK(x) \/ OrphanOffsetOK(x)

Control ==
  /\ TypeOK
  /\ \A c \in Consumer : CallOK(c)
  /\ \A x \in orphans : OrphanOK(x)

\* The pending messages are those from some offset up to the cursor.
WindowFrom(c, lo) ==
  /\ lo \in 0..next_read[c]
  /\ \A m \in Offset : status[c][m] # "none" <=> lo =< m /\ m < next_read[c]

Holds(c) == lease # NoLease /\ lease.holder = c

\* A consumer in good standing that holds the lease
Good(c) == usable[c] /\ subscribed[c] /\ Holds(c)

\* Its window starts behind the committed offset, and the application's word
\* on what it has marked is still ack.
HolderOK(c) ==
  /\ WindowFrom(c, offset + 1)
  /\ \A m \in Offset : status[c][m] = "acked" => m \in done
  /\ pc[c] \in CommitPc => targets[c] \subseteq done

TrackerOK(c) ==
  /\ \E lo \in 0..next_read[c] : WindowFrom(c, lo)
  /\ ~subscribed[c] => \A m \in Offset : status[c][m] = "none"
  /\ Good(c) => HolderOK(c)

\* What a late publication of the holder would commit was acknowledged.
LateOK(x) ==
  x.file = "offset" /\ Holds(x.guard.holder) => \A m \in 0..x.new : m \in done

IInv ==
  /\ Control
  /\ \A c \in Consumer : TrackerOK(c)
  /\ \A x \in orphans : LateOK(x)
  /\ CommittedWasAcked

(***************************************************************************)
(* Types, and what a step of one consumer leaves to the others             *)
(***************************************************************************)

\* TypeOK without the exchanges left behind, which OrphanOK types
Typed ==
  /\ lease \in LeaseFile /\ offset \in Progress /\ now \in 1..MaxTime
  /\ usable \in [Consumer -> BOOLEAN]
  /\ subscribed \in [Consumer -> BOOLEAN]
  /\ renewer \in [Consumer -> {"off", "asleep", "waiting"}]
  /\ status \in [Consumer -> [Offset -> {"none", "out", "acked", "retry"}]]
  /\ next_read \in [Consumer -> 0..Messages]
  /\ pc \in [Consumer -> {"idle"} \cup CallerPc \cup TaskPc]
  /\ seen \in [Consumer -> LeaseFile]
  /\ deadline \in [Consumer -> 0..(MaxTime + Skew + Ttl)]
  /\ prior \in [Consumer -> Progress]
  /\ targets \in [Consumer -> SUBSET Offset]
  /\ done \subseteq Offset

\* The types, variable by variable.
LEMMA TypedIs == TypeOK => Typed
  BY DEF TypeOK, Typed, Progress

\* The bounds, as numbers
LEMMA Bounds ==
  /\ Messages \in Nat /\ MaxBatch \in Nat \ {0}
  /\ Ttl \in Nat \ {0} /\ Skew \in Nat /\ MaxTime \in Nat \ {0}
  BY MessagesAssumption, ClockAssumption

\* A lease a consumer writes is a lease.
LEMMA LeaseFields ==
  /\ \A l \in Lease : l.holder \in Consumer /\ l.expires \in 0..(MaxTime + Skew + Ttl)
  /\ \A c \in Consumer, e \in 0..(MaxTime + Skew + Ttl) :
       [holder |-> c, expires |-> e] \in Lease
  /\ \A l \in Lease :
       /\ [l EXCEPT !.expires = 0] \in Lease
       /\ [l EXCEPT !.expires = 0].holder = l.holder
       /\ [l EXCEPT !.expires = 0].expires = 0
  BY Bounds DEF Lease

\* Everything consumer d keeps for itself
SameOf(d) ==
  /\ usable'[d] = usable[d] /\ subscribed'[d] = subscribed[d]
  /\ status'[d] = status[d] /\ next_read'[d] = next_read[d]
  /\ pc'[d] = pc[d] /\ seen'[d] = seen[d] /\ deadline'[d] = deadline[d]
  /\ prior'[d] = prior[d] /\ targets'[d] = targets[d]

\* What a step of consumer c may do to the control state
CallStep(c) ==
  /\ Typed' /\ CallOK(c)'
  /\ \A d \in Consumer : d # c => SameOf(d)
  /\ now' = now /\ offset' >= offset
  /\ usable'[c] => usable[c]
  /\ subscribed[c] => subscribed'[c]
  /\ ~usable[c] => subscribed'[c] = subscribed[c]
  /\ \A x \in orphans' : x \in orphans \/ OrphanOK(x)'

\* The acknowledged prefix depends on the tracker and the targets only.
LEMMA PrefixKept ==
  ASSUME NEW c, status'[c] = status[c], targets'[c] = targets[c]
  PROVE  AckedPrefix(c, targets[c])' = AckedPrefix(c, targets[c])
  BY DEF AckedPrefix, Pending

\* The acknowledged prefix is pending.
LEMMA PrefixType ==
  ASSUME NEW c, NEW ids
  PROVE  AckedPrefix(c, ids) \subseteq Pending(c) /\ Pending(c) \subseteq Offset
  BY DEF AckedPrefix, Pending

\* A commit publishes an offset, not below the one it replaces.
LEMMA NewOffsetType ==
  ASSUME Typed, NEW c \in Consumer, AckedPrefix(c, targets[c]) # {}
  PROVE  /\ NewOffset(c) \in Offset /\ NewOffset(c) >= prior[c]
         /\ Max(AckedPrefix(c, targets[c])) \in AckedPrefix(c, targets[c])
         /\ \A y \in AckedPrefix(c, targets[c]) : Max(AckedPrefix(c, targets[c])) >= y
<1> DEFINE S == AckedPrefix(c, targets[c])
<1>1. S \subseteq Offset
  BY PrefixType
<1>2. S \in SUBSET (0..Messages) /\ Messages \in Nat
  BY <1>1, Bounds DEF Offset
<1>3. Max(S) \in S /\ \A y \in S : Max(S) >= y
  <2> HIDE DEF S
  <2> QED BY <1>2, MaxOfNats, AckedPrefix(c, targets[c]) # {} DEF S
<1>4. prior[c] \in Progress /\ Max(S) \in Offset
  BY <1>1, <1>3 DEF Typed
<1>5. NewOffset(c) = IF Max(S) > prior[c] THEN Max(S) ELSE prior[c]
  BY DEF NewOffset
<1> HIDE DEF S
<1>6. NewOffset(c) \in Offset /\ NewOffset(c) >= prior[c]
  BY <1>4, <1>5, Bounds DEF Progress, Offset
<1> QED BY <1>3, <1>6 DEF S

\* Such a step keeps the calls of the others and what was left behind.
LEMMA CallStepKeeps ==
  ASSUME Control, NEW c \in Consumer, CallStep(c)
  PROVE  Control'
<1>1. Typed
  BY TypedIs DEF Control
<1>2. ASSUME NEW d \in Consumer PROVE CallOK(d)'
  <2>1. CASE d = c
    BY <2>1 DEF CallStep
  <2>2. CASE d # c
    <3>1. SameOf(d)
      BY <2>2 DEF CallStep
    <3>2. AckedPrefix(d, targets[d])' = AckedPrefix(d, targets[d])
      BY <3>1, PrefixKept DEF SameOf
    <3>3. prior[d] \in Int /\ offset \in Int /\ offset' \in Int /\ offset' >= offset
      BY <1>1, Bounds DEF Typed, CallStep, Progress
    <3>4. now' = now /\ CallOK(d)
      BY DEF CallStep, Control
    <3> QED BY <3>1, <3>2, <3>3, <3>4 DEF SameOf, CallOK, MayReplace
  <2> QED BY <2>1, <2>2
<1>3. ASSUME NEW x \in orphans PROVE OrphanOK(x)'
  <2>1. OrphanOK(x)
    BY DEF Control
  <2>2. ASSUME NEW d \in Consumer, ~usable[d]
        PROVE  ~usable'[d] /\ subscribed'[d] = subscribed[d]
    <3>1. CASE d = c
      BY <2>2, <3>1 DEF CallStep
    <3>2. CASE d # c
      BY <2>2, <3>2 DEF CallStep, SameOf
    <3> QED BY <3>1, <3>2
  <2>3. CASE OrphanLeaseOK(x)
    <3>1. x.new.holder \in Consumer /\ ~usable[x.new.holder]
      BY <2>3, LeaseFields DEF OrphanLeaseOK
    <3>2. ~usable'[x.new.holder] /\ subscribed'[x.new.holder] = subscribed[x.new.holder]
      BY <2>2, <3>1
    <3> QED BY <2>3, <3>2 DEF OrphanOK, OrphanLeaseOK, MayReplace, CallStep
  <2>4. CASE OrphanOffsetOK(x)
    <3>1. x.guard.holder \in Consumer /\ ~usable[x.guard.holder]
      BY <2>4, LeaseFields DEF OrphanOffsetOK
    <3>2. ~usable'[x.guard.holder] /\ subscribed'[x.guard.holder] = subscribed[x.guard.holder]
      BY <2>2, <3>1
    <3> QED BY <2>4, <3>2 DEF OrphanOK, OrphanOffsetOK, CallStep
  <2> QED BY <2>1, <2>3, <2>4 DEF OrphanOK
<1>4. \A x \in orphans' : OrphanOK(x)'
  BY <1>3 DEF CallStep
<1>5. Typed'
  BY DEF CallStep
<1>6. TypeOK'
  BY <1>4, <1>5
  DEF TypeOK, Typed, Progress, OrphanOK, OrphanLeaseOK, OrphanOffsetOK
<1> QED BY <1>2, <1>4, <1>6 DEF Control

(***************************************************************************)
(* Every step of a consumer is such a step                                 *)
(***************************************************************************)

\* subscribe starts an acquire.
LEMMA SubscribeStep ==
  ASSUME Control, NEW c \in Consumer, Subscribe(c)
  PROVE  CallStep(c)
<1>1. Typed /\ CallOK(c)
  BY TypedIs DEF Control
<1>2. Typed'
  BY <1>1 DEF Subscribe, Typed, Goto, CallerPc, files, tracker, locals
<1>3. CallOK(c)'
  BY <1>1 DEF Subscribe, Typed, Goto, CallOK, CallerPc, AcquirePc, CommitPc, files, tracker, locals
<1> QED
  BY <1>1, <1>2, <1>3, Bounds
  DEF CallStep, SameOf, Subscribe, Typed, Goto, Progress, files, tracker, locals

\* acquire reads the lease and decides whether it may replace it.
LEMMA AcquireReadStep ==
  ASSUME Control, NEW c \in Consumer, NEW t \in Clock, NEW readable \in BOOLEAN,
         AcquireRead(c, t, readable)
  PROVE  CallStep(c)
<1>1. Typed /\ CallOK(c)
  BY TypedIs DEF Control
<1>2. t \in 1..(MaxTime + Skew) /\ t =< now + Skew /\ t + Ttl \in 0..(MaxTime + Skew + Ttl) /\ t + Ttl > 0
  BY Bounds DEF Clock, Time
<1>3. Typed'
  BY <1>1, <1>2, ZenonT(40) DEF AcquireRead, Typed, Goto, Disable, CallerPc, files, tracker, locals
<1>4. CallOK(c)'
  <2>1. CASE readable /\ Acquirable(c, t)
    <3>1. MayReplace(lease, c)
      BY <1>1, <1>2, <2>1, LeaseFields, Bounds DEF MayReplace, Acquirable, Typed, LeaseFile
    <3>2. /\ pc'[c] = "acquire_cas" /\ seen'[c] = lease /\ deadline'[c] = t + Ttl
          /\ usable'[c] /\ ~subscribed'[c] /\ now' = now
      BY <1>1, <2>1 DEF AcquireRead, Typed, Goto, CallOK, CallerPc, AcquirePc, files
    <3> QED BY <1>2, <3>1, <3>2 DEF CallOK, CallerPc, AcquirePc, CommitPc, MayReplace
  <2>2. CASE ~(readable /\ Acquirable(c, t))
    <3>1. pc'[c] = "idle"
      BY <1>1, <2>2 DEF AcquireRead, Typed, Goto
    <3> QED BY <3>1 DEF CallOK, CallerPc, AcquirePc, CommitPc
  <2> QED BY <2>1, <2>2
<1> QED
  BY <1>1, <1>3, <1>4, Bounds
  DEF CallStep, SameOf, AcquireRead, Typed, Goto, Disable, Progress, files, tracker, locals

\* Between two calls nothing is known.
LEMMA IdleOK ==
  ASSUME NEW c, pc'[c] = "idle"
  PROVE  CallOK(c)'
  BY DEF CallOK, CallerPc, AcquirePc, CommitPc

\* An exchange of the lease leaves a lease and forgets words, never adds one.
LEMMA SetLeaseTyped ==
  ASSUME Typed, NEW e, NEW new \in Lease, SetLease(Exchanged(e, new))
  PROVE  /\ lease' \in LeaseFile /\ done' \subseteq Offset
         /\ lease' = lease \/ (lease = e /\ lease' = new)
  BY DEF Typed, SetLease, Exchanged, LeaseFile, DoneUnder

\* The exchange of a lease c writes, whatever it answers
LEMMA LeaseWritten ==
  ASSUME Typed, NEW c \in Consumer, NEW outcome \in Outcome, NEW new \in Lease,
         IF outcome \in {"answer", "error_applied"}
         THEN SetLease(Exchanged(seen[c], new)) ELSE UNCHANGED <<lease, done>>
  PROVE  /\ lease' \in LeaseFile /\ done' \subseteq Offset
         /\ lease' = lease \/ (lease = seen[c] /\ lease' = new)
<1>1. CASE outcome \in {"answer", "error_applied"}
  BY <1>1, SetLeaseTyped
<1>2. CASE outcome \notin {"answer", "error_applied"}
  BY <1>2 DEF Typed
<1> QED BY <1>1, <1>2

\* The lease a call writes is its consumer's.
LEMMA NewLeaseType ==
  ASSUME Typed, NEW c \in Consumer
  PROVE  NewLease(c) \in Lease /\ NewLease(c).holder = c /\ NewLease(c).expires = deadline[c]
  BY LeaseFields DEF Typed, NewLease

\* acquire exchanges the lease file.
LEMMA AcquireCasStep ==
  ASSUME Control, NEW c \in Consumer, NEW outcome \in Outcome, AcquireCas(c, outcome)
  PROVE  CallStep(c)
<1>1. Typed /\ CallOK(c)
  BY TypedIs DEF Control
<1>2. lease' \in LeaseFile /\ done' \subseteq Offset
  BY <1>1, NewLeaseType, LeaseWritten DEF AcquireCas
<1>3. Typed'
  <2>1. /\ pc' \in [Consumer -> {"idle"} \cup CallerPc \cup TaskPc]
        /\ usable' \in [Consumer -> BOOLEAN]
    BY <1>1 DEF AcquireCas, Typed, Goto, Disable, CallerPc, Outcome
  <2> QED BY <1>1, <1>2, <2>1 DEF AcquireCas, Typed, tracker, locals
<1>4. /\ pc'[c] \in {"idle"} \/ (pc'[c] \in {"first_read", "acquire"} /\ usable'[c] = usable[c])
      /\ subscribed' = subscribed
  BY <1>1 DEF AcquireCas, Typed, Goto, Outcome
<1>5. CallOK(c)'
  BY <1>1, <1>4 DEF CallOK, AcquireCas, CallerPc, AcquirePc, CommitPc
<1>6. usable'[c] => usable[c]
  BY <1>1 DEF AcquireCas, Typed, Disable, Outcome
<1>7. ASSUME NEW d \in Consumer, d # c PROVE usable'[d] = usable[d] /\ pc'[d] = pc[d]
  BY <1>1, <1>7 DEF AcquireCas, Typed, Goto, Disable, Outcome
<1> QED
  BY <1>1, <1>3, <1>5, <1>6, <1>7, Bounds
  DEF CallStep, SameOf, AcquireCas, Typed, Progress, tracker, locals

\* The first read of the offset file sets the cursor.
LEMMA FirstReadStep ==
  ASSUME Control, NEW c \in Consumer, NEW readable \in BOOLEAN, FirstRead(c, readable)
  PROVE  CallStep(c)
<1>1. Typed /\ CallOK(c)
  BY TypedIs DEF Control
<1>2. offset + 1 \in 0..Messages
  BY <1>1, Bounds DEF Typed, Progress
<1>3. Typed'
  <2>1. /\ pc' \in [Consumer -> {"idle"} \cup CallerPc \cup TaskPc]
        /\ usable' \in [Consumer -> BOOLEAN] /\ subscribed' \in [Consumer -> BOOLEAN]
        /\ renewer' \in [Consumer -> {"off", "asleep", "waiting"}]
    BY <1>1 DEF FirstRead, Typed, Goto, Disable, TaskPc
  <2>2. next_read' \in [Consumer -> 0..Messages]
    BY <1>1, <1>2 DEF FirstRead, Typed
  <2> QED BY <1>1, <2>1, <2>2 DEF FirstRead, Typed, files, locals
<1>4. CallOK(c)'
  <2>1. CASE readable
    BY <1>1, <2>1, IdleOK DEF FirstRead, Typed, Goto
  <2>2. CASE ~readable
    <3>1. pc'[c] = "release" /\ ~usable'[c]
      BY <1>1, <2>2 DEF FirstRead, Typed, Goto, Disable
    <3> QED BY <3>1 DEF CallOK, CallerPc, AcquirePc, CommitPc
  <2> QED BY <2>1, <2>2
<1>5. usable[c]
  BY <1>1 DEF CallOK, FirstRead, CallerPc
<1> QED
  BY <1>1, <1>3, <1>4, <1>5, Bounds
  DEF CallStep, SameOf, FirstRead, Typed, Goto, Disable, Progress, files, locals

\* A call without a valid lease is refused and disables its consumer.
LEMMA CallRefusedStep ==
  ASSUME Control, NEW c \in Consumer, NEW t \in Clock, NEW readable \in BOOLEAN,
         CallRefused(c, t, readable)
  PROVE  CallStep(c)
<1>1. Typed /\ CallOK(c)
  BY TypedIs DEF Control
<1>2. Typed'
  BY <1>1 DEF CallRefused, Typed, Disable, files, tracker, locals
<1>3. CallOK(c)'
  BY <1>1, IdleOK DEF CallRefused, Call
<1> QED
  BY <1>1, <1>2, <1>3, Bounds
  DEF CallStep, SameOf, CallRefused, Typed, Disable, Progress, files, tracker, locals

\* What a poll hands out: some again, then the next ones
Again(c, max) == FirstOf({m \in Offset : status[c][m] = "retry"}, max)

Fresh(c, max) ==
  {m \in Offset : /\ next_read[c] =< m
                  /\ m < next_read[c] + max - Cardinality(Again(c, max))}

\* A batch is messages to retry and the next ones behind the cursor.
LEMMA Delivered ==
  ASSUME Typed, NEW c \in Consumer, NEW max \in 1..MaxBatch
  PROVE  /\ Again(c, max) \subseteq Offset
         /\ \A m \in Again(c, max) : status[c][m] = "retry"
         /\ next_read[c] + Cardinality(Fresh(c, max)) \in next_read[c]..Messages
         /\ \A m \in Offset : m \in Fresh(c, max) <=>
              next_read[c] =< m /\ m < next_read[c] + Cardinality(Fresh(c, max))
<1> DEFINE again == Again(c, max)
           fresh == Fresh(c, max)
<1>1. next_read[c] \in 0..Messages
  BY DEF Typed
<1>2. /\ again \subseteq Offset /\ \A m \in again : status[c][m] = "retry"
  BY DEF Again, FirstOf
<1>3. IsFiniteSet(Offset)
  <2>1. 0 \in Int /\ Messages - 1 \in Int
    BY Bounds
  <2> QED BY <2>1, FS_Interval DEF Offset
<1>4. Cardinality(again) \in Nat
  BY <1>2, <1>3, FS_Subset, FS_CardinalityType
<1> DEFINE top == next_read[c] + max - Cardinality(again) - 1
           end == IF top < Messages - 1 THEN top ELSE Messages - 1
<1>5. end \in Int /\ end =< Messages - 1
  BY <1>1, <1>4, Bounds
<1>6. fresh = next_read[c]..end
  BY <1>1, <1>4, Bounds DEF Offset, Fresh
<1>7. Cardinality(fresh) = IF next_read[c] > end THEN 0 ELSE end - next_read[c] + 1
  <2>1. next_read[c] \in Int
    BY <1>1, Bounds
  <2> HIDE DEF end
  <2> QED BY <1>5, <1>6, <2>1, FS_Interval
<1> HIDE DEF end
<1>8. /\ next_read[c] + Cardinality(fresh) \in next_read[c]..Messages
      /\ \A m \in Offset : m \in next_read[c]..end <=>
           next_read[c] =< m /\ m < next_read[c] + Cardinality(fresh)
  <2>1. CASE next_read[c] > end
    BY <1>1, <1>5, <1>7, <2>1, Bounds DEF Offset
  <2>2. CASE ~(next_read[c] > end)
    BY <1>1, <1>5, <1>7, <2>2, Bounds DEF Offset
  <2> QED BY <2>1, <2>2
<1> QED BY <1>2, <1>6, <1>8

\* poll marks what it delivers.
LEMMA PollStep ==
  ASSUME Control, NEW c \in Consumer, NEW t \in Clock, NEW max \in 1..MaxBatch,
         Poll(c, t, max)
  PROVE  CallStep(c)
<1>1. Typed /\ CallOK(c)
  BY TypedIs DEF Control
<1> DEFINE again == Again(c, max)
           fresh == Fresh(c, max)
           new == [m \in Offset |-> IF m \in again \cup fresh THEN "out" ELSE status[c][m]]
<1>2. next_read[c] + Cardinality(fresh) \in 0..Messages
  <2>1. next_read[c] + Cardinality(fresh) \in next_read[c]..Messages
    BY <1>1, Delivered
  <2>2. next_read[c] \in 0..Messages
    BY <1>1 DEF Typed
  <2> HIDE DEF fresh
  <2> QED BY <2>1, <2>2, Bounds
<1>3. new \in [Offset -> {"none", "out", "acked", "retry"}]
  <2> HIDE DEF again, fresh
  <2> QED BY <1>1 DEF Typed
<1>4. /\ status' = [status EXCEPT ![c] = new]
      /\ next_read' = [next_read EXCEPT ![c] = next_read[c] + Cardinality(fresh)]
  BY DEF Poll, Again, Fresh
<1> HIDE DEF new, fresh, again
<1>5. Typed'
  BY <1>1, <1>2, <1>3, <1>4 DEF Poll, Typed, files, locals
<1>6. CallOK(c)'
  BY <1>1, IdleOK DEF Poll, Call
<1> QED
  BY <1>1, <1>4, <1>5, <1>6, Bounds
  DEF CallStep, SameOf, Poll, Typed, Progress, files, locals

\* Marks are states of a message.
LEMMA AcknowledgedType ==
  ASSUME Typed, NEW c \in Consumer, NEW ids
  PROVE  Acknowledged(c, ids) \in [Offset -> {"none", "out", "acked", "retry"}]
<1>1. status[c] \in [Offset -> {"none", "out", "acked", "retry"}]
  BY DEF Typed
<1> QED BY <1>1 DEF Acknowledged

\* ack starts a commit where it completes a prefix.
LEMMA AckStep ==
  ASSUME Control, NEW c \in Consumer, NEW t \in Clock, NEW ids \in SUBSET Offset,
         Ack(c, t, ids)
  PROVE  CallStep(c)
<1>1. Typed /\ CallOK(c)
  BY TypedIs DEF Control
<1>2. Acknowledged(c, ids) \in [Offset -> {"none", "out", "acked", "retry"}]
  BY <1>1, AcknowledgedType
<1>3. CASE AckedPrefix(c, ids) = {}
  <2>1. /\ status' = [status EXCEPT ![c] = Acknowledged(c, ids)]
        /\ UNCHANGED <<pc, targets>>
    BY <1>3 DEF Ack
  <2>2. Typed'
    BY <1>1, <1>2, <2>1 DEF Ack, Typed, files
  <2>3. CallOK(c)'
    BY <2>1, IdleOK DEF Ack, Call
  <2> QED BY <1>1, <2>1, <2>2, <2>3, Bounds
          DEF CallStep, SameOf, Ack, Typed, Progress, files
<1>4. CASE AckedPrefix(c, ids) # {}
  <2>1. /\ targets' = [targets EXCEPT ![c] = ids]
        /\ pc' = [pc EXCEPT ![c] = "commit"] /\ status' = status
    BY <1>4 DEF Ack, Goto
  <2>2. Typed'
    BY <1>1, <2>1 DEF Ack, Typed, files, CallerPc
  <2>3. targets'[c] = ids /\ pc'[c] = "commit"
    BY <1>1, <2>1 DEF Typed
  <2>4. AckedPrefix(c, targets[c])' = AckedPrefix(c, ids)
    BY <2>1, <2>3 DEF AckedPrefix, Pending
  <2>5. usable'[c] /\ subscribed'[c]
    BY DEF Ack, Call
  <2>6. CallOK(c)'
    BY <1>4, <2>3, <2>4, <2>5 DEF CallOK, CallerPc, AcquirePc, CommitPc
  <2> QED BY <1>1, <2>1, <2>2, <2>6, Bounds
          DEF CallStep, SameOf, Ack, Typed, Progress, files
<1> QED BY <1>3, <1>4

\* nack marks messages for redelivery.
LEMMA NackStep ==
  ASSUME Control, NEW c \in Consumer, NEW t \in Clock, NEW ids \in SUBSET Offset,
         Nack(c, t, ids)
  PROVE  CallStep(c)
<1>1. Typed /\ CallOK(c)
  BY TypedIs DEF Control
<1> DEFINE new == [m \in Offset |-> IF m \in ids THEN "retry" ELSE status[c][m]]
<1>2. new \in [Offset -> {"none", "out", "acked", "retry"}]
  BY <1>1 DEF Typed
<1>3. status' = [status EXCEPT ![c] = new]
  BY DEF Nack
<1> HIDE DEF new
<1>4. Typed'
  BY <1>1, <1>2, <1>3 DEF Nack, Typed, files, locals
<1>5. CallOK(c)'
  BY IdleOK DEF Nack, Call
<1> QED
  BY <1>1, <1>3, <1>4, <1>5, Bounds
  DEF CallStep, SameOf, Nack, Typed, Progress, files, locals

\* A commit checks that the lease is its own.
LEMMA CommitReadStep ==
  ASSUME Control, NEW c \in Consumer, NEW t \in Clock, NEW readable \in BOOLEAN,
         CommitRead(c, t, readable)
  PROVE  CallStep(c)
<1>1. Typed /\ CallOK(c)
  BY TypedIs DEF Control
<1>2. usable[c] /\ subscribed[c] /\ AckedPrefix(c, targets[c]) # {}
  BY <1>1 DEF CallOK, CommitRead, CallerPc, CommitPc
<1>3. Owned(c, t) \in BOOLEAN
  BY DEF Owned
<1>4. Typed'
  BY <1>1, <1>3 DEF CommitRead, Typed, Goto, CallerPc, files, tracker
<1>5. CallOK(c)'
  <2>1. CASE readable /\ Owned(c, t)
    <3>1. /\ pc'[c] = "commit_offset" /\ seen'[c] = lease /\ usable'[c] /\ subscribed'[c]
          /\ status' = status /\ targets' = targets
      BY <1>1, <1>2, <2>1 DEF CommitRead, Typed, Goto, tracker
    <3>2. lease \in Lease /\ lease.holder = c
      BY <1>1, <2>1 DEF Owned, Typed, LeaseFile
    <3>3. AckedPrefix(c, targets[c])' = AckedPrefix(c, targets[c])
      BY <3>1, PrefixKept
    <3> QED BY <1>2, <3>1, <3>2, <3>3 DEF CallOK, CallerPc, AcquirePc, CommitPc
  <2>2. CASE ~(readable /\ Owned(c, t))
    BY <1>1, <2>2, IdleOK DEF CommitRead, Typed, Goto
  <2> QED BY <2>1, <2>2
<1> QED
  BY <1>1, <1>2, <1>4, <1>5, Bounds
  DEF CallStep, SameOf, CommitRead, Typed, Goto, Progress, files, tracker

\* A commit does not go below the offset it read.
LEMMA CommitReadOffsetStep ==
  ASSUME Control, NEW c \in Consumer, NEW readable \in BOOLEAN,
         CommitReadOffset(c, readable)
  PROVE  CallStep(c)
<1>1. Typed /\ CallOK(c)
  BY TypedIs DEF Control
<1>2. Typed'
  BY <1>1 DEF CommitReadOffset, Typed, Goto, CallerPc, files, tracker
<1>3. CallOK(c)'
  <2>1. CASE readable
    <3>1. /\ pc'[c] = "commit_cas" /\ prior'[c] = offset /\ offset' = offset
          /\ usable' = usable /\ subscribed' = subscribed /\ seen' = seen
          /\ status' = status /\ targets' = targets
      BY <1>1, <2>1 DEF CommitReadOffset, Typed, Goto, files, tracker
    <3>2. AckedPrefix(c, targets[c])' = AckedPrefix(c, targets[c])
      BY <3>1, PrefixKept
    <3>3. offset \in Int
      BY <1>1, Bounds DEF Typed, Progress
    <3> QED BY <1>1, <3>1, <3>2, <3>3
            DEF CallOK, CommitReadOffset, CallerPc, AcquirePc, CommitPc
  <2>2. CASE ~readable
    BY <1>1, <2>2, IdleOK DEF CommitReadOffset, Typed, Goto
  <2> QED BY <2>1, <2>2
<1> QED
  BY <1>1, <1>2, <1>3, Bounds
  DEF CallStep, SameOf, CommitReadOffset, Typed, Goto, Progress, files, tracker

\* What a publication does to the committed offset
LEMMA Published ==
  ASSUME Control, NEW c \in Consumer, NEW outcome \in Outcome, CommitCas(c, outcome)
  PROVE  /\ offset' \in Progress /\ offset' >= offset
         /\ offset' = offset \/ (OffsetGuard(prior[c], seen[c]) /\ offset' = NewOffset(c))
<1>1. Typed /\ CallOK(c)
  BY TypedIs DEF Control
<1>2. AckedPrefix(c, targets[c]) # {}
  BY <1>1 DEF CallOK, CommitCas, CommitPc
<1>3. NewOffset(c) \in Offset /\ NewOffset(c) >= prior[c]
  BY <1>1, <1>2, NewOffsetType
<1>4. offset \in Progress /\ Messages \in Nat
  BY <1>1, Bounds DEF Typed
<1>5. offset' = IF outcome \in {"answer", "error_applied"} /\ OffsetGuard(prior[c], seen[c])
                THEN NewOffset(c) ELSE offset
  BY DEF CommitCas
<1>6. OffsetGuard(prior[c], seen[c]) => offset = prior[c]
  BY DEF OffsetGuard
<1> QED BY <1>3, <1>4, <1>5, <1>6 DEF Offset, Progress

\* A commit exchanges the offset file and trims the tracker.
LEMMA CommitCasStep ==
  ASSUME Control, NEW c \in Consumer, NEW outcome \in Outcome, CommitCas(c, outcome)
  PROVE  CallStep(c)
<1>1. Typed /\ CallOK(c)
  BY TypedIs DEF Control
<1>2. offset' \in Progress /\ offset' >= offset
  BY Published
<1>3. Acknowledged(c, targets[c]) \in [Offset -> {"none", "out", "acked", "retry"}]
  BY <1>1, AcknowledgedType
<1>4. /\ pc' \in [Consumer -> {"idle"} \cup CallerPc \cup TaskPc]
      /\ usable' \in [Consumer -> BOOLEAN]
      /\ status' \in [Consumer -> [Offset -> {"none", "out", "acked", "retry"}]]
  <2>1. /\ status' \in {status, [status EXCEPT ![c] = Acknowledged(c, targets[c])]}
        /\ usable' \in {usable, [usable EXCEPT ![c] = FALSE]}
        /\ pc' \in {[pc EXCEPT ![c] = "idle"], [pc EXCEPT ![c] = "commit"]}
    BY DEF CommitCas, Goto, Disable
  <2>2. pc' \in [Consumer -> {"idle"} \cup CallerPc \cup TaskPc]
    BY <1>1, <2>1 DEF Typed, CallerPc
  <2>3. usable' \in [Consumer -> BOOLEAN]
    BY <1>1, <2>1 DEF Typed
  <2>4. status' \in [Consumer -> [Offset -> {"none", "out", "acked", "retry"}]]
    <3> DEFINE Marks == [Offset -> {"none", "out", "acked", "retry"}]
               marked == Acknowledged(c, targets[c])
    <3>1. status \in [Consumer -> Marks] /\ marked \in Marks
      BY <1>1, <1>3 DEF Typed
    <3>2. status' = status \/ status' = [status EXCEPT ![c] = marked]
      BY <2>1
    <3> HIDE DEF Marks, marked
    <3>3. status' \in [Consumer -> Marks]
      BY <3>1, <3>2
    <3> QED BY <3>3 DEF Marks
  <2> QED BY <2>2, <2>3, <2>4
<1>5. Typed'
  BY <1>1, <1>2, <1>4 DEF CommitCas, Typed, locals
<1>6. \/ pc'[c] = "idle"
      \/ pc'[c] = "commit" /\ usable'[c] = usable[c] /\ status'[c] = status[c]
  BY <1>1 DEF CommitCas, Typed, Goto, Outcome
<1>7. CallOK(c)'
  <2>1. CASE pc'[c] = "idle"
    BY <2>1, IdleOK
  <2>2. CASE pc'[c] = "commit" /\ usable'[c] = usable[c] /\ status'[c] = status[c]
    <3>1. subscribed' = subscribed /\ targets' = targets
      BY DEF CommitCas, locals
    <3>2. AckedPrefix(c, targets[c])' = AckedPrefix(c, targets[c])
      BY <2>2, <3>1, PrefixKept
    <3> QED BY <1>1, <2>2, <3>1, <3>2
            DEF CallOK, CommitCas, CallerPc, AcquirePc, CommitPc
  <2> QED BY <1>6, <2>1, <2>2
<1>8. ASSUME NEW d \in Consumer, d # c
      PROVE  usable'[d] = usable[d] /\ pc'[d] = pc[d] /\ status'[d] = status[d]
  BY <1>1, <1>8 DEF CommitCas, Typed, Goto, Disable, Outcome
<1>9. usable'[c] => usable[c]
  BY <1>1 DEF CommitCas, Typed, Disable, Outcome
<1> QED
  BY <1>1, <1>2, <1>5, <1>7, <1>8, <1>9, Bounds
  DEF CallStep, SameOf, CommitCas, locals

\* The renewer wakes, waits for the tracker or ends.
LEMMA RenewerStep ==
  ASSUME Control, NEW c \in Consumer,
         RenewerWakes(c) \/ RenewerLeaves(c) \/ RenewerLocks(c)
  PROVE  CallStep(c)
<1>1. Typed /\ CallOK(c)
  BY TypedIs DEF Control
<1>2. CASE RenewerWakes(c)
  <2>1. Typed'
    BY <1>1, <1>2 DEF RenewerWakes, Typed, files, tracker, locals
  <2>2. AckedPrefix(c, targets[c])' = AckedPrefix(c, targets[c])
    BY <1>2, PrefixKept DEF RenewerWakes, tracker, locals
  <2>3. CallOK(c)'
    BY <1>1, <1>2, <2>2
    DEF RenewerWakes, CallOK, MayReplace, files, tracker, locals
  <2> QED BY <1>1, <1>2, <2>1, <2>3, Bounds
          DEF CallStep, SameOf, RenewerWakes, Typed, Progress, files, tracker, locals
<1>3. CASE RenewerLeaves(c)
  <2>1. Typed'
    BY <1>1, <1>3 DEF RenewerLeaves, Typed, Goto, TaskPc, files, tracker, locals
  <2>2. pc'[c] = "release" /\ ~usable'[c]
    BY <1>1, <1>3 DEF RenewerLeaves, Typed, Goto
  <2>3. CallOK(c)'
    BY <2>2 DEF CallOK, CallerPc, AcquirePc, CommitPc
  <2> QED BY <1>1, <1>3, <2>1, <2>3, Bounds
          DEF CallStep, SameOf, RenewerLeaves, Typed, Goto, Progress, files, tracker, locals
<1>4. CASE RenewerLocks(c)
  <2>1. Typed'
    BY <1>1, <1>4 DEF RenewerLocks, Typed, Goto, TaskPc, files, tracker, locals
  <2>2. pc'[c] = "renew"
    BY <1>1, <1>4 DEF RenewerLocks, Typed, Goto
  <2>3. CallOK(c)'
    BY <2>2 DEF CallOK, CallerPc, AcquirePc, CommitPc
  <2> QED BY <1>1, <1>4, <2>1, <2>3, Bounds
          DEF CallStep, SameOf, RenewerLocks, Typed, Goto, Progress, files, tracker, locals
<1> QED BY <1>2, <1>3, <1>4

\* A consumer whose renewal failed goes on to release.
LEMMA FailedOK ==
  ASSUME Typed, NEW c \in Consumer, RenewalFailed(c)
  PROVE  CallOK(c)'
<1>1. pc'[c] = "release" /\ ~usable'[c]
  BY DEF RenewalFailed, Typed, Goto, Disable
<1> QED BY <1>1 DEF CallOK, CallerPc, AcquirePc, CommitPc

\* A renewal checks that the lease is its own.
LEMMA RenewReadStep ==
  ASSUME Control, NEW c \in Consumer, NEW t \in Clock, NEW readable \in BOOLEAN,
         RenewRead(c, t, readable)
  PROVE  CallStep(c)
<1>1. Typed /\ CallOK(c)
  BY TypedIs DEF Control
<1>2. t + Ttl \in 0..(MaxTime + Skew + Ttl) /\ t + Ttl > 0
  BY Bounds DEF Clock, Time
<1>3. Typed'
  <2>1. /\ pc' \in [Consumer -> {"idle"} \cup CallerPc \cup TaskPc]
        /\ usable' \in [Consumer -> BOOLEAN]
        /\ renewer' \in [Consumer -> {"off", "asleep", "waiting"}]
    BY <1>1 DEF RenewRead, RenewalFailed, Typed, Goto, Disable, TaskPc
  <2>2. /\ seen' \in [Consumer -> LeaseFile]
        /\ deadline' \in [Consumer -> 0..(MaxTime + Skew + Ttl)]
    BY <1>1, <1>2 DEF RenewRead, Typed
  <2> QED BY <1>1, <2>1, <2>2 DEF RenewRead, Typed, files, tracker
<1>4. CallOK(c)'
  <2>1. CASE readable /\ Owned(c, t)
    <3>1. pc'[c] = "renew_cas" /\ seen'[c] = lease /\ deadline'[c] = t + Ttl
      BY <1>1, <2>1 DEF RenewRead, Typed, Goto
    <3>2. lease \in Lease /\ lease.holder = c
      BY <1>1, <2>1 DEF Owned, Typed, LeaseFile
    <3> QED BY <1>2, <3>1, <3>2 DEF CallOK, CallerPc, AcquirePc, CommitPc
  <2>2. CASE ~(readable /\ Owned(c, t))
    BY <1>1, <2>2, FailedOK DEF RenewRead
  <2> QED BY <2>1, <2>2
<1> QED
  BY <1>1, <1>3, <1>4, Bounds
  DEF CallStep, SameOf, RenewRead, RenewalFailed, Typed, Goto, Disable, Progress,
      files, tracker

\* A renewal exchanges the lease file.
LEMMA RenewCasStep ==
  ASSUME Control, NEW c \in Consumer, NEW outcome \in Outcome, RenewCas(c, outcome)
  PROVE  CallStep(c)
<1>1. Typed /\ CallOK(c)
  BY TypedIs DEF Control
<1>2. lease' \in LeaseFile /\ done' \subseteq Offset
  BY <1>1, NewLeaseType, LeaseWritten DEF RenewCas
<1>3. Typed'
  <2>1. /\ pc' \in [Consumer -> {"idle"} \cup CallerPc \cup TaskPc]
        /\ usable' \in [Consumer -> BOOLEAN]
        /\ renewer' \in [Consumer -> {"off", "asleep", "waiting"}]
    BY <1>1 DEF RenewCas, RenewalFailed, Typed, Goto, Disable, TaskPc, Outcome
  <2> QED BY <1>1, <1>2, <2>1 DEF RenewCas, Typed, tracker, locals
<1>4. CallOK(c)'
  <2>1. CASE outcome \in {"answer", "busy"}
    <3>1. pc'[c] \in {"idle", "renew"}
      BY <1>1, <2>1 DEF RenewCas, Typed, Goto
    <3> QED BY <3>1 DEF CallOK, CallerPc, AcquirePc, CommitPc
  <2>2. CASE outcome \notin {"answer", "busy"}
    BY <1>1, <2>2, FailedOK DEF RenewCas
  <2> QED BY <2>1, <2>2
<1>5. usable'[c] => usable[c]
  BY <1>1 DEF RenewCas, RenewalFailed, Typed, Disable, Outcome
<1>6. ASSUME NEW d \in Consumer, d # c PROVE usable'[d] = usable[d] /\ pc'[d] = pc[d]
  BY <1>1, <1>6 DEF RenewCas, RenewalFailed, Typed, Goto, Disable, Outcome
<1> QED
  BY <1>1, <1>3, <1>4, <1>5, <1>6, Bounds
  DEF CallStep, SameOf, RenewCas, Typed, Progress, tracker, locals

\* A release checks that the lease is its own.
LEMMA ReleaseReadStep ==
  ASSUME Control, NEW c \in Consumer, NEW readable \in BOOLEAN, ReleaseRead(c, readable)
  PROVE  CallStep(c)
<1>1. Typed /\ CallOK(c)
  BY TypedIs DEF Control
<1>2. Typed'
  BY <1>1 DEF ReleaseRead, Typed, Goto, TaskPc, files, tracker
<1>3. \/ pc'[c] = "idle"
      \/ /\ pc'[c] = "release_cas" /\ seen'[c] = lease
         /\ lease \in Lease /\ lease.holder = c /\ ~usable'[c]
  BY <1>1 DEF ReleaseRead, Typed, Goto, CallOK, LeaseFile
<1>4. CallOK(c)'
  BY <1>3 DEF CallOK, CallerPc, AcquirePc, CommitPc
<1> QED
  BY <1>1, <1>2, <1>4, Bounds
  DEF CallStep, SameOf, ReleaseRead, Typed, Goto, Progress, files, tracker

\* A release expires the lease.
LEMMA ReleaseCasStep ==
  ASSUME Control, NEW c \in Consumer, NEW outcome \in Outcome, ReleaseCas(c, outcome)
  PROVE  CallStep(c)
<1>1. Typed /\ CallOK(c)
  BY TypedIs DEF Control
<1>2. [seen[c] EXCEPT !.expires = 0] \in Lease
  BY <1>1, LeaseFields DEF CallOK, ReleaseCas
<1>3. lease' \in LeaseFile /\ done' \subseteq Offset
  BY <1>1, <1>2, LeaseWritten DEF ReleaseCas
<1>4. Typed'
  BY <1>1, <1>3 DEF ReleaseCas, Typed, Goto, TaskPc, tracker, locals
<1>5. pc'[c] \in {"idle", "release"} /\ ~usable'[c]
  BY <1>1 DEF ReleaseCas, Typed, Goto, CallOK
<1>6. CallOK(c)'
  BY <1>5 DEF CallOK, CallerPc, AcquirePc, CommitPc
<1> QED
  BY <1>1, <1>4, <1>6, Bounds
  DEF CallStep, SameOf, ReleaseCas, Typed, Goto, Progress, tracker, locals

\* shutdown refuses every later call.
LEMMA ShutdownStep ==
  ASSUME Control, NEW c \in Consumer, Shutdown(c)
  PROVE  CallStep(c)
<1>1. Typed /\ CallOK(c)
  BY TypedIs DEF Control
<1>2. Typed'
  BY <1>1 DEF Shutdown, Typed, Disable, files, tracker, locals
<1>3. ~usable'[c]
  BY <1>1 DEF Shutdown, Typed, Disable
<1>4. CallOK(c)'
  BY <1>1, <1>3
  DEF Shutdown, CallOK, CallerPc, AcquirePc, CommitPc, MayReplace, files, tracker, locals
<1> QED
  BY <1>1, <1>2, <1>4, Bounds
  DEF CallStep, SameOf, Shutdown, Typed, Disable, Progress, files, tracker, locals

\* What a cancelled call leaves behind, once its consumer is refused
LEMMA LeftBehind ==
  ASSUME Control, NEW c \in Consumer, ~usable'[c], subscribed' = subscribed,
         now' = now, NEW x \in Exchange(c)
  PROVE  OrphanOK(x)'
<1>1. Typed /\ CallOK(c)
  BY TypedIs DEF Control
<1>2. CASE pc[c] \in {"acquire_cas", "renew_cas"}
  <2>1. x = [file |-> "lease", old |-> seen[c], new |-> NewLease(c)]
    BY <1>2 DEF Exchange
  <2>2. x.file = "lease" /\ x.old = seen[c] /\ x.new = NewLease(c)
    BY <2>1
  <2>3. NewLease(c) \in Lease /\ NewLease(c).holder = c
    BY <1>1, NewLeaseType
  <2>4. seen[c] \in LeaseFile /\ MayReplace(seen[c], c)
    BY <1>1, <1>2 DEF Typed, CallOK, MayReplace
  <2>5. (seen[c] = NoLease \/ seen[c].holder # c) => ~subscribed[c]
    BY <1>1, <1>2, NoLeaseAssumption DEF CallOK, AcquirePc
  <2> QED BY <2>2, <2>3, <2>4, <2>5 DEF OrphanOK, OrphanLeaseOK, MayReplace
<1>3. CASE pc[c] = "release_cas"
  <2>1. x = [file |-> "lease", old |-> seen[c], new |-> [seen[c] EXCEPT !.expires = 0]]
    BY <1>3 DEF Exchange
  <2>2. x.file = "lease" /\ x.old = seen[c] /\ x.new = [seen[c] EXCEPT !.expires = 0]
    BY <2>1
  <2>3. seen[c] \in Lease /\ seen[c].holder = c
    BY <1>1, <1>3 DEF CallOK
  <2>4. x.new \in Lease /\ x.new.holder = c
    BY <2>2, <2>3, LeaseFields
  <2> QED BY <2>2, <2>3, <2>4, NoLeaseAssumption
          DEF OrphanOK, OrphanLeaseOK, MayReplace, LeaseFile
<1>4. CASE pc[c] = "commit_cas"
  <2>1. x = [file |-> "offset", old |-> prior[c], new |-> NewOffset(c), guard |-> seen[c]]
    BY <1>4 DEF Exchange
  <2>2. x.file = "offset" /\ x.old = prior[c] /\ x.new = NewOffset(c) /\ x.guard = seen[c]
    BY <2>1
  <2>3. /\ seen[c] \in Lease /\ seen[c].holder = c /\ subscribed[c]
        /\ AckedPrefix(c, targets[c]) # {}
    BY <1>1, <1>4 DEF CallOK, CommitPc
  <2>4. NewOffset(c) \in Offset /\ NewOffset(c) >= prior[c] /\ prior[c] \in Progress
    BY <1>1, <2>3, NewOffsetType DEF Typed
  <2>5. prior[c] =< NewOffset(c)
    BY <2>4, Bounds DEF Progress, Offset
  <2> QED BY <2>2, <2>3, <2>4, <2>5 DEF OrphanOK, OrphanOffsetOK
<1>5. CASE pc[c] \notin {"acquire_cas", "renew_cas", "release_cas", "commit_cas"}
  BY <1>5 DEF Exchange
<1> QED BY <1>2, <1>3, <1>4, <1>5

\* A cancelled call leaves its exchange behind and a refused consumer.
LEMMA CancelStep ==
  ASSUME Control, NEW c \in Consumer, NEW queued \in BOOLEAN,
         Cancel(c, queued) \/ Die(c, queued)
  PROVE  CallStep(c)
<1>1. Typed /\ CallOK(c)
  BY TypedIs DEF Control
<1>2. Typed'
  BY <1>1 DEF Cancel, Die, Typed, Goto, Disable, files, tracker, locals
<1>3. pc'[c] = "idle" /\ ~usable'[c] /\ subscribed' = subscribed /\ now' = now
  BY <1>1 DEF Cancel, Die, Typed, Goto, Disable
<1>4. \A x \in orphans' : x \in orphans \/ x \in Exchange(c)
  BY DEF Cancel, Die
<1>5. \A x \in orphans' : x \in orphans \/ OrphanOK(x)'
  BY <1>3, <1>4, LeftBehind
<1> QED
  BY <1>1, <1>2, <1>3, <1>5, IdleOK, Bounds
  DEF CallStep, SameOf, Cancel, Die, Typed, Goto, Disable, Progress, files, tracker, locals

\* Every step of a consumer
LEMMA ConsumerStep ==
  ASSUME Control, NEW c \in Consumer, Running(c) \/ Environment(c)
  PROVE  CallStep(c)
  BY SubscribeStep, AcquireReadStep, AcquireCasStep, FirstReadStep,
     CallRefusedStep, PollStep, AckStep, NackStep, CommitReadStep,
     CommitReadOffsetStep, CommitCasStep, RenewerStep, RenewReadStep,
     RenewCasStep, ReleaseReadStep, ReleaseCasStep, ShutdownStep, CancelStep
  DEF Running, Environment

(***************************************************************************)
(* Steps of nobody: a late exchange, time, and the control invariant       *)
(***************************************************************************)

\* A step that leaves every consumer alone
QuietStep ==
  /\ Typed' /\ \A d \in Consumer : SameOf(d)
  /\ now' >= now /\ offset' >= offset /\ orphans' \subseteq orphans

\* A step that moves no call keeps what calls know.
LEMMA QuietKeeps ==
  ASSUME Control, QuietStep
  PROVE  Control'
<1>1. Typed
  BY TypedIs DEF Control
<1>2. now \in Int /\ now' \in Int /\ now' >= now /\ Skew \in Nat
  BY <1>1, Bounds DEF Typed, QuietStep
<1>3. ASSUME NEW l \in LeaseFile, NEW c, MayReplace(l, c)
      PROVE  MayReplace(l, c)'
  <2>1. l \in Lease => l.expires \in Int
    BY LeaseFields, Bounds
  <2> QED BY <1>2, <1>3, <2>1 DEF MayReplace, LeaseFile
<1>4. ASSUME NEW d \in Consumer PROVE CallOK(d)'
  <2>1. SameOf(d) /\ CallOK(d)
    BY DEF QuietStep, Control
  <2>2. AckedPrefix(d, targets[d])' = AckedPrefix(d, targets[d])
    BY <2>1, PrefixKept DEF SameOf
  <2>3. prior[d] \in Int /\ offset \in Int /\ offset' \in Int /\ offset' >= offset
    BY <1>1, Bounds DEF Typed, QuietStep, Progress
  <2>4. pc'[d] = "acquire_cas" => MayReplace(seen[d], d)'
    <3>1. seen[d] \in LeaseFile
      BY <1>1 DEF Typed
    <3>2. pc[d] = "acquire_cas" => MayReplace(seen[d], d)
      BY <2>1 DEF CallOK
    <3> QED BY <1>3, <2>1, <3>1, <3>2 DEF SameOf, MayReplace
  <2> QED BY <2>1, <2>2, <2>3, <2>4 DEF SameOf, CallOK
<1>5. ASSUME NEW x \in orphans' PROVE OrphanOK(x)'
  <2>1. OrphanOK(x)
    BY <1>5 DEF Control, QuietStep
  <2>2. CASE OrphanLeaseOK(x)
    <3>1. x.new.holder \in Consumer
      BY <2>2, LeaseFields DEF OrphanLeaseOK
    <3>2. SameOf(x.new.holder)
      BY <3>1 DEF QuietStep
    <3>3. MayReplace(x.old, x.new.holder)'
      BY <1>3, <2>2 DEF OrphanLeaseOK
    <3> QED BY <2>2, <3>2, <3>3 DEF OrphanOK, OrphanLeaseOK, SameOf
  <2>3. CASE OrphanOffsetOK(x)
    <3>1. x.guard.holder \in Consumer
      BY <2>3, LeaseFields DEF OrphanOffsetOK
    <3>2. SameOf(x.guard.holder)
      BY <3>1 DEF QuietStep
    <3> QED BY <2>3, <3>2 DEF OrphanOK, OrphanOffsetOK, SameOf
  <2> QED BY <2>1, <2>2, <2>3 DEF OrphanOK
<1>6. TypeOK'
  BY <1>5
  DEF QuietStep, TypeOK, Typed, Progress, OrphanOK, OrphanLeaseOK, OrphanOffsetOK
<1> QED BY <1>4, <1>5, <1>6 DEF Control

\* An exchange left behind moves no call when it runs.
LEMMA OrphanStep ==
  ASSUME Control, NEW x \in orphans, OrphanRuns(x)
  PROVE  QuietStep
<1>1. Typed /\ OrphanOK(x)
  BY TypedIs DEF Control
<1>2. /\ lease' \in LeaseFile /\ done' \subseteq Offset
      /\ offset' \in Progress /\ offset' >= offset
  <2>1. offset \in Progress /\ offset \in Int
    BY <1>1, Bounds DEF Typed, Progress
  <2>2. CASE OrphanLeaseOK(x)
    <3>1. SetLease(Exchanged(x.old, x.new)) /\ offset' = offset
      BY <2>2 DEF OrphanRuns, OrphanLeaseOK
    <3> QED BY <1>1, <2>1, <2>2, <3>1, SetLeaseTyped DEF OrphanLeaseOK
  <2>3. CASE OrphanOffsetOK(x)
    <3>1. /\ offset' = IF OffsetGuard(x.old, x.guard) THEN x.new ELSE offset
          /\ lease' = lease /\ done' = done
      BY <2>3 DEF OrphanRuns, OrphanOffsetOK
    <3>2. x.new \in Progress /\ x.new \in Int
      BY <2>3, Bounds DEF OrphanOffsetOK, Progress, Offset
    <3> QED BY <1>1, <2>1, <2>3, <3>1, <3>2 DEF OrphanOffsetOK, OffsetGuard, Typed
  <2> QED BY <1>1, <2>2, <2>3 DEF OrphanOK
<1>3. Typed'
  BY <1>1, <1>2 DEF OrphanRuns, Typed, tracker, locals
<1>4. now' = now /\ now \in Int /\ orphans' \subseteq orphans
  BY <1>1, Bounds DEF OrphanRuns, Typed
<1> QED BY <1>2, <1>3, <1>4 DEF QuietStep, SameOf, OrphanRuns, tracker, locals

\* Time moves no call.
LEMMA TickStep ==
  ASSUME Control, Tick \/ UNCHANGED vars
  PROVE  QuietStep
<1>1. Typed
  BY TypedIs DEF Control
<1>2. now \in Int /\ offset \in Int
  BY <1>1, Bounds DEF Typed, Progress
<1>3. CASE Tick
  <2>1. now' \in 1..MaxTime /\ now' >= now
    BY <1>1, <1>3, Bounds DEF Tick, Typed
  <2> QED BY <1>1, <1>2, <1>3, <2>1
          DEF QuietStep, SameOf, Tick, Typed, files, tracker, locals
<1>4. CASE UNCHANGED vars
  BY <1>1, <1>2, <1>4 DEF QuietStep, SameOf, Typed, vars, files, tracker, locals
<1> QED BY <1>3, <1>4

\* What any step is
LEMMA StepCases ==
  ASSUME Control, [Next]_vars
  PROVE  \/ QuietStep
         \/ \E c \in Consumer : (Running(c) \/ Environment(c)) /\ CallStep(c)
  BY ConsumerStep, OrphanStep, TickStep DEF Next

\* No call is in progress.
LEMMA InitControl == Init => Control
<1> SUFFICES ASSUME Init PROVE Control
  OBVIOUS
<1>1. Typed
  BY Bounds DEF Init, Typed, Progress, LeaseFile
<1>2. \A c \in Consumer : CallOK(c)
  BY DEF Init, CallOK, CallerPc, AcquirePc, CommitPc
<1>3. orphans = {}
  BY DEF Init
<1>4. TypeOK
  BY <1>1, <1>3 DEF Typed, TypeOK, Progress
<1> QED BY <1>2, <1>3, <1>4 DEF Control

\* Every step keeps what calls know.
LEMMA NextControl == Control /\ [Next]_vars => Control'
  BY StepCases, CallStepKeeps, QuietKeeps

\* Control is an invariant.
LEMMA ControlInvariant == Spec => []Control
  BY InitControl, NextControl, PTL DEF Spec

\* The two files, the trackers, the calls and the exchanges left behind keep
\* their types: a late publication is of a message, under a lease
\* (offset_store::commit).
THEOREM TypeCorrect == Spec => []TypeOK
  BY ControlInvariant, PTL DEF Control

\* Committed progress never goes back: not by a commit, whatever the exchange
\* answers, and not by one that runs after its ack was cancelled
\* (offset_store::commit takes the larger offset).
THEOREM ProgressMonotone == Spec => OffsetMonotone
<1>1. Control /\ [Next]_vars => [offset' >= offset]_vars
  BY StepCases DEF CallStep, QuietStep
<1> QED BY <1>1, ControlInvariant, PTL DEF Spec, OffsetMonotone

(***************************************************************************)
(* The lease changes hands only as the code allows                         *)
(***************************************************************************)

\* A lease that is replaced: by its holder, or one that some clock called
\* expired, by a consumer not subscribed yet; a tombstone only by a consumer
\* that is refused.
Replaced ==
  /\ lease' \in Lease
  /\ MayReplace(lease, lease'.holder)
  /\ lease'.expires = 0 => ~usable[lease'.holder]
  /\ ~Holds(lease'.holder) => ~subscribed[lease'.holder]

\* acquire replaces a lease that is its own or has expired.
LEMMA AcquireCasLease ==
  ASSUME Control, NEW c \in Consumer, NEW outcome \in Outcome, AcquireCas(c, outcome)
  PROVE  lease' = lease \/ Replaced
<1>1. Typed /\ CallOK(c)
  BY TypedIs DEF Control
<1>2. NewLease(c) \in Lease /\ NewLease(c).holder = c /\ NewLease(c).expires = deadline[c]
  BY <1>1, NewLeaseType
<1>3. lease' = lease \/ (lease = seen[c] /\ lease' = NewLease(c))
  BY <1>1, <1>2, LeaseWritten DEF AcquireCas
<1>4. MayReplace(seen[c], c) /\ deadline[c] > 0 /\ ~subscribed[c]
  BY <1>1 DEF CallOK, AcquireCas, AcquirePc
<1> QED BY <1>2, <1>3, <1>4 DEF Replaced

\* A renewal replaces its own lease.
LEMMA RenewCasLease ==
  ASSUME Control, NEW c \in Consumer, NEW outcome \in Outcome, RenewCas(c, outcome)
  PROVE  lease' = lease \/ Replaced
<1>1. Typed /\ CallOK(c)
  BY TypedIs DEF Control
<1>2. NewLease(c) \in Lease /\ NewLease(c).holder = c /\ NewLease(c).expires = deadline[c]
  BY <1>1, NewLeaseType
<1>3. lease' = lease \/ (lease = seen[c] /\ lease' = NewLease(c))
  BY <1>1, <1>2, LeaseWritten DEF RenewCas
<1>4. seen[c] \in Lease /\ seen[c].holder = c /\ deadline[c] > 0
  BY <1>1 DEF CallOK, RenewCas
<1> QED BY <1>2, <1>3, <1>4, NoLeaseAssumption DEF Replaced, MayReplace, Holds

\* A release replaces its own lease.
LEMMA ReleaseCasLease ==
  ASSUME Control, NEW c \in Consumer, NEW outcome \in Outcome, ReleaseCas(c, outcome)
  PROVE  lease' = lease \/ Replaced
<1>1. Typed /\ CallOK(c)
  BY TypedIs DEF Control
<1> DEFINE new == [seen[c] EXCEPT !.expires = 0]
<1>2. seen[c] \in Lease /\ seen[c].holder = c /\ ~usable[c]
  BY <1>1 DEF CallOK, ReleaseCas
<1>3. new \in Lease /\ new.holder = c
  BY <1>2, LeaseFields
<1>4. lease' = lease \/ (lease = seen[c] /\ lease' = new)
  BY <1>1, <1>3, LeaseWritten DEF ReleaseCas
<1> HIDE DEF new
<1> QED BY <1>2, <1>3, <1>4, NoLeaseAssumption DEF Replaced, MayReplace, Holds

\* A late exchange replaces a lease that is its own or has expired.
LEMMA OrphanLease ==
  ASSUME Control, NEW x \in orphans, OrphanRuns(x)
  PROVE  lease' = lease \/ Replaced
<1>1. Typed /\ OrphanOK(x)
  BY TypedIs DEF Control
<1>2. CASE OrphanLeaseOK(x)
  <2>1. SetLease(Exchanged(x.old, x.new)) /\ x.new \in Lease
    BY <1>2 DEF OrphanRuns, OrphanLeaseOK
  <2>2. lease' = lease \/ (lease = x.old /\ lease' = x.new)
    BY <1>1, <2>1, SetLeaseTyped
  <2> QED BY <1>2, <2>2 DEF Replaced, OrphanLeaseOK, Holds
<1>3. CASE OrphanOffsetOK(x)
  BY <1>3 DEF OrphanRuns, OrphanOffsetOK
<1> QED BY <1>1, <1>2, <1>3 DEF OrphanOK

\* No step replaces the lease in any other way.
LEMMA LeaseStep ==
  ASSUME Control, [Next]_vars
  PROVE  lease' = lease \/ Replaced
<1>1. ASSUME NEW c \in Consumer, Running(c) PROVE lease' = lease \/ Replaced
  <2>1. CASE \E o \in Outcome : AcquireCas(c, o) \/ RenewCas(c, o) \/ ReleaseCas(c, o)
    BY <2>1, AcquireCasLease, RenewCasLease, ReleaseCasLease
  <2>2. CASE ~\E o \in Outcome : AcquireCas(c, o) \/ RenewCas(c, o) \/ ReleaseCas(c, o)
    BY <1>1, <2>2
    DEF Running, AcquireRead, CommitRead, RenewRead, CommitCas, FirstRead,
        CommitReadOffset, ReleaseRead, RenewerWakes, RenewerLeaves, RenewerLocks, files
  <2> QED BY <2>1, <2>2
<1>2. ASSUME NEW c \in Consumer, Environment(c) PROVE lease' = lease
  BY <1>2
  DEF Environment, Subscribe, CallRefused, Poll, Ack, Nack, Shutdown, Cancel, Die, files
<1> QED BY <1>1, <1>2, OrphanLease DEF Next, Tick, vars, files

\* A lease that every clock calls valid never changes hands, and its holder,
\* while in good standing, does not see it released: update() takes only what
\* it found absent, its own or expired, and only a consumer already refused
\* releases (leases.rs).
THEOREM ValidLeaseStays == Spec => ValidLeaseKept
<1>1. ASSUME Control, [Next]_vars, lease # NoLease, lease.expires > now + Skew
      PROVE  /\ lease'.holder = lease.holder
             /\ lease'.expires = 0 => ~usable[lease.holder]
  <2>1. lease \in Lease /\ lease.expires \in Nat /\ now \in Nat /\ Skew \in Nat
    BY <1>1, TypedIs, LeaseFields, Bounds DEF Control, Typed, LeaseFile
  <2>2. CASE lease' = lease
    BY <1>1, <2>1, <2>2
  <2>3. CASE Replaced
    BY <1>1, <2>1, <2>3 DEF Replaced, MayReplace
  <2> QED BY <1>1, <2>2, <2>3, LeaseStep
<1>2. Control /\ [Next]_vars =>
        [(lease # NoLease /\ lease.expires > now + Skew)
           => /\ lease'.holder = lease.holder
              /\ lease'.expires = 0 => ~usable[lease.holder]]_vars
  BY <1>1
<1> QED BY <1>2, ControlInvariant, PTL DEF Spec, ValidLeaseKept

(***************************************************************************)
(* Progress: the tracker's window, the application's words, the offset     *)
(***************************************************************************)

\* What the invariant gives of the holder, as numbers
LEMMA InvTypes ==
  ASSUME IInv
  PROVE  /\ Control /\ Typed /\ offset \in Int /\ offset >= -1 /\ Messages \in Nat
         /\ \A c \in Consumer : CallOK(c) /\ TrackerOK(c)
  BY TypedIs, Bounds DEF IInv, Control, Typed, Progress

\* What the holder would publish was acknowledged: the leading marks and the
\* ids of the ack, from the committed offset on without a gap.
LEMMA PublishAcked ==
  ASSUME IInv, NEW c \in Consumer, pc[c] = "commit_cas", Holds(c)
  PROVE  \A m \in 0..NewOffset(c) : m \in done
<1>1. Typed /\ CallOK(c) /\ TrackerOK(c) /\ offset \in Int /\ Messages \in Nat
  BY InvTypes
<1> DEFINE S == AckedPrefix(c, targets[c])
           last == Max(S)
<1>2. /\ S # {} /\ prior[c] =< offset /\ prior[c] \in Int /\ HolderOK(c)
      /\ targets[c] \subseteq done
  <2>1. usable[c] /\ subscribed[c]
    BY <1>1 DEF CallOK, CallerPc, CommitPc
  <2>2. HolderOK(c)
    BY <1>1, <2>1 DEF TrackerOK, Good
  <2> QED BY <1>1, <2>2, Bounds DEF CallOK, CommitPc, HolderOK, Typed, Progress
<1>3. last \in S /\ last \in Offset
  BY <1>1, <1>2, NewOffsetType, PrefixType
<1>4. NewOffset(c) = IF last > prior[c] THEN last ELSE prior[c]
  BY DEF NewOffset
<1>5. ASSUME NEW m \in Offset, m =< last, offset < m
      PROVE  m \in done
  <2>1. last \in Pending(c) /\ \A x \in Pending(c) :
                 x =< last => status[c][x] = "acked" \/ x \in targets[c]
    BY <1>3 DEF AckedPrefix
  <2>2. m \in Pending(c)
    <3>1. last < next_read[c]
      BY <1>2, <2>1, <1>3 DEF HolderOK, WindowFrom, Pending
    <3>2. next_read[c] \in Int
      BY <1>1 DEF Typed
    <3>3. offset + 1 =< m /\ m < next_read[c]
      BY <1>1, <1>3, <1>5, <3>1, <3>2 DEF Offset
    <3> QED BY <1>2, <3>3 DEF HolderOK, WindowFrom, Pending
  <2>3. status[c][m] = "acked" \/ m \in targets[c]
    BY <1>5, <2>1, <2>2
  <2> QED BY <1>2, <2>3 DEF HolderOK
<1>6. \A m \in 0..offset : m \in done
  BY DEF IInv, CommittedWasAcked
<1> HIDE DEF last
<1>7. ASSUME NEW m \in 0..NewOffset(c) PROVE m \in done
  <2>1. CASE m =< offset
    BY <1>1, <1>3, <1>4, <1>2, <1>6, <1>7, <2>1 DEF Offset
  <2>2. CASE ~(m =< offset)
    <3>1. m =< last /\ m \in Offset /\ offset < m
      BY <1>1, <1>2, <1>3, <1>4, <1>7, <2>2 DEF Offset
    <3> QED BY <1>5, <3>1
  <2> QED BY <2>1, <2>2
<1> QED BY <1>7

\* A consumer that subscribed and holds the lease after a step held it before.
LEMMA HeldBefore ==
  ASSUME Control, lease' = lease \/ Replaced, NEW d \in Consumer,
         subscribed[d], Holds(d)'
  PROVE  Holds(d)
  BY DEF Replaced, Holds

\* While the lease stays with h, the application's words are taken back only
\* by a nack of h.
LEMMA WordsKept ==
  ASSUME Control, [Next]_vars, NEW h \in Consumer, Holds(h), Holds(h)',
         ~\E t \in Clock, ids \in SUBSET Offset : Nack(h, t, ids)
  PROVE  done \subseteq done'
<1>1. ASSUME NEW new, SetLease(new) PROVE done' = done
  BY <1>1 DEF SetLease, DoneUnder, Holds
<1>2. ASSUME NEW c \in Consumer, Running(c) PROVE done' = done
  BY <1>1, <1>2
  DEF Running, AcquireRead, AcquireCas, CommitRead, RenewRead, RenewCas, CommitCas,
      FirstRead, CommitReadOffset, ReleaseRead, ReleaseCas, RenewerWakes, RenewerLeaves,
      RenewerLocks
<1>3. ASSUME NEW c \in Consumer, Environment(c) PROVE done \subseteq done'
  <2>1. CASE \E t \in Clock, ids \in SUBSET Offset : Nack(c, t, ids)
    BY <2>1, ZenonT(40) DEF Nack, Owned, Holds
  <2>2. CASE ~\E t \in Clock, ids \in SUBSET Offset : Nack(c, t, ids)
    BY <1>3, <2>2
    DEF Environment, Subscribe, CallRefused, Poll, Ack, Shutdown, Cancel, Die
  <2> QED BY <2>1, <2>2
<1>4. ASSUME NEW x \in orphans, OrphanRuns(x) PROVE done' = done
  BY <1>1, <1>4 DEF OrphanRuns
<1> QED BY <1>2, <1>3, <1>4 DEF Next, Tick, vars

\* While h is in good standing and holds the lease, only its own commit moves
\* the offset.
LEMMA OffsetKept ==
  ASSUME Control, [Next]_vars, NEW h \in Consumer, Good(h),
         ~\E o \in Outcome : CommitCas(h, o)
  PROVE  offset' = offset
<1>1. ASSUME NEW c \in Consumer, NEW o \in Outcome, CommitCas(c, o) PROVE offset' = offset
  <2>1. CallOK(c) /\ c # h
    BY <1>1 DEF Control
  <2>2. seen[c] \in Lease /\ seen[c].holder = c
    BY <1>1, <2>1 DEF CallOK, CommitCas
  <2>3. ~OffsetGuard(prior[c], seen[c])
    BY <2>1, <2>2 DEF OffsetGuard, Good, Holds
  <2> QED BY <1>1, <2>3 DEF CommitCas
<1>2. ASSUME NEW c \in Consumer, Running(c) PROVE offset' = offset
  BY <1>1, <1>2
  DEF Running, AcquireRead, AcquireCas, CommitRead, RenewRead, RenewCas,
      FirstRead, CommitReadOffset, ReleaseRead, ReleaseCas, RenewerWakes, RenewerLeaves,
      RenewerLocks, files
<1>3. ASSUME NEW c \in Consumer, Environment(c) PROVE offset' = offset
  BY <1>3
  DEF Environment, Subscribe, CallRefused, Poll, Ack, Nack, Shutdown, Cancel, Die, files
<1>4. ASSUME NEW x \in orphans, OrphanRuns(x) PROVE offset' = offset
  <2>1. OrphanOK(x)
    BY DEF Control
  <2>2. CASE OrphanLeaseOK(x)
    BY <1>4, <2>2 DEF OrphanRuns, OrphanLeaseOK
  <2>3. CASE OrphanOffsetOK(x)
    <3>1. ~OffsetGuard(x.old, x.guard)
      BY <2>3 DEF OffsetGuard, OrphanOffsetOK, Good, Holds
    <3> QED BY <1>4, <2>3, <3>1 DEF OrphanRuns, OrphanOffsetOK
  <2> QED BY <2>1, <2>2, <2>3 DEF OrphanOK
<1> QED BY <1>2, <1>3, <1>4 DEF Next, Tick, vars, files

\* A step that leaves the tracker of d alone
TrackerKept(d) ==
  /\ status'[d] = status[d] /\ next_read'[d] = next_read[d]
  /\ subscribed'[d] = subscribed[d]
  /\ usable'[d] => usable[d]
  /\ pc'[d] \in CommitPc => pc[d] \in CommitPc /\ targets'[d] = targets[d]

\* A step that leaves a tracker alone keeps what it says.
LEMMA TrackerKeeps ==
  ASSUME IInv, [Next]_vars, NEW d \in Consumer, TrackerKept(d),
         ~\E t \in Clock, ids \in SUBSET Offset : Nack(d, t, ids),
         ~\E o \in Outcome : CommitCas(d, o)
  PROVE  TrackerOK(d)'
<1>1. Control /\ Typed /\ TrackerOK(d)
  BY InvTypes
<1>2. \E lo \in 0..next_read[d]' : WindowFrom(d, lo)'
  BY <1>1 DEF TrackerOK, WindowFrom, TrackerKept
<1>3. Good(d)' => HolderOK(d)'
  <2> SUFFICES ASSUME Good(d)' PROVE HolderOK(d)'
    OBVIOUS
  <2>1. usable[d] /\ subscribed[d] /\ Holds(d)'
    BY DEF Good, TrackerKept
  <2>2. Holds(d)
    BY <1>1, <2>1, LeaseStep, HeldBefore
  <2>3. done \subseteq done' /\ offset' = offset /\ HolderOK(d)
    BY <1>1, <2>1, <2>2, WordsKept, OffsetKept DEF Good, TrackerOK
  <2> QED BY <2>3 DEF HolderOK, WindowFrom, TrackerKept
<1> QED BY <1>1, <1>2, <1>3 DEF TrackerOK, TrackerKept

\* Resuming starts an empty window behind the committed offset.
LEMMA FirstReadTracker ==
  ASSUME IInv, NEW c \in Consumer, NEW readable \in BOOLEAN, FirstRead(c, readable),
         [Next]_vars
  PROVE  TrackerOK(c)'
<1>1. Control /\ Typed /\ CallOK(c) /\ TrackerOK(c) /\ offset \in Int /\ offset >= -1
  BY InvTypes
<1>2. CASE readable
  <2>1. /\ next_read'[c] = offset + 1 /\ status' = status /\ pc'[c] = "idle"
        /\ offset' = offset
    BY <1>1, <1>2 DEF FirstRead, Typed, Goto, files
  <2>2. subscribed'[c]
    BY <1>1, <1>2 DEF FirstRead, Typed
  <2>3. \A m \in Offset : status[c][m] = "none"
    BY <1>1 DEF TrackerOK, CallOK, FirstRead, AcquirePc
  <2>4. offset + 1 \in 0..next_read'[c]
    BY <1>1, <2>1
  <2>5. \A m \in Offset : ~(offset + 1 =< m /\ m < next_read'[c])
    BY <1>1, <2>1 DEF Offset
  <2>6. WindowFrom(c, offset + 1)'
    BY <2>1, <2>3, <2>4, <2>5 DEF WindowFrom
  <2>7. \E lo \in 0..next_read[c]' : WindowFrom(c, lo)'
    BY <2>1, <2>4, <2>6 DEF WindowFrom
  <2> QED BY <2>1, <2>2, <2>3, <2>6, <2>7 DEF TrackerOK, HolderOK, CommitPc
<1>3. CASE ~readable
  <2>1. TrackerKept(c)
    BY <1>1, <1>3 DEF FirstRead, TrackerKept, Typed, Disable, Goto, CommitPc
  <2> QED BY <2>1, TrackerKeeps DEF FirstRead, Nack, CommitCas, Call
<1> QED BY <1>2, <1>3

\* Polling moves the cursor over what it hands out.
LEMMA PollTracker ==
  ASSUME IInv, NEW c \in Consumer, NEW t \in Clock, NEW max \in 1..MaxBatch,
         Poll(c, t, max)
  PROVE  TrackerOK(c)'
<1>1. Control /\ Typed /\ TrackerOK(c) /\ offset \in Int
  BY InvTypes
<1> DEFINE again == Again(c, max)
           fresh == Fresh(c, max)
           end == next_read[c] + Cardinality(fresh)
<1>2. /\ again \subseteq Offset /\ \A m \in again : status[c][m] = "retry"
      /\ end \in next_read[c]..Messages
      /\ \A m \in Offset : m \in fresh <=> next_read[c] =< m /\ m < end
  <2>1. again \subseteq Offset /\ \A m \in again : status[c][m] = "retry"
    BY <1>1, Delivered
  <2>2. end \in next_read[c]..Messages
    BY <1>1, Delivered
  <2>3. \A m \in Offset : m \in fresh <=> next_read[c] =< m /\ m < end
    BY <1>1, Delivered
  <2> QED BY <2>1, <2>2, <2>3
<1>3. /\ \A m \in Offset : status'[c][m] = IF m \in again \cup fresh THEN "out"
                                           ELSE status[c][m]
      /\ next_read'[c] = end
  BY <1>1 DEF Poll, Typed, Again, Fresh
<1> HIDE DEF end, again, fresh
<1>4. next_read[c] \in 0..Messages /\ end \in Int /\ end >= next_read[c]
  BY <1>1, <1>2, Bounds DEF Typed
<1>5. ASSUME NEW lo \in 0..next_read[c], WindowFrom(c, lo)
      PROVE  WindowFrom(c, lo)'
  <2>1. lo \in 0..next_read[c]'
    BY <1>3, <1>4, <1>5, Bounds
  <2>2. ASSUME NEW m \in Offset
        PROVE  status'[c][m] # "none" <=> lo =< m /\ m < next_read'[c]
    <3>1. m \in Int /\ lo \in Int /\ next_read[c] \in Int /\ lo =< next_read[c]
      BY <1>4, Bounds DEF Offset
    <3>2. status[c][m] # "none" <=> lo =< m /\ m < next_read[c]
      BY <1>5 DEF WindowFrom
    <3>3. m \in fresh <=> next_read[c] =< m /\ m < end
      BY <1>2, <1>4, <3>1
    <3>4. m \in again => status[c][m] = "retry"
      BY <1>2
    <3>5. status'[c][m] # "none" <=> m \in fresh \/ status[c][m] # "none"
      BY <1>3, <3>4
    <3> QED BY <1>3, <1>4, <3>1, <3>2, <3>3, <3>5
  <2> QED BY <2>1, <2>2 DEF WindowFrom
<1>6. \E lo \in 0..next_read[c]' : WindowFrom(c, lo)'
  BY <1>1, <1>5 DEF TrackerOK, WindowFrom
<1>7. /\ Good(c) /\ HolderOK(c) /\ pc'[c] = "idle" /\ offset' = offset /\ done' = done
      /\ subscribed'[c]
  BY <1>1 DEF Poll, Call, Owned, Good, Holds, TrackerOK, files
<1>8. WindowFrom(c, offset + 1)'
  <2>1. WindowFrom(c, offset + 1) /\ offset + 1 \in 0..next_read[c]
    BY <1>7 DEF HolderOK, WindowFrom
  <2> QED BY <1>5, <1>7, <2>1 DEF WindowFrom
<1>9. \A m \in Offset : status'[c][m] = "acked" => m \in done'
  BY <1>3, <1>7 DEF HolderOK
<1> QED BY <1>6, <1>7, <1>8, <1>9 DEF TrackerOK, HolderOK, CommitPc

\* Marking changes the state of pending messages and keeps the window.
LEMMA MarksTracker ==
  ASSUME IInv, NEW c \in Consumer, Good(c),
         \A m \in Offset : status'[c][m] # "none" <=> status[c][m] # "none",
         \A m \in Offset : status'[c][m] = "acked" => m \in done',
         next_read' = next_read, offset' = offset, subscribed' = subscribed,
         pc'[c] \in CommitPc => targets'[c] \subseteq done'
  PROVE  TrackerOK(c)'
<1>1. TrackerOK(c)
  BY InvTypes
<1>2. ASSUME NEW lo, WindowFrom(c, lo) PROVE WindowFrom(c, lo)'
  BY <1>2 DEF WindowFrom
<1>3. \E lo \in 0..next_read[c]' : WindowFrom(c, lo)'
  BY <1>1, <1>2 DEF TrackerOK
<1>4. WindowFrom(c, offset + 1)'
  BY <1>1 DEF TrackerOK, HolderOK, WindowFrom
<1>5. subscribed'[c]
  BY DEF Good
<1> QED BY <1>3, <1>4, <1>5 DEF TrackerOK, HolderOK

\* An ack marks in the tracker what the application said.
LEMMA AckTracker ==
  ASSUME IInv, NEW c \in Consumer, NEW t \in Clock, NEW ids \in SUBSET Offset,
         Ack(c, t, ids)
  PROVE  TrackerOK(c)'
<1>1. Typed /\ TrackerOK(c)
  BY InvTypes
<1>2. Good(c) /\ HolderOK(c) /\ pc[c] = "idle"
  BY <1>1 DEF Ack, Call, Owned, Good, Holds, TrackerOK
<1>3. /\ next_read' = next_read /\ offset' = offset /\ subscribed' = subscribed
      /\ done' = done \cup ids
  BY DEF Ack, files
<1>4. CASE AckedPrefix(c, ids) = {}
  <2>1. /\ status'[c] = Acknowledged(c, ids) /\ pc'[c] = "idle"
    BY <1>1, <1>2, <1>4 DEF Ack, Typed
  <2>2. \A m \in Offset : status'[c][m] =
           IF m \in Pending(c) \cap ids THEN "acked" ELSE status[c][m]
    BY <1>4, <2>1 DEF Acknowledged
  <2>3. \A m \in Offset : status'[c][m] # "none" <=> status[c][m] # "none"
    BY <2>2 DEF Pending
  <2>4. \A m \in Offset : status'[c][m] = "acked" => m \in done'
    BY <1>2, <1>3, <2>2 DEF HolderOK
  <2> QED BY <1>2, <1>3, <2>1, <2>3, <2>4, MarksTracker DEF CommitPc
<1>5. CASE AckedPrefix(c, ids) # {}
  <2>1. status' = status /\ targets'[c] = ids
    BY <1>1, <1>5 DEF Ack, Typed
  <2>2. \A m \in Offset : status'[c][m] = "acked" => m \in done'
    BY <1>2, <1>3, <2>1 DEF HolderOK
  <2> QED BY <1>2, <1>3, <2>1, <2>2, MarksTracker
<1> QED BY <1>4, <1>5

\* A nack takes back an ack in the tracker and in the history.
LEMMA NackTracker ==
  ASSUME IInv, NEW c \in Consumer, NEW t \in Clock, NEW ids \in SUBSET Offset,
         Nack(c, t, ids)
  PROVE  TrackerOK(c)'
<1>1. Typed /\ TrackerOK(c)
  BY InvTypes
<1>2. Good(c) /\ HolderOK(c) /\ pc'[c] = "idle"
  BY <1>1 DEF Nack, Call, Owned, Good, Holds, TrackerOK
<1>3. /\ next_read' = next_read /\ offset' = offset /\ subscribed' = subscribed
      /\ done' = done \ ids /\ ids \subseteq Pending(c)
  BY DEF Nack, files
<1>4. \A m \in Offset : status'[c][m] = IF m \in ids THEN "retry" ELSE status[c][m]
  BY <1>1 DEF Nack, Typed
<1>5. \A m \in Offset : status'[c][m] # "none" <=> status[c][m] # "none"
  BY <1>3, <1>4 DEF Pending
<1>6. \A m \in Offset : status'[c][m] = "acked" => m \in done'
  BY <1>2, <1>3, <1>4 DEF HolderOK
<1> QED BY <1>2, <1>3, <1>5, <1>6, MarksTracker DEF CommitPc

\* A publication that succeeded moves offset and window together.
LEMMA CommitTracker ==
  ASSUME IInv, [Next]_vars, NEW c \in Consumer, NEW o \in Outcome, CommitCas(c, o)
  PROVE  TrackerOK(c)'
<1>1. Control /\ Typed /\ CallOK(c) /\ TrackerOK(c) /\ offset \in Int /\ Messages \in Nat
  BY InvTypes
<1>2. usable[c] /\ subscribed[c] /\ pc[c] = "commit_cas" /\ seen[c] \in Lease
      /\ seen[c].holder = c /\ AckedPrefix(c, targets[c]) # {}
  BY <1>1 DEF CallOK, CommitCas, CallerPc, CommitPc
<1>3. /\ next_read' = next_read /\ subscribed' = subscribed /\ done' = done
      /\ lease' = lease /\ targets' = targets
  BY DEF CommitCas, locals
<1>4. CASE o = "answer" /\ OffsetGuard(prior[c], seen[c])
  <2>1. Good(c) /\ HolderOK(c) /\ offset = prior[c]
    BY <1>1, <1>2, <1>4, NoLeaseAssumption DEF OffsetGuard, Good, Holds, TrackerOK
  <2> DEFINE S == AckedPrefix(c, targets[c])
             last == Max(S)
  <2>2. last \in S /\ last \in Offset /\ \A y \in S : last >= y
    BY <1>1, <1>2, NewOffsetType, PrefixType
  <2>3. status[c][last] # "none" /\ offset + 1 =< last /\ last < next_read[c]
    BY <2>1, <2>2, PrefixType DEF Pending, HolderOK, WindowFrom
  <2>4. NewOffset(c) = last
    <3>1. NewOffset(c) = IF last > prior[c] THEN last ELSE prior[c]
      BY DEF NewOffset
    <3> HIDE DEF last
    <3> QED BY <1>1, <2>1, <2>2, <2>3, <3>1 DEF Offset
  <2>5. offset' = last /\ pc'[c] = "idle" /\ status'[c] = Acknowledged(c, targets[c])
    BY <1>1, <1>4, <2>4 DEF CommitCas, Goto, Typed
  <2>6. ASSUME NEW m \in Offset
        PROVE  m \in S <=> offset + 1 =< m /\ m =< last
    <3>1. m \in Int /\ last \in Int /\ next_read[c] \in Int
      BY <1>1, <2>2 DEF Offset, Typed
    <3>2. m \in S => offset + 1 =< m /\ m =< last
      BY <2>1, <2>2, <3>1, PrefixType DEF Pending, HolderOK, WindowFrom
    <3>3. ASSUME offset + 1 =< m, m =< last PROVE m \in S
      <4>1. status[c][m] # "none"
        BY <2>1, <2>3, <3>1, <3>3 DEF HolderOK, WindowFrom
      <4>2. \A x \in Pending(c) : x =< last => status[c][x] = "acked" \/ x \in targets[c]
        BY <2>2 DEF AckedPrefix
      <4>3. \A x \in Pending(c) : x =< m => x =< last
        BY <3>1, <3>3 DEF Pending, Offset
      <4> QED BY <4>1, <4>2, <4>3 DEF AckedPrefix, Pending
    <3> QED BY <3>2, <3>3
  <2> HIDE DEF S, last
  <2>7. \A m \in Offset : status'[c][m] =
           IF m \in S THEN "none"
           ELSE IF m \in Pending(c) \cap targets[c] THEN "acked" ELSE status[c][m]
    BY <2>5 DEF Acknowledged, S
  <2>8. WindowFrom(c, offset + 1)'
    <3>1. next_read[c] \in Int /\ last \in Int /\ last + 1 \in 0..next_read[c]
      BY <1>1, <2>2, <2>3 DEF Typed, Offset
    <3>2. ASSUME NEW m \in Offset
          PROVE  status'[c][m] # "none" <=> last + 1 =< m /\ m < next_read[c]
      <4>1. m \in Int
        BY DEF Offset
      <4>2. status[c][m] # "none" <=> offset + 1 =< m /\ m < next_read[c]
        BY <2>1 DEF HolderOK, WindowFrom
      <4>3. status'[c][m] # "none" <=> m \notin S /\ status[c][m] # "none"
        BY <2>7 DEF Pending
      <4> QED BY <1>1, <2>3, <2>6, <3>1, <4>1, <4>2, <4>3
    <3> QED BY <1>3, <2>5, <3>1, <3>2 DEF WindowFrom
  <2>9. \A m \in Offset : status'[c][m] = "acked" => m \in done'
    BY <1>2, <1>3, <2>1, <2>7 DEF HolderOK, CommitPc
  <2>10. \E lo \in 0..next_read[c]' : WindowFrom(c, lo)'
    BY <2>8 DEF WindowFrom
  <2> QED BY <1>2, <1>3, <2>5, <2>8, <2>9, <2>10 DEF TrackerOK, HolderOK, CommitPc
<1>5. CASE ~(o = "answer" /\ OffsetGuard(prior[c], seen[c]))
  <2>1. status'[c] = status[c] /\ (usable'[c] => usable[c])
    BY <1>1, <1>5 DEF CommitCas, Typed, Disable, Outcome
  <2>2. usable'[c] => offset' = offset
    BY <1>1, <1>5 DEF CommitCas, Typed, Disable, Outcome
  <2>3. \E lo \in 0..next_read[c]' : WindowFrom(c, lo)'
    BY <1>1, <1>3, <2>1 DEF TrackerOK, WindowFrom
  <2>4. Good(c)' => HolderOK(c)'
    BY <1>1, <1>2, <1>3, <2>1, <2>2 DEF TrackerOK, Good, Holds, HolderOK, WindowFrom, CommitPc
  <2> QED BY <1>1, <1>3, <2>1, <2>3, <2>4 DEF TrackerOK
<1> QED BY <1>4, <1>5

\* A step of c that is none of these leaves its tracker alone.
LEMMA TrackerAlone ==
  ASSUME IInv, NEW c \in Consumer, Running(c) \/ Environment(c),
         ~\E readable \in BOOLEAN : FirstRead(c, readable),
         ~\E t \in Clock, max \in 1..MaxBatch : Poll(c, t, max),
         ~\E t \in Clock, ids \in SUBSET Offset : Ack(c, t, ids) \/ Nack(c, t, ids),
         ~\E o \in Outcome : CommitCas(c, o)
  PROVE  TrackerKept(c)
<1>1. Typed /\ CallStep(c)
  BY InvTypes, ConsumerStep
<1>2. CASE Running(c)
  <2>1. status' = status /\ next_read' = next_read /\ subscribed' = subscribed
    BY <1>2
    DEF Running, AcquireRead, AcquireCas, CommitRead, RenewRead, RenewCas,
        CommitReadOffset, ReleaseRead, ReleaseCas, RenewerWakes, RenewerLeaves,
        RenewerLocks, tracker
  <2>2. targets' = targets
    BY <1>2
    DEF Running, AcquireRead, AcquireCas, CommitRead, RenewRead, RenewCas,
        CommitReadOffset, ReleaseRead, ReleaseCas, RenewerWakes, RenewerLeaves,
        RenewerLocks, locals
  <2>3. pc'[c] \in CommitPc => pc[c] \in CommitPc
    BY <1>1, <1>2
    DEF Running, AcquireRead, AcquireCas, CommitRead, RenewRead, RenewCas,
        CommitReadOffset, ReleaseRead, ReleaseCas, RenewerWakes, RenewerLeaves,
        RenewerLocks, RenewalFailed, Goto, Typed, CommitPc, Outcome
  <2> QED BY <1>1, <2>1, <2>2, <2>3 DEF TrackerKept, CallStep
<1>3. CASE Environment(c)
  <2>1. /\ status' = status /\ next_read' = next_read /\ subscribed' = subscribed
        /\ targets' = targets
    BY <1>3
    DEF Environment, Subscribe, CallRefused, Shutdown, Cancel, Die, tracker, locals
  <2>2. pc'[c] \in CommitPc => pc[c] \in CommitPc
    BY <1>1, <1>3
    DEF Environment, Subscribe, CallRefused, Shutdown, Cancel, Die, Goto, Typed, CommitPc
  <2> QED BY <1>1, <2>1, <2>2 DEF TrackerKept, CallStep
<1> QED BY <1>2, <1>3

\* Every step keeps every tracker's window where it must be.
LEMMA TrackerStep ==
  ASSUME IInv, [Next]_vars, NEW d \in Consumer
  PROVE  TrackerOK(d)'
<1>1. Control /\ Typed /\ CallOK(d)
  BY InvTypes
<1>2. CASE \E readable \in BOOLEAN : FirstRead(d, readable)
  BY <1>2, FirstReadTracker
<1>3. CASE \E t \in Clock, max \in 1..MaxBatch : Poll(d, t, max)
  BY <1>3, PollTracker
<1>4. CASE \E t \in Clock, ids \in SUBSET Offset : Ack(d, t, ids) \/ Nack(d, t, ids)
  BY <1>4, AckTracker, NackTracker
<1>5. CASE \E o \in Outcome : CommitCas(d, o)
  BY <1>5, CommitTracker
<1>6. CASE /\ ~\E readable \in BOOLEAN : FirstRead(d, readable)
           /\ ~\E t \in Clock, max \in 1..MaxBatch : Poll(d, t, max)
           /\ ~\E t \in Clock, ids \in SUBSET Offset : Ack(d, t, ids) \/ Nack(d, t, ids)
           /\ ~\E o \in Outcome : CommitCas(d, o)
  <2>1. TrackerKept(d)
    <3>1. CASE QuietStep
      BY <3>1 DEF QuietStep, SameOf, TrackerKept
    <3>2. ASSUME NEW c \in Consumer, Running(c) \/ Environment(c), CallStep(c)
          PROVE  TrackerKept(d)
      <4>1. CASE c = d
        BY <1>6, <3>2, <4>1, TrackerAlone
      <4>2. CASE c # d
        BY <3>2, <4>2 DEF CallStep, SameOf, TrackerKept
      <4> QED BY <4>1, <4>2
    <3> QED BY <1>1, <3>1, <3>2, StepCases
  <2> QED BY <1>6, <2>1, TrackerKeeps
<1> QED BY <1>2, <1>3, <1>4, <1>5, <1>6

\* The words on late publications: those already left behind, and a new one.
LEMMA LateStep ==
  ASSUME IInv, [Next]_vars, NEW x \in orphans'
  PROVE  LateOK(x)'
<1>1. Control /\ Typed
  BY InvTypes
<1>2. CASE x \in orphans
  <2> SUFFICES ASSUME x.file = "offset", Holds(x.guard.holder)'
               PROVE  \A m \in 0..x.new : m \in done'
    BY DEF LateOK
  <2>1. OrphanOffsetOK(x) /\ LateOK(x)
    BY <1>2 DEF IInv, Control, OrphanOK, OrphanLeaseOK
  <2> DEFINE h == x.guard.holder
  <2>2. h \in Consumer /\ ~usable[h] /\ subscribed[h]
    BY <2>1, LeaseFields DEF OrphanOffsetOK
  <2>3. Holds(h)
    BY <1>1, <2>2, LeaseStep, HeldBefore
  <2>4. done \subseteq done'
    BY <1>1, <2>2, <2>3, WordsKept DEF Nack, Call
  <2> QED BY <2>1, <2>3, <2>4 DEF LateOK
<1>3. CASE x \notin orphans
  <2>1. PICK c \in Consumer, queued \in BOOLEAN : Cancel(c, queued) \/ Die(c, queued)
    <3>1. ASSUME NEW c \in Consumer, Running(c) PROVE orphans' = orphans
      BY <3>1
      DEF Running, AcquireRead, AcquireCas, CommitRead, RenewRead, RenewCas,
          CommitCas, FirstRead, CommitReadOffset, ReleaseRead, ReleaseCas,
          RenewerWakes, RenewerLeaves, RenewerLocks
    <3>2. ASSUME NEW c \in Consumer, Environment(c),
                 ~\E queued \in BOOLEAN : Cancel(c, queued) \/ Die(c, queued)
          PROVE  orphans' = orphans
      BY <3>2 DEF Environment, Subscribe, CallRefused, Poll, Ack, Nack, Shutdown
    <3>3. ASSUME NEW y \in orphans, OrphanRuns(y) PROVE orphans' \subseteq orphans
      BY <3>3 DEF OrphanRuns
    <3>4. Tick \/ UNCHANGED vars => orphans' = orphans
      BY DEF Tick, vars
    <3> QED BY <1>3, <3>1, <3>2, <3>3, <3>4 DEF Next
  <2>2. /\ lease' = lease /\ done' = done
        /\ x \in Exchange(c)
    BY <1>3, <2>1 DEF Cancel, Die, files
  <2> SUFFICES ASSUME x.file = "offset", Holds(x.guard.holder)
               PROVE  \A m \in 0..x.new : m \in done
    BY <2>2 DEF LateOK, Holds
  <2>3. pc[c] = "commit_cas"
    <3>1. CASE pc[c] \in {"acquire_cas", "renew_cas"}
      <4>1. x = [file |-> "lease", old |-> seen[c], new |-> NewLease(c)]
        BY <2>2, <3>1 DEF Exchange
      <4> QED BY <4>1
    <3>2. CASE pc[c] = "release_cas"
      <4>1. x = [file |-> "lease", old |-> seen[c], new |-> [seen[c] EXCEPT !.expires = 0]]
        BY <2>2, <3>2 DEF Exchange
      <4> QED BY <4>1
    <3> QED BY <2>2, <3>1, <3>2 DEF Exchange
  <2>4. x = [file |-> "offset", old |-> prior[c], new |-> NewOffset(c), guard |-> seen[c]]
    BY <2>2, <2>3 DEF Exchange
  <2>5. x.new = NewOffset(c) /\ x.guard.holder = c
    BY <2>3, <2>4, InvTypes DEF CallOK
  <2> QED BY <2>3, <2>5, PublishAcked
<1> QED BY <1>2, <1>3

\* A word on a committed offset is never taken back.
LEMMA CommittedWordsKept ==
  ASSUME IInv, [Next]_vars, NEW m \in done, m =< offset
  PROVE  m \in done'
<1>1. Control /\ Typed /\ offset \in Int
  BY InvTypes
<1>2. ASSUME NEW new, SetLease(new) PROVE m \in done'
  BY <1>2 DEF SetLease, DoneUnder
<1>3. ASSUME NEW c \in Consumer, Running(c) PROVE m \in done'
  BY <1>2, <1>3
  DEF Running, AcquireRead, AcquireCas, CommitRead, RenewRead, RenewCas, CommitCas,
      FirstRead, CommitReadOffset, ReleaseRead, ReleaseCas, RenewerWakes, RenewerLeaves,
      RenewerLocks
<1>4. ASSUME NEW c \in Consumer, NEW t \in Clock, NEW ids \in SUBSET Offset, Nack(c, t, ids)
      PROVE  m \in done'
  <2>1. HolderOK(c)
    BY <1>4, InvTypes DEF Nack, Call, Owned, Good, Holds, TrackerOK
  <2>2. m \in Offset /\ m \in Int
    BY <1>1 DEF Typed, Offset
  <2>3. m \notin Pending(c)
    BY <1>1, <2>1, <2>2 DEF HolderOK, WindowFrom, Pending
  <2> QED BY <1>4, <2>3 DEF Nack
<1>5. ASSUME NEW c \in Consumer, Environment(c) PROVE m \in done'
  BY <1>4, <1>5 DEF Environment, Subscribe, CallRefused, Poll, Ack, Shutdown, Cancel, Die
<1>6. ASSUME NEW x \in orphans, OrphanRuns(x) PROVE m \in done'
  BY <1>2, <1>6 DEF OrphanRuns
<1> QED BY <1>3, <1>5, <1>6 DEF Next, Tick, vars

\* Every step commits acknowledged messages only.
LEMMA CommittedStep ==
  ASSUME IInv, [Next]_vars
  PROVE  CommittedWasAcked'
<1>1. Control /\ Typed /\ offset \in Int
  BY InvTypes
<1>2. CASE offset' = offset
  <2>1. \A m \in 0..offset : m \in done /\ m =< offset
    BY <1>1 DEF IInv, CommittedWasAcked
  <2> QED BY <1>2, <2>1, CommittedWordsKept DEF CommittedWasAcked
<1>3. CASE offset' # offset
  <2>1. \/ \E c \in Consumer, o \in Outcome : CommitCas(c, o)
        \/ \E x \in orphans : OrphanRuns(x)
    <3>1. ASSUME NEW c \in Consumer, Running(c), ~\E o \in Outcome : CommitCas(c, o)
          PROVE  offset' = offset
      BY <3>1
      DEF Running, AcquireRead, AcquireCas, CommitRead, RenewRead, RenewCas,
          FirstRead, CommitReadOffset, ReleaseRead, ReleaseCas, RenewerWakes,
          RenewerLeaves, RenewerLocks, files
    <3>2. ASSUME NEW c \in Consumer, Environment(c) PROVE offset' = offset
      BY <3>2
      DEF Environment, Subscribe, CallRefused, Poll, Ack, Nack, Shutdown, Cancel, Die,
          files
    <3>3. Tick \/ UNCHANGED vars => offset' = offset
      BY DEF Tick, vars, files
    <3> QED BY <1>3, <3>1, <3>2, <3>3 DEF Next
  <2>2. ASSUME NEW c \in Consumer, NEW o \in Outcome, CommitCas(c, o)
        PROVE  CommittedWasAcked'
    <3>1. OffsetGuard(prior[c], seen[c]) /\ offset' = NewOffset(c)
      BY <1>1, <1>3, <2>2, Published
    <3>2. pc[c] = "commit_cas" /\ CallOK(c) /\ done' = done
      BY <2>2, InvTypes DEF CommitCas
    <3>3. Holds(c)
      BY <3>1, <3>2, NoLeaseAssumption DEF CallOK, OffsetGuard, Holds
    <3> QED BY <3>1, <3>2, <3>3, PublishAcked DEF CommittedWasAcked
  <2>3. ASSUME NEW x \in orphans, OrphanRuns(x)
        PROVE  CommittedWasAcked'
    <3>1. OrphanOffsetOK(x) /\ LateOK(x)
      BY <1>3, <2>3 DEF IInv, Control, OrphanOK, OrphanLeaseOK, OrphanRuns
    <3>2. offset' = x.new /\ lease = x.guard /\ done' = done
      BY <1>3, <2>3, <3>1 DEF OrphanRuns, OrphanOffsetOK, OffsetGuard
    <3>3. Holds(x.guard.holder)
      BY <3>1, <3>2, NoLeaseAssumption DEF OrphanOffsetOK, Holds
    <3> QED BY <3>1, <3>2, <3>3 DEF LateOK, OrphanOffsetOK, CommittedWasAcked
  <2> QED BY <2>1, <2>2, <2>3
<1> QED BY <1>2, <1>3

\* Nothing is delivered.
LEMMA InitIInv == Init => IInv
<1> SUFFICES ASSUME Init PROVE IInv
  OBVIOUS
<1>1. Control
  BY InitControl
<1>2. ASSUME NEW c \in Consumer PROVE TrackerOK(c)
  <2>1. next_read[c] = 0 /\ ~Good(c) /\ \A m \in Offset : status[c][m] = "none"
    BY DEF Init, Good, Holds
  <2>2. WindowFrom(c, 0)
    BY <2>1 DEF WindowFrom, Offset
  <2> QED BY <2>1, <2>2 DEF TrackerOK
<1> QED BY <1>1, <1>2 DEF IInv, Init, CommittedWasAcked

\* Every step keeps the invariant.
LEMMA NextIInv == IInv /\ [Next]_vars => IInv'
  BY NextControl, TrackerStep, LateStep, CommittedStep DEF IInv

\* IInv is an invariant.
LEMMA ProgressInvariant == Spec => []IInv
  BY InitIInv, NextIInv, PTL DEF Spec

\* The first offset the group owes a consumer is where its window starts.
LEMMA OwesIs ==
  ASSUME Typed, NEW c \in Consumer, NEW lo, WindowFrom(c, lo)
  PROVE  Owes(c) = lo
<1> DEFINE S == Pending(c) \cup {next_read[c]}
<1>1. next_read[c] \in 0..Messages /\ Messages \in Nat /\ lo \in 0..next_read[c]
  BY Bounds DEF Typed, WindowFrom
<1>2. S \in SUBSET Nat
  BY <1>1 DEF Pending, Offset
<1>3. lo \in S
  <2>1. CASE lo = next_read[c]
    BY <2>1
  <2>2. CASE lo # next_read[c]
    <3>1. lo \in Offset /\ lo < next_read[c]
      BY <1>1, <2>2 DEF Offset
    <3> QED BY <1>1, <3>1 DEF WindowFrom, Pending, Offset
  <2> QED BY <2>1, <2>2
<1>4. \A y \in S : lo =< y
  BY <1>1 DEF WindowFrom, Pending
<1> HIDE DEF S
<1>5. Min(S) = lo
  BY <1>2, <1>3, <1>4, MinIs
<1> QED BY <1>5 DEF Owes, S

\* While a consumer in good standing holds the lease, the committed offset is
\* exactly its own progress: no displaced consumer, cancelled call or late
\* exchange moved it (offset_store::commit compares the lease bytes again).
THEOREM ProgressOfHolder == Spec => []ProgressIsHolders
<1>1. IInv => ProgressIsHolders
  <2> SUFFICES ASSUME IInv, NEW c \in Consumer,
                      usable[c] /\ subscribed[c] /\ lease # NoLease /\ lease.holder = c
               PROVE  offset = Owes(c) - 1
    BY DEF ProgressIsHolders
  <2>1. Typed /\ offset \in Int /\ WindowFrom(c, offset + 1)
    BY InvTypes DEF TrackerOK, Good, Holds, HolderOK
  <2>2. Owes(c) = offset + 1
    BY <2>1, OwesIs
  <2> QED BY <2>1, <2>2
<1> QED BY <1>1, ProgressInvariant, PTL

\* Every committed offset was acknowledged by the application and not taken
\* back: the prefix ack_locked commits has no gap, and what a cancelled ack
\* publishes late was acknowledged under the same lease.
THEOREM OnlyAckedCommitted == Spec => []CommittedWasAcked
  BY ProgressInvariant, PTL DEF IInv
=============================================================================
