------------------------ MODULE PartitionLeaseProofs ------------------------
(***************************************************************************)
(* Proofs about PartitionLease, for any number of pods and requests, any   *)
(* lease time and any bounds: the types, the fence the generations make,   *)
(* and that epochs belong to the pod whose lease committed them.           *)
(***************************************************************************)
EXTENDS PartitionLease, SequenceTheorems, TLAPS

(***************************************************************************)
(* Types                                                                   *)
(***************************************************************************)

\* The record set of a call, and what TypeOK says of calls
CallType(n) ==
  [stage : Stage, goal : Goal, start : 0..MaxTime, parent : 0..n,
   lease : Lease \cup {NoLease}, retried : BOOLEAN]

CallOK(c) ==
  /\ c.stage \in {"commit", "won", "refused"} => c.lease # NoLease
  /\ c.stage = "lost" => log # <<>>

\* Without a lease the calls of TypeOK are these.
LEMMA TypesOfCalls ==
  ASSUME TypeOK
  PROVE  /\ call \in [Task -> CallType(Len(log))]
         /\ \A k \in Task : CallOK(call[k])
  BY DEF TypeOK, CallType, CallOK

\* NoLease is no lease: nobody is called NoPod.
LEMMA NoLeaseIsNone == NoLease \notin Lease
  BY NoPodAssumption DEF NoLease, Lease

\* read_key: the newest version, or none
LEMMA LatestType ==
  ASSUME log \in Seq(Lease)
  PROVE  /\ Latest \in Lease \cup {NoLease}
         /\ log # <<>> => Latest \in Lease
         /\ Latest # NoLease => log # <<>> /\ Latest \in Lease
  BY NoLeaseIsNone DEF Latest

\* A task's pod is a pod.
LEMMA PodOfTask ==
  ASSUME NEW k \in Task
  PROVE  PodOf(k) \in Pod
  BY DEF Task, PodOf

\* A call that moves on keeps the types of all calls, whether or not a version
\* is added to the log.
LEMMA MoveTyped ==
  ASSUME TypeOK, NEW k \in Task, NEW c \in CallType(Len(log)), CallOK(c),
         Moved(k, c),
         log' \in Seq(Lease), Len(log) =< Len(log'), log # <<>> => log' # <<>>
  PROVE  /\ call' \in [Task -> CallType(Len(log'))]
         /\ \A j \in Task : /\ call'[j].stage \in {"commit", "won", "refused"} =>
                                 call'[j].lease # NoLease
                            /\ call'[j].stage = "lost" => log' # <<>>
<1>1. /\ call \in [Task -> CallType(Len(log))]
      /\ \A j \in Task : CallOK(call[j])
  BY TypesOfCalls
<1>2. Len(log) \in Nat /\ Len(log') \in Nat
  BY LenProperties DEF TypeOK
<1>3. \A d : d \in CallType(Len(log)) => d \in CallType(Len(log'))
  BY <1>2 DEF CallType
<1>4. /\ call'[k] = c
      /\ \A j \in Task : j # k => call'[j] = call[j]
      /\ DOMAIN call' = Task /\ call' = [j \in Task |-> call'[j]]
  BY <1>1 DEF Moved
<1>5. \A j \in Task : call'[j] \in CallType(Len(log))
  BY <1>1, <1>4
<1>6. \A j \in Task : CallOK(call'[j])
  BY <1>1, <1>4
<1> QED BY <1>3, <1>4, <1>5, <1>6 DEF CallOK

\* The values a call may take are calls.
LEMMA CallValues ==
  ASSUME TypeOK, NEW k \in Task
  PROVE  /\ IdleCall \in CallType(Len(log)) /\ CallOK(IdleCall)
         /\ Granted \in CallType(Len(log)) /\ CallOK(Granted)
         /\ \A g \in Goal : /\ Started(g) \in CallType(Len(log))
                            /\ CallOK(Started(g))
                            /\ Again(call[k], g) \in CallType(Len(log))
                            /\ CallOK(Again(call[k], g))
         /\ \A l \in Lease, st \in {"won", "refused"} :
              /\ Ended(call[k], st, l) \in CallType(Len(log))
              /\ CallOK(Ended(call[k], st, l))
<1>1. call[k] \in CallType(Len(log)) /\ Len(log) \in Nat
  BY TypesOfCalls, LenProperties DEF TypeOK
<1>2. now \in 0..MaxTime /\ 0 \in 0..MaxTime
  BY LeaseBounds DEF TypeOK
<1>3. IdleCall \in CallType(Len(log)) /\ CallOK(IdleCall)
  BY <1>1, <1>2 DEF IdleCall, CallType, CallOK, Stage, Goal
<1>4. Granted \in CallType(Len(log)) /\ CallOK(Granted)
  BY <1>3 DEF Granted, IdleCall, CallType, CallOK, Stage, Goal
<1>5. ASSUME NEW g \in Goal
      PROVE  Started(g) \in CallType(Len(log)) /\ CallOK(Started(g))
  BY <1>1, <1>2 DEF Started, CallType, CallOK, Stage
<1>6. ASSUME NEW g \in Goal
      PROVE  Again(call[k], g) \in CallType(Len(log)) /\ CallOK(Again(call[k], g))
  BY <1>1 DEF Again, CallType, CallOK, Stage
<1>7. ASSUME NEW l \in Lease, NEW st \in {"won", "refused"}
      PROVE  /\ Ended(call[k], st, l) \in CallType(Len(log))
             /\ CallOK(Ended(call[k], st, l))
  <2>1. l # NoLease
    BY NoLeaseIsNone
  <2>2. Ended(call[k], st, l) \in CallType(Len(log))
    BY <1>1 DEF Ended, CallType, Stage
  <2> QED BY <2>1, <2>2 DEF CallOK, Ended
<1> QED BY <1>3, <1>4, <1>5, <1>6, <1>7

\* The types of the variables besides the calls
RestTyped ==
  /\ now \in 0..MaxTime
  /\ log \in Seq(Lease) /\ Len(log) =< MaxVersion
  /\ registry \in [Pod -> Pod \cup {NoPod}]
  /\ incarnation \in [Pod -> [gen : Nat, exp : Nat]]
  /\ token_state \in [Pod -> [epoch : Nat, next : Nat, exp : Nat]]
  /\ process \in [Pod -> Nat]
  /\ tokens \subseteq [pod : Pod, process : Nat, epoch : Nat, seq : Nat]

\* A step that moves one call and keeps the other types keeps TypeOK.
LEMMA MoveKeepsTypes ==
  ASSUME TypeOK, NEW k \in Task, NEW c \in CallType(Len(log)), CallOK(c),
         Moved(k, c), RestTyped',
         Len(log) =< Len(log'), log # <<>> => log' # <<>>
  PROVE  TypeOK'
<1>1. log' \in Seq(Lease)
  BY DEF RestTyped
<1>2. /\ call' \in [Task -> CallType(Len(log'))]
      /\ \A j \in Task : /\ call'[j].stage \in {"commit", "won", "refused"} =>
                              call'[j].lease # NoLease
                         /\ call'[j].stage = "lost" => log' # <<>>
  BY <1>1, MoveTyped
<1> QED BY <1>2 DEF TypeOK, RestTyped, CallType

\* A put adds a version behind the others.
LEMMA AppendTyped ==
  ASSUME TypeOK, NEW l \in Lease, Len(log) < MaxVersion, log' = Append(log, l)
  PROVE  /\ log' \in Seq(Lease) /\ Len(log') = Len(log) + 1 /\ log' # <<>>
         /\ Len(log') =< MaxVersion
         /\ \A i \in DOMAIN log : i \in DOMAIN log' /\ log'[i] = log[i]
         /\ DOMAIN log' = DOMAIN log \cup {Len(log) + 1}
         /\ log'[Len(log) + 1] = l
<1>1. log \in Seq(Lease) /\ Len(log) \in Nat /\ MaxVersion \in Nat
  BY LenProperties, LeaseBounds DEF TypeOK
<1> QED BY <1>1

\* The generation a claim writes is a number.
LEMMA NextGenerationType ==
  ASSUME NEW l \in Lease \cup {NoLease}, NEW p, NEW g, NEW t
  PROVE  /\ NextGeneration(l, p, g, t) \in Nat
         /\ l.gen =< NextGeneration(l, p, g, t)
         /\ l.holder # p => l.gen < NextGeneration(l, p, g, t)
<1>1. l.gen \in Nat
  BY DEF Lease, NoLease
<1> QED BY <1>1 DEF NextGeneration

\* register_incarnation keeps the provider's types.
LEMMA RegisteredType ==
  ASSUME TypeOK, NEW p \in Pod, NEW g \in Nat, NEW e \in Nat
  PROVE  Registered(p, g, e) \in [Pod -> [epoch : Nat, next : Nat, exp : Nat]]
<1> DEFINE T == [epoch : Nat, next : Nat, exp : Nat]
           old == token_state[p]
           new == IF old.epoch = g THEN [old EXCEPT !.exp = e]
                  ELSE [epoch |-> g, next |-> 0, exp |-> e]
<1>1. token_state \in [Pod -> T] /\ old \in T
  BY DEF TypeOK
<1>2. new \in T
  BY <1>1
<1>3. Registered(p, g, e) = [token_state EXCEPT ![p] = new]
  BY <1>1 DEF Registered
<1> HIDE DEF T, new
<1> QED BY <1>1, <1>2, <1>3 DEF T

\* The steps of a claim keep the types.
LEMMA ClaimTyped ==
  ASSUME TypeOK, NEW k \in Task,
         ClaimRead(k) \/ ClaimCommit(k) \/ ClaimResolve(k)
  PROVE  TypeOK'
<1> DEFINE c == call[k]
           p == PodOf(k)
<1>1. c \in CallType(Len(log)) /\ CallOK(c) /\ p \in Pod /\ RestTyped
  BY TypesOfCalls, PodOfTask DEF TypeOK, RestTyped
<1>2. Len(log) \in Nat /\ log \in Seq(Lease)
  BY LenProperties DEF TypeOK
<1>3. Latest \in Lease \cup {NoLease} /\ (Latest # NoLease => Latest \in Lease)
  BY <1>2, LatestType
<1>4. CASE ClaimRead(k)
  <2>1. RestTyped' /\ log' = log
    BY <1>1, <1>4 DEF RestTyped, ClaimRead, memory
  <2>2. CASE HeldByOther(Latest, p, c.start)
    <3>1. Latest \in Lease
      BY <1>3, <2>2 DEF HeldByOther
    <3>2. Moved(k, Ended(c, "refused", Latest))
      BY <1>4, <2>2 DEF ClaimRead
    <3> QED BY <3>1, <3>2, <2>1, <1>2, CallValues, MoveKeepsTypes
  <2>3. CASE ~HeldByOther(Latest, p, c.start)
    <3> DEFINE g == NextGeneration(Latest, p, c.goal, c.start)
               l == [holder |-> p, exp |-> c.start + Ttl, gen |-> g]
               d == At(c, "commit", Len(log), l)
    <3>1. g \in Nat
      BY <1>3, NextGenerationType
    <3>2. c.start + Ttl \in Nat
      BY <1>1, LeaseBounds DEF CallType
    <3>3. l \in Lease /\ l # NoLease
      BY <1>1, <3>1, <3>2, NoPodAssumption DEF Lease, NoLease
    <3>4. Moved(k, d)
      BY <1>4, <2>3 DEF ClaimRead
    <3>5. d \in CallType(Len(log)) /\ CallOK(d)
      BY <1>1, <1>2, <3>3 DEF At, CallType, CallOK, Stage
    <3> QED BY <3>4, <3>5, <2>1, <1>2, MoveKeepsTypes
  <2> QED BY <2>2, <2>3
<1>5. CASE ClaimCommit(k)
  <2>1. c.lease \in Lease
    BY <1>1, <1>5 DEF ClaimCommit, CallType, CallOK
  <2>2. CASE c.parent = Len(log)
    <3>1. /\ Len(log) < MaxVersion /\ log' = Append(log, c.lease)
          /\ Moved(k, Ended(c, "won", c.lease))
      BY <1>5, <2>2 DEF ClaimCommit
    <3>2. log' \in Seq(Lease) /\ Len(log') =< MaxVersion /\ log' # <<>>
          /\ Len(log') = Len(log) + 1
      BY <2>1, <3>1, AppendTyped
    <3>3. RestTyped'
      BY <1>1, <1>5, <3>2 DEF RestTyped, ClaimCommit, memory
    <3> QED BY <2>1, <3>1, <3>2, <3>3, <1>2, CallValues, MoveKeepsTypes
  <2>3. CASE c.parent # Len(log)
    <3> DEFINE d == At(c, "lost", 0, NoLease)
    <3>1. log' = log /\ Moved(k, d)
      BY <1>5, <2>3 DEF ClaimCommit
    <3>2. log # <<>>
      BY <1>1, <1>2, <2>3 DEF CallType
    <3>3. d \in CallType(Len(log)) /\ CallOK(d)
      BY <1>1, <1>2, <3>2 DEF At, CallType, CallOK, Stage
    <3>4. RestTyped'
      BY <1>1, <1>5, <3>1 DEF RestTyped, ClaimCommit, memory
    <3> QED BY <3>1, <3>3, <3>4, <1>2, MoveKeepsTypes
  <2> QED BY <2>2, <2>3
<1>6. CASE ClaimResolve(k)
  <2>1. RestTyped' /\ log' = log
    BY <1>1, <1>6 DEF RestTyped, ClaimResolve, memory
  <2>2. Latest \in Lease
    BY <1>1, <1>2, <1>6, LatestType DEF ClaimResolve, CallOK
  <2> DEFINE d == [c EXCEPT !.stage = "read", !.retried = TRUE]
  <2>3. \/ Moved(k, Ended(c, "won", Latest))
        \/ Moved(k, d)
        \/ Moved(k, Ended(c, "refused", Latest))
    BY <1>6 DEF ClaimResolve
  <2>4. d \in CallType(Len(log)) /\ CallOK(d)
    BY <1>1 DEF CallType, CallOK, Stage
  <2> QED BY <2>1, <2>2, <2>3, <2>4, <1>2, CallValues, MoveKeepsTypes
<1> QED BY <1>4, <1>5, <1>6
\* Where a call may go: to a call that keeps the types
MovesOK(k) == \E c \in CallType(Len(log)) : CallOK(c) /\ Moved(k, c)

\* A step that leaves the log alone and moves one call
LEMMA QuietKeepsTypes ==
  ASSUME TypeOK, NEW k \in Task, MovesOK(k), RestTyped', log' = log
  PROVE  TypeOK'
<1>1. PICK c \in CallType(Len(log)) : CallOK(c) /\ Moved(k, c)
  BY DEF MovesOK
<1>2. Len(log) \in Nat
  BY LenProperties DEF TypeOK
<1> QED BY <1>1, <1>2, MoveKeepsTypes

\* What follows a claim is a call, whichever way it goes.
LEMMA FollowUps ==
  ASSUME TypeOK, NEW k \in Task
  PROVE  /\ Moved(k, IdleCall) => MovesOK(k)
         /\ Moved(k, Granted) => MovesOK(k)
         /\ NextRenewal(k) => MovesOK(k)
         /\ \A g \in Goal : Moved(k, Started(g)) => MovesOK(k)
         /\ \A g \in Goal : Moved(k, Again(call[k], g)) => MovesOK(k)
<1>1. "renew_incarnation" \in Goal
  BY DEF Goal
<1>2. NextRenewal(k) => \/ Moved(k, IdleCall)
                        \/ Moved(k, Again(call[k], "renew_incarnation"))
  BY DEF NextRenewal
<1> QED BY <1>1, <1>2, CallValues DEF MovesOK

\* begin_writer_incarnation keeps the types, cached or not.
LEMMA BeginTyped ==
  ASSUME TypeOK, NEW k \in Task
  PROVE  /\ BeginCached(k) =>
              /\ MovesOK(k)
              /\ token_state' \in [Pod -> [epoch : Nat, next : Nat, exp : Nat]]
         /\ BeginClaim(k, call[k]) => MovesOK(k) /\ token_state' = token_state
<1> DEFINE p == PodOf(k)
<1>1. p \in Pod /\ incarnation[p].gen \in Nat /\ incarnation[p].exp \in Nat
  BY PodOfTask DEF TypeOK
<1>2. "begin" \in Goal
  BY DEF Goal
<1>3. ASSUME BeginCached(k)
      PROVE  /\ MovesOK(k)
             /\ token_state' \in [Pod -> [epoch : Nat, next : Nat, exp : Nat]]
  <2>1. token_state' = Registered(p, incarnation[p].gen, incarnation[p].exp)
        /\ Moved(k, Granted)
    BY <1>3 DEF BeginCached
  <2> HIDE DEF p
  <2> QED BY <1>1, <2>1, RegisteredType, FollowUps
<1>4. ASSUME BeginClaim(k, call[k])
      PROVE  MovesOK(k) /\ token_state' = token_state
  BY <1>2, <1>4, FollowUps DEF BeginClaim
<1> QED BY <1>3, <1>4

\* The outcome of a claim keeps the types.
LEMMA OutcomeTyped ==
  ASSUME TypeOK, NEW k \in Task,
         \/ WonBinding(k) \/ WonIncarnation(k)
         \/ RefusedBinding(k) \/ RefusedIncarnation(k)
  PROVE  TypeOK'
<1> DEFINE c == call[k]
           p == PodOf(k)
<1>1. c \in CallType(Len(log)) /\ CallOK(c) /\ p \in Pod /\ RestTyped
  BY TypesOfCalls, PodOfTask DEF TypeOK, RestTyped
<1>2. CASE WonBinding(k)
  <2>1. registry' \in [Pod -> Pod \cup {NoPod}]
    BY <1>1, <1>2 DEF WonBinding, RestTyped
  <2>2. /\ MovesOK(k)
        /\ token_state' \in [Pod -> [epoch : Nat, next : Nat, exp : Nat]]
    <3>1. \/ BeginCached(k)
          \/ BeginClaim(k, c)
          \/ Moved(k, IdleCall) /\ token_state' = token_state
          \/ NextRenewal(k) /\ token_state' = token_state
      BY <1>2 DEF WonBinding
    <3> QED BY <1>1, <3>1, BeginTyped, FollowUps DEF RestTyped
  <2>3. RestTyped' /\ log' = log
    BY <1>1, <1>2, <2>1, <2>2 DEF RestTyped, WonBinding
  <2> QED BY <2>2, <2>3, QuietKeepsTypes
<1>3. CASE WonIncarnation(k)
  <2>1. c.lease \in Lease
    BY <1>1, <1>3 DEF WonIncarnation, CallType, CallOK
  <2>2. c.lease.gen \in Nat /\ c.lease.exp \in Nat
    BY <2>1 DEF Lease
  <2>3. token_state' \in [Pod -> [epoch : Nat, next : Nat, exp : Nat]]
    <3>1. token_state' = Registered(p, c.lease.gen, c.lease.exp)
      BY <1>3 DEF WonIncarnation
    <3> HIDE DEF p, c
    <3> QED BY <1>1, <2>2, <3>1, RegisteredType
  <2>4. incarnation' \in [Pod -> [gen : Nat, exp : Nat]]
    BY <1>1, <1>3, <2>2 DEF WonIncarnation, RestTyped
  <2>5. MovesOK(k)
    <3>1. Moved(k, Granted) \/ Moved(k, IdleCall)
      BY <1>3 DEF WonIncarnation
    <3> QED BY <3>1, FollowUps
  <2>6. RestTyped' /\ log' = log
    BY <1>1, <1>3, <2>3, <2>4 DEF RestTyped, WonIncarnation
  <2> QED BY <2>5, <2>6, QuietKeepsTypes
<1>4. CASE RefusedBinding(k)
  <2>1. c.lease.holder \in Pod
    BY <1>1, <1>4 DEF RefusedBinding, CallType, CallOK, Lease
  <2>2. RestTyped' /\ log' = log
    BY <1>1, <1>4, <2>1 DEF RestTyped, RefusedBinding
  <2>3. NextRenewal(k) \/ Moved(k, IdleCall)
    BY <1>4 DEF RefusedBinding
  <2> QED BY <2>2, <2>3, FollowUps, QuietKeepsTypes
<1>5. CASE RefusedIncarnation(k)
  <2>1. incarnation' \in [Pod -> [gen : Nat, exp : Nat]]
    <3>1. NoIncarnation \in [gen : Nat, exp : Nat]
      BY DEF NoIncarnation
    <3>2. \/ incarnation' = [incarnation EXCEPT ![p] = NoIncarnation]
          \/ incarnation' = incarnation
      BY <1>5 DEF RefusedIncarnation
    <3> QED BY <1>1, <3>1, <3>2 DEF RestTyped
  <2>2. token_state' \in [Pod -> [epoch : Nat, next : Nat, exp : Nat]]
    <3> DEFINE T == [epoch : Nat, next : Nat, exp : Nat]
               s == [token_state[p] EXCEPT !.exp = 0]
    <3>1. token_state \in [Pod -> T] /\ token_state[p] \in T /\ s \in T
      BY <1>1 DEF RestTyped
    <3>2. \/ token_state' = [token_state EXCEPT ![p] = s]
          \/ token_state' = token_state
      BY <1>5 DEF RefusedIncarnation
    <3> HIDE DEF T, s
    <3> QED BY <1>1, <3>1, <3>2 DEF T
  <2>3. RestTyped' /\ log' = log
    BY <1>1, <1>5, <2>1, <2>2 DEF RestTyped, RefusedIncarnation
  <2>4. Moved(k, IdleCall)
    BY <1>5 DEF RefusedIncarnation
  <2> QED BY <2>3, <2>4, FollowUps, QuietKeepsTypes
<1> QED BY <1>2, <1>3, <1>4, <1>5

\* An error of the object store keeps the types, whether or not the put landed.
LEMMA FailureTyped ==
  ASSUME TypeOK, NEW k \in Task, NEW landed \in BOOLEAN, ClaimFails(k, landed)
  PROVE  TypeOK'
<1> DEFINE c == call[k]
<1>1. c \in CallType(Len(log)) /\ CallOK(c) /\ RestTyped /\ Len(log) \in Nat
  BY TypesOfCalls, LenProperties DEF TypeOK, RestTyped
<1>2. PICK d \in CallType(Len(log)) : CallOK(d) /\ Moved(k, d)
  <2>1. NextRenewal(k) \/ Moved(k, IdleCall)
    BY DEF ClaimFails
  <2> QED BY <2>1, FollowUps DEF MovesOK
<1>3. CASE landed
  <2>1. /\ c.stage = "commit" /\ Len(log) < MaxVersion
        /\ log' = Append(log, c.lease)
    BY <1>3 DEF ClaimFails
  <2>2. c.lease \in Lease
    BY <1>1, <2>1 DEF CallType, CallOK
  <2>3. /\ log' \in Seq(Lease) /\ Len(log') =< MaxVersion /\ log' # <<>>
        /\ Len(log') = Len(log) + 1
    BY <2>1, <2>2, AppendTyped
  <2>4. RestTyped'
    BY <1>1, <2>3 DEF RestTyped, ClaimFails, memory
  <2> QED BY <1>1, <1>2, <2>3, <2>4, MoveKeepsTypes
<1>4. CASE ~landed
  <2>1. log' = log
    BY <1>4 DEF ClaimFails
  <2>2. RestTyped'
    BY <1>1, <2>1 DEF RestTyped, ClaimFails, memory
  <2> QED BY <1>1, <1>2, <2>1, <2>2, MoveKeepsTypes
<1> QED BY <1>3, <1>4

\* A batch's token keeps the types.
LEMMA AllocateTyped ==
  ASSUME TypeOK, NEW k \in Task, Allocate(k)
  PROVE  TypeOK'
<1> DEFINE p == PodOf(k)
           s == token_state[p]
           x == [pod |-> p, process |-> process[p], epoch |-> s.epoch,
                 seq |-> s.next]
<1>1. p \in Pod /\ RestTyped /\ s \in [epoch : Nat, next : Nat, exp : Nat]
      /\ process[p] \in Nat
  BY PodOfTask DEF TypeOK, RestTyped
<1>2. x \in [pod : Pod, process : Nat, epoch : Nat, seq : Nat]
  BY <1>1
<1>3. /\ tokens' \subseteq tokens \cup {x}
      /\ \/ token_state' = token_state
         \/ token_state' = [token_state EXCEPT ![p] = [s EXCEPT !.next = s.next + 1]]
  BY DEF Allocate
<1>4. token_state' \in [Pod -> [epoch : Nat, next : Nat, exp : Nat]]
  <2> DEFINE T == [epoch : Nat, next : Nat, exp : Nat]
             u == [s EXCEPT !.next = s.next + 1]
  <2>1. token_state \in [Pod -> T]
    BY <1>1 DEF RestTyped
  <2>. s \in T
    BY <1>1
  <2>3. u \in T
    <3> HIDE DEF s
    <3> QED OBVIOUS
  <2>2. token_state' = [token_state EXCEPT ![p] = u] \/ token_state' = token_state
    BY <1>3
  <2> HIDE DEF T, u
  <2> QED BY <1>1, <2>1, <2>2, <2>3 DEF T
<1>5. tokens' \subseteq [pod : Pod, process : Nat, epoch : Nat, seq : Nat]
  BY <1>1, <1>2, <1>3 DEF RestTyped
<1>6. RestTyped' /\ log' = log
  BY <1>1, <1>4, <1>5 DEF RestTyped, Allocate
<1>7. Moved(k, IdleCall)
  BY DEF Allocate
<1> QED BY <1>6, <1>7, FollowUps, QuietKeepsTypes

\* The beginning of a call keeps the types.
LEMMA CallTyped ==
  ASSUME TypeOK, NEW k \in Task, CallStep(k)
  PROVE  TypeOK'
<1>1. RestTyped
  BY DEF TypeOK, RestTyped
<1>2. {"own", "check", "recover", "renew_binding", "renew_incarnation"} \subseteq Goal
  BY DEF Goal
<1>3. CASE Write(k)
  <2>1. \/ BeginCached(k)
        \/ Moved(k, Started("own")) /\ token_state' = token_state
    BY <1>3 DEF Write
  <2>2. /\ MovesOK(k)
        /\ token_state' \in [Pod -> [epoch : Nat, next : Nat, exp : Nat]]
    BY <1>1, <1>2, <2>1, BeginTyped, FollowUps DEF RestTyped
  <2>3. RestTyped' /\ log' = log
    BY <1>1, <1>3, <2>2 DEF RestTyped, Write
  <2> QED BY <2>2, <2>3, QuietKeepsTypes
<1>4. CASE Check(k) \/ Recover(k) \/ RenewHeld(k)
  <2>1. PICK g \in Goal : Moved(k, Started(g))
    BY <1>2, <1>4 DEF Check, Recover, RenewHeld
  <2>2. RestTyped' /\ log' = log
    BY <1>1, <1>4 DEF RestTyped, Check, Recover, RenewHeld, memory
  <2> QED BY <2>1, <2>2, FollowUps, QuietKeepsTypes
<1> QED BY <1>3, <1>4 DEF CallStep

\* Time and restarts keep the types.
LEMMA WorldTyped ==
  ASSUME TypeOK, Tick \/ \E p \in Pod, kept \in BOOLEAN : Restart(p, kept)
  PROVE  TypeOK'
<1>1. RestTyped
  BY DEF TypeOK, RestTyped
<1>2. /\ call \in [Task -> CallType(Len(log))]
      /\ \A k \in Task : CallOK(call[k])
  BY TypesOfCalls
<1>3. CASE Tick
  <2>1. now' \in 0..MaxTime
    BY <1>1, <1>3, LeaseBounds DEF Tick, RestTyped
  <2> QED BY <1>3, <2>1 DEF TypeOK, Tick, memory
<1>4. ASSUME NEW p \in Pod, NEW kept \in BOOLEAN, Restart(p, kept)
      PROVE  TypeOK'
  <2>1. /\ IdleCall \in CallType(Len(log)) /\ CallOK(IdleCall)
    <3>1. CASE Task = {}
      <4>1. <<p, "renew">> \in Task
        BY DEF Task
      <4> QED BY <3>1, <4>1
    <3>2. CASE Task # {}
      BY <3>2, CallValues
    <3> QED BY <3>1, <3>2
  <2>2. /\ call' = [k \in Task |-> IF PodOf(k) = p THEN IdleCall ELSE call[k]]
        /\ log' = log
    BY <1>4 DEF Restart
  <2>3. /\ call' \in [Task -> CallType(Len(log'))]
        /\ \A k \in Task : CallOK(call'[k])
    BY <1>2, <2>1, <2>2
  <2>4. RestTyped'
    <3>1. /\ NoIncarnation \in [gen : Nat, exp : Nat]
          /\ NoToken \in [epoch : Nat, next : Nat, exp : Nat]
      BY DEF NoIncarnation, NoToken
    <3>2. registry' \in [Pod -> Pod \cup {NoPod}]
      BY <1>1, <1>4 DEF RestTyped, Restart
    <3>3. incarnation' \in [Pod -> [gen : Nat, exp : Nat]]
      BY <1>1, <1>4, <3>1 DEF RestTyped, Restart
    <3>4. token_state' \in [Pod -> [epoch : Nat, next : Nat, exp : Nat]]
      BY <1>1, <1>4, <3>1 DEF RestTyped, Restart
    <3>5. process' \in [Pod -> Nat]
      BY <1>1, <1>4, SMTT(30) DEF RestTyped, Restart
    <3> QED BY <1>1, <1>4, <3>2, <3>3, <3>4, <3>5 DEF RestTyped, Restart
  <2> QED BY <2>2, <2>3, <2>4 DEF TypeOK, RestTyped, CallType, CallOK
<1> QED BY <1>3, <1>4

\* Types hold where nobody has claimed.
LEMMA InitTyped == Init => TypeOK
<1> SUFFICES ASSUME Init PROVE TypeOK
  OBVIOUS
<1>1. log \in Seq(Lease) /\ Len(log) = 0
  BY DEF Init
<1>2. IdleCall \in CallType(Len(log)) /\ CallOK(IdleCall)
  BY <1>1, LeaseBounds DEF IdleCall, CallType, CallOK, Stage, Goal
<1>3. /\ call \in [Task -> CallType(Len(log))]
      /\ \A k \in Task : CallOK(call[k])
  BY <1>2 DEF Init
<1> QED BY <1>1, <1>3, LeaseBounds
        DEF Init, TypeOK, CallType, CallOK, NoIncarnation, NoToken

\* Every step keeps the types.
LEMMA NextTyped == TypeOK /\ [Next]_vars => TypeOK'
<1> SUFFICES ASSUME TypeOK, [Next]_vars PROVE TypeOK'
  OBVIOUS
<1>1. CASE UNCHANGED vars
  BY <1>1 DEF vars, TypeOK
<1>2. ASSUME NEW k \in Task, CallStep(k) \/ ClaimStep(k) PROVE TypeOK'
  BY <1>2, CallTyped, ClaimTyped, OutcomeTyped, FailureTyped, AllocateTyped
     DEF ClaimStep
<1> QED BY <1>1, <1>2, WorldTyped DEF Next

(***************************************************************************)
(* Every variable of a pod's lease keeps its type: what a claim reads,     *)
(* commits or adopts is a lease, and a put's parent is a version there is. *)
(***************************************************************************)
THEOREM TypeCorrect == Spec => []TypeOK
<1> QED BY InitTyped, NextTyped, PTL DEF Spec
(***************************************************************************)
(* The inductive invariant                                                 *)
(***************************************************************************)

\* The version a put goes behind
Base(i) == IF i = 0 THEN NoLease ELSE log[i]

\* The log holds a lease of pod p in generation g.
Committed(p, g) ==
  \E i \in DOMAIN log : log[i].holder = p /\ log[i].gen = g

\* The log holds this lease, and it is pod p's.
CommittedLease(p, lease) ==
  \E i \in DOMAIN log : log[i] = lease /\ log[i].holder = p

\* What is ready to be put is this pod's, and fences the version it was
\* decided on.
Committable(p, c) ==
  c.stage = "commit" =>
    /\ c.lease.holder = p
    /\ Base(c.parent).gen =< c.lease.gen
    /\ Base(c.parent).holder # p => Base(c.parent).gen < c.lease.gen

\* What was won is committed.
WonIsCommitted(p, c) == c.stage = "won" => CommittedLease(p, c.lease)

ClaimsSound ==
  \A k \in Task : Committable(PodOf(k), call[k]) /\ WonIsCommitted(PodOf(k), call[k])

\* A token carries the generation of a lease of the pod that issued it.
TokensCommitted == \A x \in tokens : x.epoch > 0 /\ Committed(x.pod, x.epoch)

\* The properties and what carries them from step to step: a claim is decided
\* in one step, put in another, and acted upon in a third.
LeaseInv ==
  TypeOK /\ TakeoverBumps /\ OwnershipCommitted /\ ClaimsSound /\ TokensCommitted
\* One step of the log: nothing, or the put of a task that read its last version
LogStep ==
  \/ log' = log
  \/ \E k \in Task : /\ call[k].stage = "commit" /\ call[k].parent = Len(log)
                     /\ Len(log) < MaxVersion
                     /\ log' = Append(log, call[k].lease)

\* Every step leaves the log or commits one version behind it.
LEMMA LogSteps ==
  ASSUME [Next]_vars
  PROVE  LogStep
<1>1. CASE UNCHANGED vars
  BY <1>1 DEF vars, LogStep
<1>2. ASSUME NEW k \in Task, CallStep(k) PROVE LogStep
  BY <1>2 DEF CallStep, Write, Check, Recover, RenewHeld, LogStep
<1>3. ASSUME NEW k \in Task, ClaimStep(k) PROVE LogStep
  <2>1. CASE ClaimCommit(k)
    BY <2>1 DEF ClaimCommit, LogStep
  <2>2. CASE \E landed \in BOOLEAN : ClaimFails(k, landed)
    BY <2>2 DEF ClaimFails, LogStep
  <2> QED BY <1>3, <2>1, <2>2 DEF ClaimStep, ClaimRead, ClaimResolve, WonBinding,
             WonIncarnation, RefusedBinding, RefusedIncarnation, Allocate, LogStep
<1>4. CASE Tick \/ \E p \in Pod, kept \in BOOLEAN : Restart(p, kept)
  BY <1>4 DEF Tick, Restart, LogStep
<1> QED BY <1>1, <1>2, <1>3, <1>4 DEF Next

\* No version of the log is ever changed or taken away.
LEMMA LogGrows ==
  ASSUME TypeOK, LogStep
  PROVE  \A i \in DOMAIN log : i \in DOMAIN log' /\ log'[i] = log[i]
<1>1. CASE log' = log
  BY <1>1
<1>2. CASE log' # log
  <2>1. PICK k \in Task : /\ call[k].stage = "commit" /\ Len(log) < MaxVersion
                          /\ log' = Append(log, call[k].lease)
    BY <1>2 DEF LogStep
  <2>2. call[k].lease \in Lease
    BY <2>1, TypesOfCalls DEF CallType, CallOK
  <2> QED BY <2>1, <2>2, AppendTyped
<1> QED BY <1>1, <1>2

\* What is committed stays so.
LEMMA CommittedStays ==
  ASSUME TypeOK, LogStep
  PROVE  /\ \A p, g : Committed(p, g) => Committed(p, g)'
         /\ \A p, l : CommittedLease(p, l) => CommittedLease(p, l)'
  BY LogGrows DEF Committed, CommittedLease

\* A put decided on the last version fences every version before it.
LEMMA PutFences ==
  ASSUME TypeOK, TakeoverBumps, ClaimsSound, LogStep
  PROVE  TakeoverBumps'
<1>1. CASE log' = log
  BY <1>1 DEF TakeoverBumps
<1>2. CASE log' # log
  <2>1. PICK k \in Task : /\ call[k].stage = "commit" /\ call[k].parent = Len(log)
                          /\ Len(log) < MaxVersion
                          /\ log' = Append(log, call[k].lease)
    BY <1>2 DEF LogStep
  <2> DEFINE l == call[k].lease
             n == Len(log)
  <2>2. l \in Lease
    BY <2>1, TypesOfCalls DEF CallType, CallOK
  <2>3. log \in Seq(Lease) /\ n \in Nat /\ DOMAIN log = 1..n
    BY LenProperties DEF TypeOK
  <2>4. /\ \A i \in 1..n : log'[i] = log[i]
        /\ log'[n + 1] = l /\ DOMAIN log' = 1..(n + 1)
    BY <2>1, <2>2, <2>3, AppendTyped
  <2>5. /\ l.holder = PodOf(k) /\ Base(n).gen =< l.gen
        /\ Base(n).holder # PodOf(k) => Base(n).gen < l.gen
    BY <2>1 DEF ClaimsSound, Committable
  <2>6. \A i \in 1..n : /\ log[i].gen \in Nat /\ l.gen \in Nat
                        /\ log[i].gen =< Base(n).gen
                        /\ log[i].holder # Base(n).holder => log[i].gen < Base(n).gen
    <3> TAKE i \in 1..n
    <3>1. log[i] \in Lease /\ log[n] \in Lease /\ n # 0
      BY <2>3
    <3>2. log[i].gen \in Nat /\ l.gen \in Nat /\ Base(n) = log[n]
      BY <2>2, <3>1 DEF Base, Lease
    <3>3. CASE i = n
      BY <3>2, <3>3
    <3>4. CASE i < n
      <4>1. i \in DOMAIN log /\ n \in DOMAIN log
        BY <2>3
      <4>2. /\ log[i].gen =< log[n].gen
            /\ log[i].holder # log[n].holder => log[i].gen < log[n].gen
        BY <3>4, <4>1, Zenon DEF TakeoverBumps
      <4> QED BY <3>2, <4>2
    <3>5. i = n \/ i < n
      <4>1. n \in Nat
        BY <2>3
      <4> HIDE DEF n
      <4> QED BY <4>1
    <3> QED BY <3>3, <3>4, <3>5, Zenon
  <2>7. \A i \in 1..n : /\ log[i].gen =< l.gen
                        /\ log[i].holder # l.holder => log[i].gen < l.gen
    <3> TAKE i \in 1..n
    <3>1. Base(n).gen \in Nat
      <4>1. n \in 1..n /\ log[n] \in Lease
        BY <2>3
      <4> QED BY <4>1 DEF Base, Lease
    <3> HIDE DEF l, n
    <3> QED BY <2>5, <2>6, <3>1
  <2>8. ASSUME NEW i \in 1..(n + 1), NEW j \in 1..(n + 1), i < j
        PROVE  /\ log'[i].gen =< log'[j].gen
               /\ log'[i].holder # log'[j].holder => log'[i].gen < log'[j].gen
    <3>1. i \in 1..n
      BY <2>3, <2>8
    <3>2. CASE j = n + 1
      BY <2>4, <2>7, <3>1, <3>2
    <3>3. CASE j # n + 1
      <4>1. j \in 1..n
        BY <2>3, <3>3
      <4> QED BY <2>3, <2>4, <2>8, <3>1, <4>1 DEF TakeoverBumps
    <3> QED BY <3>2, <3>3
  <2> QED BY <2>4, <2>8 DEF TakeoverBumps
<1> QED BY <1>1, <1>2
\* What a step does to the call of task j: nothing, an end or a new start, the
\* decision of a claim, or its success
CallChange(j) ==
  \/ call'[j] = call[j]
  \/ call'[j].stage \notin {"commit", "won"}
  \/ /\ log' = log
     /\ call'[j].parent = Len(log)
     /\ call'[j].stage = "commit"
     /\ call'[j].lease.holder = PodOf(j)
     /\ call'[j].lease.exp = call'[j].start + Ttl
     /\ ~HeldByOther(Latest, PodOf(j), call'[j].start)
     /\ \E g, t : call'[j].lease.gen = NextGeneration(Latest, PodOf(j), g, t)
  \/ /\ call'[j].stage = "won"
     /\ CommittedLease(PodOf(j), call[j].lease)'

\* A step that moves one call to a value that is neither ready nor won
LEMMA MovedAside ==
  ASSUME TypeOK, NEW k \in Task, NEW c, Moved(k, c), c.stage \notin {"commit", "won"}
  PROVE  \A j \in Task : CallChange(j)
<1>1. call'[k] = c /\ \A j \in Task : j # k => call'[j] = call[j]
  BY DEF Moved, TypeOK
<1> QED BY <1>1 DEF CallChange

\* The values that are neither
LEMMA StagesAside ==
  ASSUME TypeOK, NEW k \in Task
  PROVE  /\ IdleCall.stage = "idle" /\ Granted.stage = "granted"
         /\ \A g : Started(g).stage = "read" /\ Again(call[k], g).stage = "read"
         /\ \A l : Ended(call[k], "refused", l).stage = "refused"
  BY DEF IdleCall, Granted, Started, Again, Ended, TypeOK

\* What any step does to the call of a task.
LEMMA CallSteps ==
  ASSUME TypeOK, ClaimsSound, [Next]_vars
  PROVE  \A j \in Task : CallChange(j)
<1>1. CASE UNCHANGED vars
  BY <1>1 DEF vars, CallChange
<1>2. ASSUME NEW k \in Task, CallStep(k) PROVE \A j \in Task : CallChange(j)
  <2>1. Moved(k, Granted) \/ \E g : Moved(k, Started(g))
    BY <1>2 DEF CallStep, Write, Check, Recover, RenewHeld, BeginCached
  <2> QED BY <2>1, StagesAside, MovedAside
<1>3. ASSUME NEW k \in Task, ClaimRead(k) PROVE \A j \in Task : CallChange(j)
  <2> DEFINE p == PodOf(k)
             l == [holder |-> p, exp |-> call[k].start + Ttl,
                   gen |-> NextGeneration(Latest, p, call[k].goal, call[k].start)]
  <2>1. \/ Moved(k, Ended(call[k], "refused", Latest))
        \/ /\ Moved(k, At(call[k], "commit", Len(log), l)) /\ log' = log
           /\ ~HeldByOther(Latest, p, call[k].start)
    BY <1>3 DEF ClaimRead
  <2>2. CASE /\ Moved(k, At(call[k], "commit", Len(log), l)) /\ log' = log
             /\ ~HeldByOther(Latest, p, call[k].start)
    <3>1. /\ call'[k] = At(call[k], "commit", Len(log), l)
          /\ \A j \in Task : j # k => call'[j] = call[j]
      BY <2>2 DEF Moved, TypeOK
    <3>2. /\ call'[k].stage = "commit" /\ call'[k].parent = Len(log)
          /\ call'[k].lease.holder = p
          /\ call'[k].start = call[k].start
          /\ call'[k].lease.exp = call[k].start + Ttl
          /\ call'[k].lease.gen =
               NextGeneration(Latest, p, call[k].goal, call[k].start)
      BY <3>1 DEF At
    <3>3. CallChange(k)
      BY <2>2, <3>2 DEF CallChange
    <3> QED BY <3>1, <3>3 DEF CallChange
  <2> QED BY <2>1, <2>2, StagesAside, MovedAside
<1>4. ASSUME NEW k \in Task, ClaimCommit(k) PROVE \A j \in Task : CallChange(j)
  <2>1. CASE call[k].parent = Len(log)
    <3> DEFINE l == call[k].lease
    <3>1. /\ call[k].stage = "commit" /\ Len(log) < MaxVersion
          /\ log' = Append(log, l)
          /\ Moved(k, Ended(call[k], "won", l))
      BY <1>4, <2>1 DEF ClaimCommit
    <3>2. l \in Lease
      BY <3>1, TypesOfCalls DEF CallType, CallOK
    <3>3. l.holder = PodOf(k)
      BY <3>1 DEF ClaimsSound, Committable
    <3>4. Len(log) + 1 \in DOMAIN log' /\ log'[Len(log) + 1] = l
      BY <3>1, <3>2, AppendTyped
    <3>5. \E i \in DOMAIN log' : log'[i] = l /\ log'[i].holder = PodOf(k)
      BY <3>3, <3>4
    <3>6. /\ call'[k].stage = "won" /\ call'[k].lease = l
          /\ \A j \in Task : j # k => call'[j] = call[j]
      BY <3>1 DEF Moved, Ended, TypeOK
    <3> QED BY <3>5, <3>6 DEF CallChange, CommittedLease
  <2>2. CASE call[k].parent # Len(log)
    <3>1. Moved(k, At(call[k], "lost", 0, NoLease))
      BY <1>4, <2>2 DEF ClaimCommit
    <3>2. At(call[k], "lost", 0, NoLease).stage = "lost"
      BY DEF At
    <3> QED BY <3>1, <3>2, MovedAside
  <2> QED BY <2>1, <2>2
<1>5. ASSUME NEW k \in Task, ClaimResolve(k) PROVE \A j \in Task : CallChange(j)
  <2> DEFINE d == [call[k] EXCEPT !.stage = "read", !.retried = TRUE]
  <2>1. \/ /\ Adoptable(Latest, PodOf(k), call[k].start)
           /\ Moved(k, Ended(call[k], "won", Latest))
        \/ Moved(k, d)
        \/ Moved(k, Ended(call[k], "refused", Latest))
    BY <1>5 DEF ClaimResolve
  <2>2. d.stage = "read"
    BY DEF TypeOK
  <2>3. CASE /\ Adoptable(Latest, PodOf(k), call[k].start)
             /\ Moved(k, Ended(call[k], "won", Latest))
    <3>1. log # <<>> /\ log \in Seq(Lease) /\ log' = log
      BY <1>5 DEF ClaimResolve, TypeOK
    <3>2. Len(log) \in DOMAIN log /\ log[Len(log)] = Latest
      BY <3>1 DEF Latest
    <3>3. CommittedLease(PodOf(k), Latest)
      BY <2>3, <3>2 DEF CommittedLease, Adoptable
    <3>4. /\ call'[k].stage = "won" /\ call'[k].lease = Latest
          /\ \A j \in Task : j # k => call'[j] = call[j]
      BY <2>3 DEF Moved, Ended, TypeOK
    <3> QED BY <3>1, <3>3, <3>4 DEF CallChange, CommittedLease
  <2> HIDE DEF d
  <2> QED BY <2>1, <2>2, <2>3, StagesAside, MovedAside
<1>6. ASSUME NEW k \in Task,
             \/ WonBinding(k) \/ WonIncarnation(k)
             \/ RefusedBinding(k) \/ RefusedIncarnation(k)
             \/ \E landed \in BOOLEAN : ClaimFails(k, landed)
             \/ Allocate(k)
      PROVE  \A j \in Task : CallChange(j)
  <2>1. \/ Moved(k, IdleCall) \/ Moved(k, Granted)
        \/ \E g : Moved(k, Again(call[k], g))
    BY <1>6 DEF WonBinding, WonIncarnation, RefusedBinding, RefusedIncarnation,
                ClaimFails, Allocate, BeginCached, BeginClaim, NextRenewal
  <2> QED BY <2>1, StagesAside, MovedAside
<1>7. CASE Tick
  BY <1>7 DEF Tick, CallChange
<1>8. ASSUME NEW p \in Pod, NEW kept \in BOOLEAN, Restart(p, kept)
      PROVE  \A j \in Task : CallChange(j)
  <2>1. \A j \in Task : call'[j] = IdleCall \/ call'[j] = call[j]
    BY <1>8 DEF Restart
  <2> QED BY <2>1 DEF CallChange, IdleCall
<1> QED BY <1>1, <1>2, <1>3, <1>4, <1>5, <1>6, <1>7, <1>8 DEF Next, ClaimStep

\* A decision stays sound until it is put or lost, and a success for good.
LEMMA ClaimsStaySound ==
  ASSUME TypeOK, ClaimsSound, [Next]_vars
  PROVE  ClaimsSound'
<1>1. LogStep
  BY LogSteps
<1>2. log \in Seq(Lease) /\ Len(log) \in Nat /\ DOMAIN log = 1..Len(log)
  BY LenProperties DEF TypeOK
<1> SUFFICES ASSUME NEW j \in Task
             PROVE  (Committable(PodOf(j), call[j]) /\ WonIsCommitted(PodOf(j), call[j]))'
  BY DEF ClaimsSound
<1> DEFINE p == PodOf(j)
<1>3. Committable(p, call[j]) /\ WonIsCommitted(p, call[j])
  BY DEF ClaimsSound
<1>4. CASE call'[j] = call[j]
  <2>1. call[j].parent \in 0..Len(log)
    BY DEF TypeOK
  <2>2. Base(call[j].parent)' = Base(call[j].parent)
    <3>1. call[j].parent # 0 => call[j].parent \in DOMAIN log
      BY <1>2, <2>1
    <3> QED BY <1>1, <1>4, <3>1, LogGrows DEF Base
  <2>3. Committable(p, call[j])'
    BY <1>3, <1>4, <2>2 DEF Committable
  <2>4. WonIsCommitted(p, call[j])'
    BY <1>1, <1>3, <1>4, CommittedStays DEF WonIsCommitted
  <2> QED BY <2>3, <2>4
<1>5. CASE call'[j].stage \notin {"commit", "won"}
  BY <1>5 DEF Committable, WonIsCommitted
<1>6. CASE /\ log' = log
           /\ call'[j].parent = Len(log)
           /\ call'[j].stage = "commit"
           /\ call'[j].lease.holder = PodOf(j)
           /\ call'[j].lease.exp = call'[j].start + Ttl
           /\ ~HeldByOther(Latest, PodOf(j), call'[j].start)
           /\ \E g, t : call'[j].lease.gen = NextGeneration(Latest, PodOf(j), g, t)
  <2>1. Base(call[j].parent)' = Latest
    BY <1>2, <1>6 DEF Base, Latest
  <2>2. Latest \in Lease \cup {NoLease}
    BY <1>2, LatestType
  <2>3. /\ Latest.gen =< call'[j].lease.gen
        /\ Latest.holder # p => Latest.gen < call'[j].lease.gen
    BY <1>6, <2>2, NextGenerationType
  <2> QED BY <1>6, <2>1, <2>3 DEF Committable, WonIsCommitted
<1>7. CASE /\ call'[j].stage = "won"
           /\ CommittedLease(PodOf(j), call[j].lease)'
  BY <1>7 DEF Committable, WonIsCommitted
<1>8. CallChange(j)
  BY CallSteps
<1> QED BY <1>4, <1>5, <1>6, <1>7, <1>8 DEF CallChange
\* What a step does to the incarnation and the epoch of a pod: it keeps it,
\* drops it, takes the lease a task of the pod has won or, for the epoch,
\* the cached incarnation.
Won(p, lease) == \E k \in Task : /\ PodOf(k) = p /\ call[k].stage = "won"
                                 /\ call[k].lease = lease

MemoryChange(p) ==
  /\ \/ incarnation'[p] = incarnation[p]
     \/ incarnation'[p].gen = 0
     \/ \E l \in Lease : Won(p, l) /\ incarnation'[p] = [gen |-> l.gen, exp |-> l.exp]
  /\ \/ /\ token_state'[p].epoch = token_state[p].epoch
        /\ token_state'[p].exp \in {token_state[p].exp, 0}
     \/ token_state'[p].epoch = 0
     \/ /\ incarnation[p].gen > 0
        /\ token_state'[p].epoch = incarnation[p].gen
        /\ token_state'[p].exp = incarnation[p].exp
     \/ \E l \in Lease : /\ Won(p, l)
                         /\ token_state'[p].epoch = l.gen
                         /\ token_state'[p].exp = l.exp

\* register_incarnation leaves the pod in the epoch it was called with.
LEMMA RegisteredEpoch ==
  ASSUME TypeOK, NEW p \in Pod, NEW g, NEW e, NEW q \in Pod
  PROVE  /\ Registered(p, g, e)[p].epoch = g /\ Registered(p, g, e)[p].exp = e
         /\ q # p => Registered(p, g, e)[q] = token_state[q]
<1>1. token_state \in [Pod -> [epoch : Nat, next : Nat, exp : Nat]]
  BY DEF TypeOK
<1> DEFINE new == IF token_state[p].epoch = g THEN [token_state[p] EXCEPT !.exp = e]
                  ELSE [epoch |-> g, next |-> 0, exp |-> e]
<1>2. Registered(p, g, e) = [token_state EXCEPT ![p] = new]
  BY <1>1 DEF Registered
<1>3. new.epoch = g /\ new.exp = e
  BY <1>1
<1> HIDE DEF new
<1> QED BY <1>1, <1>2, <1>3

\* begin_writer_incarnation with a cached incarnation
LEMMA BeginMemory ==
  ASSUME TypeOK, NEW k \in Task, BeginCached(k), incarnation' = incarnation,
         incarnation[PodOf(k)].gen > 0
  PROVE  \A p \in Pod : MemoryChange(p)
<1> DEFINE q == PodOf(k)
<1>1. q \in Pod
  BY PodOfTask
<1>2. token_state' = Registered(q, incarnation[q].gen, incarnation[q].exp)
  BY DEF BeginCached
<1>3. \A p \in Pod : /\ token_state'[q].epoch = incarnation[q].gen
                     /\ token_state'[q].exp = incarnation[q].exp
                     /\ p # q => token_state'[p] = token_state[p]
  <2> HIDE DEF q
  <2> QED BY <1>1, <1>2, RegisteredEpoch
<1> QED BY <1>3 DEF MemoryChange

\* What any step does to the caches and tokens of a pod.
LEMMA MemorySteps ==
  ASSUME TypeOK, [Next]_vars
  PROVE  \A p \in Pod : MemoryChange(p)
<1> DEFINE Kept == incarnation' = incarnation /\ token_state' = token_state
<1>1. Kept => \A p \in Pod : MemoryChange(p)
  BY DEF MemoryChange
<1>2. ASSUME NEW k \in Task,
             \/ Check(k) \/ Recover(k) \/ RenewHeld(k)
             \/ ClaimRead(k) \/ ClaimCommit(k) \/ ClaimResolve(k)
             \/ RefusedBinding(k)
             \/ \E landed \in BOOLEAN : ClaimFails(k, landed)
      PROVE  Kept
  BY <1>2 DEF Check, Recover, RenewHeld, ClaimRead, ClaimCommit, ClaimResolve,
              RefusedBinding, ClaimFails, memory
<1>3. ASSUME NEW k \in Task, Write(k) \/ WonBinding(k)
      PROVE  \A p \in Pod : MemoryChange(p)
  <2>1. \/ Kept
        \/ /\ BeginCached(k) /\ incarnation' = incarnation
           /\ incarnation[PodOf(k)].gen > 0
    BY <1>3 DEF Write, WonBinding, BeginClaim, Cached
  <2> QED BY <1>1, <2>1, BeginMemory
<1>4. ASSUME NEW k \in Task, WonIncarnation(k)
      PROVE  \A p \in Pod : MemoryChange(p)
  <2> DEFINE q == PodOf(k)
             l == call[k].lease
  <2>1. q \in Pod /\ l \in Lease /\ Won(q, l)
    BY <1>4, PodOfTask, TypesOfCalls DEF WonIncarnation, CallType, CallOK, Won
  <2>2. /\ incarnation' = [incarnation EXCEPT ![q] = [gen |-> l.gen, exp |-> l.exp]]
        /\ token_state' = Registered(q, l.gen, l.exp)
    BY <1>4 DEF WonIncarnation
  <2> HIDE DEF q, l
  <2>3. /\ incarnation'[q] = [gen |-> l.gen, exp |-> l.exp]
        /\ \A p \in Pod : p # q => incarnation'[p] = incarnation[p]
    BY <2>1, <2>2 DEF TypeOK
  <2>4. \A p \in Pod : /\ token_state'[q].epoch = l.gen
                       /\ token_state'[q].exp = l.exp
                       /\ p # q => token_state'[p] = token_state[p]
    BY <2>1, <2>2, RegisteredEpoch
  <2> QED BY <2>1, <2>3, <2>4 DEF MemoryChange
<1>5. ASSUME NEW k \in Task, RefusedIncarnation(k)
      PROVE  \A p \in Pod : MemoryChange(p)
  <2>1. CASE call[k].goal = "renew_incarnation"
    <3> DEFINE q == PodOf(k)
    <3>1. /\ incarnation' = [incarnation EXCEPT ![q] = NoIncarnation]
          /\ token_state' = [token_state EXCEPT ![q] = [token_state[q] EXCEPT !.exp = 0]]
          /\ q \in Pod
      BY <1>5, <2>1, PodOfTask DEF RefusedIncarnation
    <3>2. \A p \in Pod : incarnation'[p] = incarnation[p] \/ incarnation'[p].gen = 0
      BY <3>1 DEF TypeOK, NoIncarnation
    <3>3. \A p \in Pod : /\ token_state'[p].epoch = token_state[p].epoch
                         /\ token_state'[p].exp \in {token_state[p].exp, 0}
      BY <3>1 DEF TypeOK
    <3> QED BY <3>2, <3>3 DEF MemoryChange
  <2>2. CASE call[k].goal # "renew_incarnation"
    BY <1>1, <1>5, <2>2 DEF RefusedIncarnation
  <2> QED BY <2>1, <2>2
<1>6. ASSUME NEW k \in Task, Allocate(k)
      PROVE  \A p \in Pod : MemoryChange(p)
  <2> DEFINE q == PodOf(k)
  <2>1. /\ incarnation' = incarnation /\ q \in Pod
        /\ \/ token_state' = token_state
           \/ token_state' = [token_state EXCEPT ![q] =
                [token_state[q] EXCEPT !.next = token_state[q].next + 1]]
    BY <1>6, PodOfTask DEF Allocate
  <2>2. \A p \in Pod : /\ token_state'[p].epoch = token_state[p].epoch
                       /\ token_state'[p].exp = token_state[p].exp
    <3> DEFINE u == [token_state[q] EXCEPT !.next = token_state[q].next + 1]
    <3>1. token_state \in [Pod -> [epoch : Nat, next : Nat, exp : Nat]]
      BY DEF TypeOK
    <3>2. u.epoch = token_state[q].epoch /\ u.exp = token_state[q].exp
      BY <2>1, <3>1
    <3>3. token_state' = token_state \/ token_state' = [token_state EXCEPT ![q] = u]
      BY <2>1
    <3> HIDE DEF u, q
    <3> QED BY <2>1, <3>1, <3>2, <3>3
  <2> QED BY <2>1, <2>2 DEF MemoryChange
<1>7. ASSUME NEW q \in Pod, NEW kept \in BOOLEAN, Restart(q, kept)
      PROVE  \A p \in Pod : MemoryChange(p)
  <2>1. \A p \in Pod : /\ incarnation'[p] = incarnation[p] \/ incarnation'[p].gen = 0
                       /\ token_state'[p] = token_state[p] \/ token_state'[p].epoch = 0
    BY <1>7 DEF Restart, TypeOK, NoIncarnation, NoToken
  <2> QED BY <2>1 DEF MemoryChange
<1>8. CASE Tick \/ UNCHANGED vars
  BY <1>1, <1>8 DEF Tick, vars, memory
<1> HIDE DEF Kept
<1> QED BY <1>1, <1>2, <1>3, <1>4, <1>5, <1>6, <1>7, <1>8
        DEF Next, CallStep, ClaimStep

\* What a pod takes for its own was committed, and stays so.
LEMMA OwnershipStays ==
  ASSUME TypeOK, OwnershipCommitted, ClaimsSound, [Next]_vars
  PROVE  OwnershipCommitted'
<1>1. LogStep
  BY LogSteps
<1> SUFFICES ASSUME NEW p \in Pod
             PROVE  /\ incarnation'[p].gen > 0 =>
                         \E i \in DOMAIN log' : /\ log'[i].holder = p
                                                /\ log'[i].gen = incarnation'[p].gen
                                                /\ log'[i].exp = incarnation'[p].exp
                    /\ token_state'[p].epoch > 0 =>
                         \E i \in DOMAIN log' : /\ log'[i].holder = p
                                                /\ log'[i].gen = token_state'[p].epoch
  BY DEF OwnershipCommitted
<1>2. MemoryChange(p)
  BY MemorySteps
<1>3. \A l : Won(p, l) => \E i \in DOMAIN log : log[i] = l /\ log[i].holder = p
  BY DEF Won, ClaimsSound, WonIsCommitted, CommittedLease
<1>4. \A i \in DOMAIN log : i \in DOMAIN log' /\ log'[i] = log[i]
  BY <1>1, LogGrows
<1>5. incarnation'[p].gen > 0 =>
        \E i \in DOMAIN log' : /\ log'[i].holder = p
                               /\ log'[i].gen = incarnation'[p].gen
                               /\ log'[i].exp = incarnation'[p].exp
  <2>1. CASE incarnation'[p] = incarnation[p]
    BY <1>4, <2>1 DEF OwnershipCommitted
  <2>2. CASE incarnation'[p].gen = 0
    BY <2>2
  <2>3. CASE \E l \in Lease : Won(p, l) /\ incarnation'[p] = [gen |-> l.gen, exp |-> l.exp]
    BY <1>3, <1>4, <2>3
  <2> QED BY <1>2, <2>1, <2>2, <2>3 DEF MemoryChange
<1>6. token_state'[p].epoch > 0 =>
        \E i \in DOMAIN log' : /\ log'[i].holder = p
                               /\ log'[i].gen = token_state'[p].epoch
  <2>1. CASE token_state'[p].epoch = token_state[p].epoch
    BY <1>4, <2>1 DEF OwnershipCommitted
  <2>2. CASE token_state'[p].epoch = 0
    BY <2>2
  <2>3. CASE incarnation[p].gen > 0 /\ token_state'[p].epoch = incarnation[p].gen
    BY <1>4, <2>3 DEF OwnershipCommitted
  <2>4. CASE \E l \in Lease : Won(p, l) /\ token_state'[p].epoch = l.gen
    BY <1>3, <1>4, <2>4
  <2> QED BY <1>2, <2>1, <2>2, <2>3, <2>4 DEF MemoryChange
<1> QED BY <1>5, <1>6

\* A step issues a token with the pod's live epoch, or none.
LEMMA TokenSteps ==
  ASSUME [Next]_vars
  PROVE  \A x \in tokens' \ tokens :
           /\ x.epoch > 0 /\ x.pod \in Pod /\ token_state[x.pod].epoch = x.epoch
           /\ now < token_state[x.pod].exp
<1>1. ASSUME NEW k \in Task, Allocate(k)
      PROVE  \A x \in tokens' \ tokens :
               /\ x.epoch > 0 /\ x.pod \in Pod /\ token_state[x.pod].epoch = x.epoch
               /\ now < token_state[x.pod].exp
  BY <1>1, PodOfTask DEF Allocate, TokenLive
<1>2. ASSUME NEW k \in Task, CallStep(k) \/ ClaimStep(k), ~Allocate(k)
      PROVE  tokens' = tokens
  BY <1>2 DEF CallStep, ClaimStep, Write, Check, Recover, RenewHeld, ClaimRead,
              ClaimCommit, ClaimResolve, WonBinding, WonIncarnation,
              RefusedBinding, RefusedIncarnation, ClaimFails
<1>3. CASE \/ UNCHANGED vars \/ Tick
           \/ \E p \in Pod, kept \in BOOLEAN : Restart(p, kept)
  BY <1>3 DEF vars, Tick, Restart
<1> QED BY <1>1, <1>2, <1>3 DEF Next

\* A token is issued in an epoch of the pod's own.
LEMMA TokensStay ==
  ASSUME TypeOK, OwnershipCommitted, TokensCommitted, [Next]_vars
  PROVE  TokensCommitted'
<1>1. LogStep
  BY LogSteps
<1>2. \A x \in tokens' \ tokens :
        x.epoch > 0 /\ x.pod \in Pod /\ token_state[x.pod].epoch = x.epoch
  BY TokenSteps
<1>3. \A x \in tokens' : x.epoch > 0 /\ Committed(x.pod, x.epoch)
  BY <1>2 DEF TokensCommitted, OwnershipCommitted, Committed
<1>4. \A p, g : Committed(p, g) => Committed(p, g)'
  BY <1>1, CommittedStays
<1> QED BY <1>3, <1>4 DEF TokensCommitted

\* Nothing is claimed, so everything claimed is sound.
LEMMA InitInv == Init => LeaseInv
<1> SUFFICES ASSUME Init PROVE LeaseInv
  OBVIOUS
<1>1. TypeOK
  BY InitTyped
<1>2. TakeoverBumps /\ TokensCommitted
  BY DEF Init, TakeoverBumps, TokensCommitted
<1>3. OwnershipCommitted
  BY DEF Init, OwnershipCommitted, NoIncarnation, NoToken
<1>4. ClaimsSound
  BY DEF Init, ClaimsSound, Committable, WonIsCommitted, IdleCall
<1> QED BY <1>1, <1>2, <1>3, <1>4 DEF LeaseInv

\* Every step keeps the invariant.
LEMMA NextInv == LeaseInv /\ [Next]_vars => LeaseInv'
  BY NextTyped, LogSteps, PutFences, OwnershipStays, ClaimsStaySound, TokensStay
     DEF LeaseInv

\* The invariant holds in every reachable state.
LEMMA InvHolds == Spec => []LeaseInv
  BY InitInv, NextInv, PTL DEF Spec

(***************************************************************************)
(* The generations fence: however claims race, fail, are adopted or        *)
(* retried, a lease of another pod has a higher generation.                *)
(***************************************************************************)
THEOREM GenerationsFence == Spec => []TakeoverBumps
<1>1. LeaseInv => TakeoverBumps
  BY DEF LeaseInv
<1> QED BY <1>1, InvHolds, PTL

(***************************************************************************)
(* No pod claims ownership whose bytes were not committed: the cached      *)
(* incarnation and the epoch of the token provider are leases in the log.  *)
(***************************************************************************)
THEOREM OwnershipIsCommitted == Spec => []OwnershipCommitted
<1>1. LeaseInv => OwnershipCommitted
  BY DEF LeaseInv
<1> QED BY <1>1, InvHolds, PTL

(***************************************************************************)
(* An epoch belongs to one pod: no pod numbers tokens where another did.   *)
(***************************************************************************)
THEOREM EpochsOfOnePod == Spec => []EpochOfOnePod
<1>1. ASSUME LeaseInv, NEW x \in tokens, NEW p \in Pod,
             token_state[p].epoch = x.epoch
      PROVE  x.pod = p
  <2>1. PICK i \in DOMAIN log : log[i].holder = x.pod /\ log[i].gen = x.epoch
    BY <1>1 DEF LeaseInv, TokensCommitted, Committed
  <2>2. PICK j \in DOMAIN log : log[j].holder = p /\ log[j].gen = x.epoch
    BY <1>1 DEF LeaseInv, TokensCommitted, OwnershipCommitted
  <2>3. x.epoch \in Nat /\ i \in Nat /\ j \in Nat
    <3>1. log \in Seq(Lease) /\ x.epoch \in Nat
      BY <1>1 DEF LeaseInv, TypeOK
    <3>2. DOMAIN log = 1..Len(log) /\ Len(log) \in Nat
      BY <3>1, LenProperties
    <3> QED BY <3>1, <3>2
  <2>4. i < j \/ j < i \/ i = j
    BY <2>3
  <2> QED BY <1>1, <2>1, <2>2, <2>3, <2>4 DEF LeaseInv, TakeoverBumps
<1>2. LeaseInv => EpochOfOnePod
  BY <1>1 DEF EpochOfOnePod
<1> QED BY <1>2, InvHolds, PTL
(***************************************************************************)
(* Time: a displaced pod stops                                             *)
(***************************************************************************)

\* A call under way has a clock reading that is at most Stall old.
ClaimsFresh ==
  \A k \in Task : call[k].stage \notin {"idle", "granted"} =>
    call[k].start =< now /\ now =< call[k].start + Stall

\* What is ready to be put lasts for Ttl from the clock reading, and takes
\* another pod's lease over only when that is expired by then.
DecisionTimed(p, c) ==
  c.stage = "commit" =>
    /\ c.lease.exp = c.start + Ttl
    /\ (c.parent # 0 /\ Base(c.parent).holder # p) => Base(c.parent).exp =< c.start

DecisionsTimed == \A k \in Task : DecisionTimed(PodOf(k), call[k])

\* No version expires later than a claim of now would; a later one undercuts
\* an earlier one by the age of a clock reading at most; and a takeover waits
\* for the expiry of the version it goes behind.
LogTimed ==
  /\ \A i \in DOMAIN log : log[i].exp =< now + Ttl
  /\ \A i, j \in DOMAIN log : i < j => log[i].exp =< log[j].exp + Stall
  /\ \A i, j \in DOMAIN log :
       (j = i + 1 /\ log[i].holder # log[j].holder) => log[i].exp + Ttl =< log[j].exp

\* A live token state has the expiry of a lease of its epoch.
TokenTimed ==
  \A p \in Pod : (token_state[p].epoch > 0 /\ token_state[p].exp > 0) =>
    \E i \in DOMAIN log : /\ log[i].holder = p
                          /\ log[i].gen = token_state[p].epoch
                          /\ log[i].exp = token_state[p].exp

TimeInv == ClaimsFresh /\ DecisionsTimed /\ LogTimed /\ TokenTimed

\* How a step moves the clock and the clock readings of calls under way
ClockChange ==
  \/ /\ now' = now
     /\ \A j \in Task : \/ call'[j].stage \in {"idle", "granted"}
                        \/ call'[j].start = now
                        \/ /\ call[j].stage \notin {"idle", "granted"}
                           /\ call'[j].start = call[j].start
  \/ /\ now' = now + 1 /\ call' = call
     /\ \A k \in Claiming : now - call[k].start < Stall

\* A step that leaves the clock alone and moves one call
LEMMA MovedInTime ==
  ASSUME TypeOK, NEW k \in Task, NEW c, Moved(k, c), now' = now,
         \/ c.stage \in {"idle", "granted"}
         \/ c.start = now
         \/ call[k].stage \notin {"idle", "granted"} /\ c.start = call[k].start
  PROVE  ClockChange
<1>1. call'[k] = c /\ \A j \in Task : j # k => call'[j] = call[j]
  BY DEF Moved, TypeOK
<1> QED BY <1>1 DEF ClockChange

\* What any step does to the clock and to the readings of it.
LEMMA ClockSteps ==
  ASSUME TypeOK, [Next]_vars
  PROVE  ClockChange
<1>1. CASE UNCHANGED vars
  BY <1>1 DEF vars, ClockChange
<1>2. ASSUME NEW k \in Task
      PROVE  /\ IdleCall.stage = "idle" /\ Granted.stage = "granted"
             /\ \A g : Started(g).start = now /\ Again(call[k], g).start = call[k].start
             /\ \A st, l : Ended(call[k], st, l).start = call[k].start
             /\ \A st, n, l : At(call[k], st, n, l).start = call[k].start
             /\ [call[k] EXCEPT !.stage = "read", !.retried = TRUE].start
                  = call[k].start
  BY DEF IdleCall, Granted, Started, Again, Ended, At, TypeOK
<1>3. ASSUME NEW k \in Task, CallStep(k) PROVE ClockChange
  <2>1. now' = now /\ (Moved(k, Granted) \/ \E g : Moved(k, Started(g)))
    BY <1>3 DEF CallStep, Write, Check, Recover, RenewHeld, BeginCached
  <2> QED BY <1>2, <2>1, MovedInTime
<1>4. ASSUME NEW k \in Task, ClaimRead(k) \/ ClaimCommit(k) \/ ClaimResolve(k)
      PROVE  ClockChange
  <2>1. now' = now /\ call[k].stage \notin {"idle", "granted"}
    BY <1>4 DEF ClaimRead, ClaimCommit, ClaimResolve
  <2>2. \/ \E st, n, l : Moved(k, At(call[k], st, n, l))
        \/ \E st, l : Moved(k, Ended(call[k], st, l))
        \/ Moved(k, [call[k] EXCEPT !.stage = "read", !.retried = TRUE])
    BY <1>4 DEF ClaimRead, ClaimCommit, ClaimResolve
  <2>3. CASE \E st, n, l : Moved(k, At(call[k], st, n, l))
    BY <1>2, <2>1, <2>3, MovedInTime
  <2>4. CASE \E st, l : Moved(k, Ended(call[k], st, l))
    BY <1>2, <2>1, <2>4, MovedInTime
  <2>5. CASE Moved(k, [call[k] EXCEPT !.stage = "read", !.retried = TRUE])
    BY <1>2, <2>1, <2>5, MovedInTime
  <2> QED BY <2>2, <2>3, <2>4, <2>5
<1>5. ASSUME NEW k \in Task,
             \/ WonBinding(k) \/ WonIncarnation(k)
             \/ RefusedBinding(k) \/ RefusedIncarnation(k)
             \/ \E landed \in BOOLEAN : ClaimFails(k, landed)
             \/ Allocate(k)
      PROVE  ClockChange
  <2>1. /\ now' = now
        /\ \/ Moved(k, IdleCall) \/ Moved(k, Granted)
           \/ /\ call[k].stage \notin {"idle", "granted"}
              /\ \E g : Moved(k, Again(call[k], g))
    BY <1>5 DEF WonBinding, WonIncarnation, RefusedBinding, RefusedIncarnation,
                ClaimFails, Allocate, BeginCached, BeginClaim, NextRenewal
  <2> QED BY <1>2, <2>1, MovedInTime
<1>6. CASE Tick
  BY <1>6 DEF Tick, ClockChange
<1>7. ASSUME NEW p \in Pod, NEW kept \in BOOLEAN, Restart(p, kept)
      PROVE  ClockChange
  <2>1. now' = now /\ \A j \in Task : call'[j] = IdleCall \/ call'[j] = call[j]
    BY <1>7 DEF Restart
  <2> QED BY <2>1 DEF ClockChange, IdleCall
<1> QED BY <1>1, <1>3, <1>4, <1>5, <1>6, <1>7 DEF Next, ClaimStep

\* No clock reading grows too old.
LEMMA FreshStays ==
  ASSUME TypeOK, ClaimsFresh, [Next]_vars
  PROVE  ClaimsFresh'
<1>1. ClockChange
  BY ClockSteps
<1>2. now \in Nat /\ Stall \in Nat /\ \A k \in Task : call[k].start \in Nat
  BY LeaseBounds DEF TypeOK
<1>3. CASE now' = now
  BY <1>1, <1>2, <1>3 DEF ClockChange, ClaimsFresh
<1>4. CASE now' # now
  <2>1. /\ now' = now + 1 /\ call' = call
        /\ \A k \in Claiming : now - call[k].start < Stall
    BY <1>1, <1>4 DEF ClockChange
  <2> QED BY <1>2, <2>1 DEF ClaimsFresh, Claiming
<1> QED BY <1>3, <1>4
\* A decision waits for the expiry of another pod's lease.
LEMMA DecisionsStayTimed ==
  ASSUME TypeOK, ClaimsSound, DecisionsTimed, [Next]_vars
  PROVE  DecisionsTimed'
<1>1. LogStep
  BY LogSteps
<1>2. log \in Seq(Lease) /\ Len(log) \in Nat /\ DOMAIN log = 1..Len(log)
  BY LenProperties DEF TypeOK
<1> SUFFICES ASSUME NEW j \in Task
             PROVE  DecisionTimed(PodOf(j), call[j])'
  BY DEF DecisionsTimed
<1> DEFINE p == PodOf(j)
<1>3. CASE call'[j] = call[j]
  <2>1. call[j].parent \in 0..Len(log)
    BY DEF TypeOK
  <2>2. call[j].parent # 0 => call[j].parent \in DOMAIN log
    BY <1>2, <2>1
  <2>3. Base(call[j].parent)' = Base(call[j].parent)
    BY <1>1, <1>3, <2>2, LogGrows DEF Base
  <2>4. DecisionTimed(p, call[j])
    BY DEF DecisionsTimed
  <2> QED BY <1>3, <2>3, <2>4 DEF DecisionTimed
<1>4. CASE call'[j].stage # "commit"
  BY <1>4 DEF DecisionTimed
<1>5. CASE /\ log' = log
           /\ call'[j].parent = Len(log)
           /\ call'[j].lease.exp = call'[j].start + Ttl
           /\ ~HeldByOther(Latest, PodOf(j), call'[j].start)
  <2>1. Base(call[j].parent)' = Latest
    BY <1>2, <1>5 DEF Base, Latest
  <2>2. CASE call'[j].parent # 0 /\ Latest.holder # p
    <3>1. Latest \in Lease
      BY <1>2, <1>5, <2>2, LatestType
    <3>2. Latest # NoLease
      BY <3>1, NoLeaseIsNone
    <3>3. call'[j].start >= Latest.exp
      BY <1>5, <2>2, <3>2 DEF HeldByOther, Expired
    <3>4. call'[j].start \in Nat /\ Latest.exp \in Nat
      <4>1. TypeOK'
        BY NextTyped
      <4> QED BY <3>1, <4>1 DEF TypeOK, Lease
    <3> QED BY <1>5, <2>1, <3>3, <3>4 DEF DecisionTimed
  <2>3. CASE ~(call'[j].parent # 0 /\ Latest.holder # p)
    BY <1>5, <2>1, <2>3 DEF DecisionTimed
  <2> QED BY <2>2, <2>3
<1>6. CallChange(j)
  BY CallSteps
<1> QED BY <1>3, <1>4, <1>5, <1>6 DEF CallChange

\* The clock never goes back.
LEMMA ClockGrows ==
  ASSUME TypeOK, [Next]_vars
  PROVE  now \in Nat /\ now' \in Nat /\ now =< now'
<1>1. ClockChange /\ now \in Nat
  BY ClockSteps DEF TypeOK
<1> QED BY <1>1 DEF ClockChange

\* A put keeps the order of the expiries, up to the age of a clock reading.
LEMMA LogStaysTimed ==
  ASSUME TypeOK, ClaimsSound, ClaimsFresh, DecisionsTimed, LogTimed, [Next]_vars
  PROVE  LogTimed'
<1>1. now \in Nat /\ now' \in Nat /\ now =< now' /\ Ttl \in Nat /\ Stall \in Nat
  BY ClockGrows, LeaseBounds
<1>2. log \in Seq(Lease) /\ Len(log) \in Nat /\ DOMAIN log = 1..Len(log)
  BY LenProperties DEF TypeOK
<1>3. \A i \in DOMAIN log : log[i].exp \in Nat
  <2>1. \A i \in DOMAIN log : log[i] \in Lease
    BY <1>2
  <2> QED BY <2>1 DEF Lease
<1>4. CASE log' = log
  BY <1>1, <1>3, <1>4 DEF LogTimed
<1>5. CASE log' # log
  <2>1. PICK k \in Task : /\ call[k].stage = "commit" /\ call[k].parent = Len(log)
                          /\ Len(log) < MaxVersion
                          /\ log' = Append(log, call[k].lease)
    BY <1>5, LogSteps DEF LogStep
  <2> DEFINE l == call[k].lease
             n == Len(log)
             t == call[k].start
  <2>2. l \in Lease /\ t \in Nat
    BY <2>1, TypesOfCalls DEF CallType, CallOK
  <2>3. /\ \A i \in 1..n : log'[i] = log[i]
        /\ log'[n + 1] = l /\ DOMAIN log' = 1..(n + 1)
    BY <1>2, <2>1, <2>2, AppendTyped
  <2>4. t =< now /\ now =< t + Stall
    BY <2>1 DEF ClaimsFresh
  <2>5. /\ l.exp = t + Ttl /\ l.holder = PodOf(k)
        /\ (n # 0 /\ Base(n).holder # PodOf(k)) => Base(n).exp =< t
    BY <2>1 DEF DecisionsTimed, DecisionTimed, ClaimsSound, Committable
  <2> HIDE DEF l, n, t
  <2>6. n \in Nat /\ DOMAIN log = 1..n
    BY <1>2 DEF n
  <2>7. \A i \in DOMAIN log' : log'[i].exp =< now' + Ttl
    BY <1>1, <1>3, <2>2, <2>3, <2>4, <2>5, <2>6 DEF LogTimed
  <2>8. \A i \in 1..n : log[i].exp =< l.exp + Stall
    BY <1>1, <1>3, <2>2, <2>4, <2>5, <2>6 DEF LogTimed
  <2>9. ASSUME NEW i \in DOMAIN log', NEW j \in DOMAIN log', i < j
        PROVE  log'[i].exp =< log'[j].exp + Stall
    <3>1. i \in 1..n
      BY <2>3, <2>6, <2>9
    <3>2. CASE j = n + 1
      BY <2>3, <2>8, <3>1, <3>2
    <3>3. CASE j # n + 1
      <4>1. j \in 1..n
        BY <2>3, <2>6, <3>3
      <4> QED BY <2>3, <2>6, <2>9, <3>1, <4>1 DEF LogTimed
    <3> QED BY <3>2, <3>3
  <2>10. ASSUME NEW i \in DOMAIN log', NEW j \in DOMAIN log', j = i + 1,
                log'[i].holder # log'[j].holder
         PROVE  log'[i].exp + Ttl =< log'[j].exp
    <3>1. i \in 1..n
      BY <2>3, <2>6, <2>10
    <3>2. CASE j = n + 1
      <4>1. i = n /\ n # 0 /\ Base(n) = log[n]
        BY <2>3, <2>6, <2>10, <3>1, <3>2 DEF Base
      <4>2. log[n].exp =< t
        BY <2>3, <2>5, <2>10, <3>1, <3>2, <4>1
      <4> QED BY <1>1, <1>3, <2>2, <2>3, <2>5, <2>6, <3>1, <3>2, <4>1, <4>2
    <3>3. CASE j # n + 1
      <4>1. j \in 1..n
        BY <2>3, <2>6, <3>3
      <4> QED BY <2>3, <2>6, <2>10, <3>1, <4>1 DEF LogTimed
    <3> QED BY <3>2, <3>3
  <2> QED BY <2>7, <2>9, <2>10 DEF LogTimed
<1> QED BY <1>4, <1>5

\* The token provider's expiry is a committed one.
LEMMA TokenStaysTimed ==
  ASSUME TypeOK, OwnershipCommitted, ClaimsSound, TokenTimed, [Next]_vars
  PROVE  TokenTimed'
<1>1. \A i \in DOMAIN log : i \in DOMAIN log' /\ log'[i] = log[i]
  BY LogSteps, LogGrows
<1> SUFFICES ASSUME NEW p \in Pod, token_state'[p].epoch > 0, token_state'[p].exp > 0
             PROVE  \E i \in DOMAIN log : /\ log[i].holder = p
                                          /\ log[i].gen = token_state'[p].epoch
                                          /\ log[i].exp = token_state'[p].exp
  BY <1>1 DEF TokenTimed
<1>2. MemoryChange(p)
  BY MemorySteps
<1>3. CASE /\ token_state'[p].epoch = token_state[p].epoch
           /\ token_state'[p].exp \in {token_state[p].exp, 0}
  BY <1>3 DEF TokenTimed
<1>4. CASE /\ incarnation[p].gen > 0
           /\ token_state'[p].epoch = incarnation[p].gen
           /\ token_state'[p].exp = incarnation[p].exp
  BY <1>4 DEF OwnershipCommitted
<1>5. CASE \E l \in Lease : /\ Won(p, l)
                            /\ token_state'[p].epoch = l.gen
                            /\ token_state'[p].exp = l.exp
  BY <1>5 DEF Won, ClaimsSound, WonIsCommitted, CommittedLease
<1> QED BY <1>2, <1>3, <1>4, <1>5 DEF MemoryChange

\* No clock has been read.
LEMMA InitTime == Init => TimeInv
  BY DEF Init, TimeInv, ClaimsFresh, DecisionsTimed, DecisionTimed, LogTimed,
         TokenTimed, IdleCall, NoToken

\* Both invariants hold in every reachable state.
LEMMA TimeHolds == Spec => [](LeaseInv /\ TimeInv)
<1>1. LeaseInv /\ TimeInv /\ [Next]_vars => (LeaseInv /\ TimeInv)'
  BY NextInv, FreshStays, DecisionsStayTimed, LogStaysTimed, TokenStaysTimed
     DEF LeaseInv, TimeInv
<1> QED BY <1>1, InitInv, InitTime, PTL DEF Spec

(***************************************************************************)
(* A displaced pod stops: past the takeover's clock reading by Stall it    *)
(* issues no token, however long it lived on its cached incarnation.       *)
(***************************************************************************)
THEOREM DisplacedStops == Spec => DisplacedPodStops
<1>1. ASSUME LeaseInv, TimeInv, [Next]_vars,
             NEW x \in tokens' \ tokens, NEW i \in DOMAIN log, NEW j \in DOMAIN log,
             j = i + 1, log[i].holder = x.pod,
             log[j].holder # x.pod, log[j].gen > x.epoch
      PROVE  now < log[j].exp - Ttl + Stall
  <2>1. /\ x.epoch > 0 /\ x.pod \in Pod /\ token_state[x.pod].epoch = x.epoch
        /\ now < token_state[x.pod].exp
    BY <1>1, TokenSteps
  <2>2. now \in Nat /\ Ttl \in Nat /\ Stall \in Nat
    BY <1>1, LeaseBounds DEF LeaseInv, TypeOK
  <2>3. token_state[x.pod].exp \in Nat /\ x.epoch \in Nat
    BY <1>1, <2>1 DEF LeaseInv, TypeOK
  <2>4. PICK h \in DOMAIN log : /\ log[h].holder = x.pod
                                /\ log[h].gen = x.epoch
                                /\ log[h].exp = token_state[x.pod].exp
    BY <1>1, <2>1, <2>2, <2>3 DEF TimeInv, TokenTimed
  <2>5. /\ h \in Nat /\ i \in Nat
        /\ log[h] \in Lease /\ log[i] \in Lease /\ log[j] \in Lease
    BY <1>1, LenProperties DEF LeaseInv, TypeOK
  <2>6. /\ log[h].exp \in Nat /\ log[i].exp \in Nat /\ log[j].exp \in Nat
        /\ log[h].gen \in Nat /\ log[j].gen \in Nat
    BY <2>5 DEF Lease
  <2>7. h =< i
    <3>1. CASE j < h
      BY <1>1, <2>4, <2>6, <3>1 DEF LeaseInv, TakeoverBumps
    <3>2. CASE j = h
      BY <1>1, <2>4, <3>2
    <3> QED BY <1>1, <2>5, <3>1, <3>2
  <2>8. log[h].exp =< log[i].exp + Stall
    BY <1>1, <2>2, <2>5, <2>6, <2>7 DEF TimeInv, LogTimed
  <2>9. log[i].exp + Ttl =< log[j].exp
    BY <1>1 DEF TimeInv, LogTimed
  <2> QED BY <2>1, <2>2, <2>3, <2>4, <2>6, <2>8, <2>9
<1>2. LeaseInv /\ TimeInv /\ [Next]_vars =>
        [\A x \in tokens' \ tokens, i, j \in DOMAIN log :
           (/\ j = i + 1 /\ log[i].holder = x.pod
            /\ log[j].holder # x.pod /\ log[j].gen > x.epoch) =>
             now < log[j].exp - Ttl + Stall]_vars
  BY <1>1
<1> QED BY <1>2, TimeHolds, PTL DEF Spec, DisplacedPodStops
============================================================================
