----------------------------- MODULE QueueLease -----------------------------
(***************************************************************************)
(* Ownership and progress of one consumer group on one partition of the    *)
(* queue: leases.rs, offset_store.rs and consumer.rs of proximadb-queue.   *)
(*                                                                         *)
(* The group's directory holds two small files, lease.meta and             *)
(* offset.meta.  Both are replaced only by an exact compare-and-exchange   *)
(* of their bytes under a directory lock, and an offset is published only  *)
(* if the lease bytes read before are still there.  Every read and every   *)
(* exchange is a step of its own, so consumers of any process interleave   *)
(* between them.  An exchange runs on a blocking thread: when the caller   *)
(* is cancelled it may still run, at any later time.                       *)
(*                                                                         *)
(* A Consumer is one holder identity and is never reused: losing the lease *)
(* is terminal for it.  The partition's messages are 0..Messages-1.        *)
(***************************************************************************)
EXTENDS Integers, FiniteSets, FiniteSetsExt

CONSTANTS
  Consumer,     \* consumers of the group, in any process: holder ids
  NoLease,      \* lease.meta does not exist
  Messages,     \* number of messages the partition holds
  MaxBatch,     \* bound: max_batch of a poll
  Ttl,          \* lease_duration, in ticks
  Skew,         \* bound: how far a process's wall clock is off
  MaxTime       \* bound: the clock stops there

ASSUME MessagesAssumption == Messages \in Nat /\ MaxBatch \in Nat \ {0}
ASSUME ClockAssumption == Ttl \in Nat \ {0} /\ Skew \in Nat
                         /\ MaxTime \in Nat \ {0}

VARIABLES
  lease,        \* disk: lease.meta, a holder and a deadline (0: released)
  offset,       \* disk: offset.meta, last committed offset, -1 when absent
  orphans,      \* exchanges whose caller was cancelled and that may still run
  now,          \* true time
  usable,       \* per consumer: ConsumerInner.usable
  subscribed,   \* per consumer: the subscription exists
  renewer,      \* per consumer: its renewer task: off, asleep, or awake and
                \* waiting for the tracker
  status,       \* per consumer: its tracker's pending messages
  next_read,    \* per consumer: tracker.next_read_offset
  pc,           \* per consumer: the step of whoever holds its tracker
  seen,         \* per consumer: lease bytes it read
  deadline,     \* per consumer: expires_at of the lease it is about to write
  prior,        \* per consumer: offset bytes it read
  targets,      \* per consumer: the ids of the ack in progress
  done          \* history: offsets whose last word from the application is ack

files == <<lease, offset>>
locals == <<seen, deadline, prior, targets>>
tracker == <<status, next_read>>
vars == <<files, orphans, now, usable, subscribed, renewer, tracker, pc,
          locals, done>>

Offset == 0..(Messages - 1)
Time == 1..(MaxTime + Skew)
Lease == [holder : Consumer, expires : 0..(MaxTime + Skew + Ttl)]
LeaseFile == Lease \cup {NoLease}

ASSUME NoLeaseAssumption == NoLease \notin Lease

\* Steps of a caller's future, which may be cancelled, and of the renewer task.
CallerPc == {"acquire", "acquire_cas", "first_read", "commit",
             "commit_offset", "commit_cas"}
TaskPc == {"renew", "renew_cas", "release", "release_cas"}

\* What a compare_exchange_file call may answer: the comparison's result; false
\* because another process holds the directory lock; false for the last time
\* the retry loop allows; an error before, or after, the file was replaced.
Outcome == {"answer", "busy", "exhausted", "error", "error_applied"}

----------------------------------------------------------------------------
(* What the code reads off the files and the tracker. *)

\* now_unix_nanos() of some process
Clock == {t \in Time : now - Skew =< t /\ t =< now + Skew}

\* update(): acquisition is rejected while another holder's lease is valid.
Acquirable(c, t) ==
  lease = NoLease \/ lease.holder = c \/ lease.expires =< t

\* owned_bytes(), and the renewal branch of update()
Owned(c, t) == lease # NoLease /\ lease.holder = c /\ lease.expires > t

Pending(c) == {m \in Offset : status[c][m] # "none"}

\* The leading pending messages that are acknowledged or being so.
AckedPrefix(c, ids) ==
  {m \in Pending(c) : \A x \in Pending(c) :
     x =< m => status[c][x] = "acked" \/ x \in ids}

\* The first n members of a set of offsets
FirstOf(S, n) == {m \in S : Cardinality({x \in S : x < m}) < n}

\* The lease file after an exchange that compares with expect.
Exchanged(expect, replacement) ==
  IF lease = expect THEN replacement ELSE lease

\* The application's words on offsets not committed are void for a new holder.
DoneUnder(new) ==
  IF lease # NoLease /\ new # NoLease /\ new.holder = lease.holder THEN done
  ELSE {m \in done : m =< offset}

SetLease(new) == lease' = new /\ done' = DoneUnder(new)

Goto(c, l) == pc' = [pc EXCEPT ![c] = l]

\* The consumer fails closed: every later call on it is refused.
Disable(c) == usable' = [usable EXCEPT ![c] = FALSE]

----------------------------------------------------------------------------
(* subscribe_locked: acquire the lease, read the committed offset *)

Subscribe(c) ==
  /\ pc[c] = "idle" /\ usable[c] /\ ~subscribed[c]
  /\ Goto(c, "acquire")
  /\ UNCHANGED <<files, orphans, now, usable, subscribed, renewer, tracker,
                 locals, done>>

\* One round of update(Acquire): read the file and the clock, decide.
AcquireRead(c, t, readable) ==
  /\ pc[c] = "acquire"
  /\ IF readable /\ Acquirable(c, t)
     THEN /\ seen' = [seen EXCEPT ![c] = lease]
          /\ deadline' = [deadline EXCEPT ![c] = t + Ttl]
          /\ Goto(c, "acquire_cas")
          /\ UNCHANGED usable
     ELSE /\ Disable(c) /\ Goto(c, "idle")
          /\ UNCHANGED <<seen, deadline>>
  /\ UNCHANGED <<files, orphans, now, subscribed, renewer, tracker, prior,
                 targets, done>>

\* The lease a consumer is about to write
NewLease(c) == [holder |-> c, expires |-> deadline[c]]

\* Replace the lease if it still is what was read; try again when it is not.
AcquireCas(c, outcome) ==
  /\ pc[c] = "acquire_cas"
  /\ IF outcome \in {"answer", "error_applied"}
     THEN SetLease(Exchanged(seen[c], NewLease(c)))
     ELSE UNCHANGED <<lease, done>>
  /\ CASE outcome = "answer" ->
            /\ Goto(c, IF lease = seen[c] THEN "first_read" ELSE "acquire")
            /\ UNCHANGED usable
       [] outcome = "busy" -> Goto(c, "acquire") /\ UNCHANGED usable
       [] OTHER -> Goto(c, "idle") /\ Disable(c)
  /\ UNCHANGED <<offset, orphans, now, subscribed, renewer, tracker, locals>>

\* Mutant of FirstRead: the inclusive offset taken for an exclusive one, twice.
FirstReadSkips(c, readable) ==
  /\ pc[c] = "first_read" /\ readable
  /\ next_read' = [next_read EXCEPT ![c] = offset + 2]
  /\ subscribed' = [subscribed EXCEPT ![c] = TRUE]
  /\ renewer' = [renewer EXCEPT ![c] = "asleep"]
  /\ Goto(c, "idle")
  /\ UNCHANGED <<files, orphans, now, usable, status, locals, done>>

\* Resume behind the committed offset and spawn the renewer; when the offset
\* cannot be read, give the lease back and fail.
FirstRead(c, readable) ==
  /\ pc[c] = "first_read"
  /\ IF readable
     THEN /\ next_read' = [next_read EXCEPT ![c] = offset + 1]
          /\ subscribed' = [subscribed EXCEPT ![c] = TRUE]
          /\ renewer' = [renewer EXCEPT ![c] = "asleep"]
          /\ Goto(c, "idle")
          /\ UNCHANGED usable
     ELSE /\ Disable(c) /\ Goto(c, "release")
          /\ UNCHANGED <<subscribed, renewer, next_read>>
  /\ UNCHANGED <<files, orphans, now, status, locals, done>>

----------------------------------------------------------------------------
(* poll, ack and nack: each validates ownership first *)

\* A call of the application on a subscription whose tracker is free.
Call(c) == pc[c] = "idle" /\ usable[c] /\ subscribed[c]

\* validate_owner fails: the lease is lost, expired or unreadable.
CallRefused(c, t, readable) ==
  /\ Call(c) /\ ~(readable /\ Owned(c, t))
  /\ Disable(c)
  /\ UNCHANGED <<files, orphans, now, subscribed, renewer, tracker, pc,
                 locals, done>>

\* Redeliver what was nacked, then read on from the cursor.
Poll(c, t, max) ==
  LET again == FirstOf({m \in Offset : status[c][m] = "retry"}, max)
      fresh == {m \in Offset : /\ next_read[c] =< m
                               /\ m < next_read[c] + max - Cardinality(again)}
  IN /\ Call(c) /\ Owned(c, t)
     /\ again \cup fresh # {}
     /\ status' = [status EXCEPT ![c] =
                     [m \in Offset |-> IF m \in again \cup fresh THEN "out"
                                       ELSE status[c][m]]]
     /\ next_read' = [next_read EXCEPT ![c] = @ + Cardinality(fresh)]
     /\ UNCHANGED <<files, orphans, now, usable, subscribed, renewer, pc,
                    locals, done>>

\* Mark ids acknowledged and drop the committed prefix.
Acknowledged(c, ids) ==
  [m \in Offset |-> IF m \in AckedPrefix(c, ids) THEN "none"
                    ELSE IF m \in Pending(c) \cap ids THEN "acked"
                    ELSE status[c][m]]

\* ack: without a contiguous prefix only the marks change; else commit first.
Ack(c, t, ids) ==
  /\ Call(c) /\ Owned(c, t)
  /\ ids # {} /\ ids \subseteq Pending(c)
  /\ done' = done \cup ids
  /\ IF AckedPrefix(c, ids) = {}
     THEN /\ status' = [status EXCEPT ![c] = Acknowledged(c, ids)]
          /\ UNCHANGED <<pc, targets>>
     ELSE /\ targets' = [targets EXCEPT ![c] = ids]
          /\ Goto(c, "commit")
          /\ UNCHANGED status
  /\ UNCHANGED <<files, orphans, now, usable, subscribed, renewer, next_read,
                 seen, deadline, prior>>

\* nack: no file changes, the messages are delivered again.
Nack(c, t, ids) ==
  /\ Call(c) /\ Owned(c, t)
  /\ ids # {} /\ ids \subseteq Pending(c)
  /\ done' = done \ ids
  /\ status' = [status EXCEPT ![c] =
                  [m \in Offset |-> IF m \in ids THEN "retry" ELSE status[c][m]]]
  /\ UNCHANGED <<files, orphans, now, usable, subscribed, renewer, next_read,
                 pc, locals>>

----------------------------------------------------------------------------
(* offset_store::commit, inside ack *)

\* A round of the loop: the lease, read and judged anew.  A conflict is
\* terminal; a failed read is not, the ack may be repeated.
CommitRead(c, t, readable) ==
  /\ pc[c] = "commit"
  /\ IF readable /\ Owned(c, t)
     THEN /\ seen' = [seen EXCEPT ![c] = lease]
          /\ Goto(c, "commit_offset")
     ELSE Goto(c, "idle") /\ UNCHANGED seen
  /\ usable' = [usable EXCEPT ![c] = ~readable \/ Owned(c, t)]
  /\ UNCHANGED <<files, orphans, now, subscribed, renewer, tracker, deadline,
                 prior, targets, done>>

CommitReadOffset(c, readable) ==
  /\ pc[c] = "commit_offset"
  /\ IF readable
     THEN prior' = [prior EXCEPT ![c] = offset] /\ Goto(c, "commit_cas")
     ELSE Goto(c, "idle") /\ UNCHANGED prior
  /\ UNCHANGED <<files, orphans, now, usable, subscribed, renewer, tracker,
                 seen, deadline, targets, done>>

\* The offset a commit publishes: never lower than the one it replaces.
NewOffset(c) ==
  LET last == Max(AckedPrefix(c, targets[c]))
  IN IF last > prior[c] THEN last ELSE prior[c]

\* Mutant of OffsetGuard: the lease is not compared again.
OffsetGuardAlone(old, bytes) == offset = old

\* Mutant of OffsetGuard: a plain write in place of the exchange.
OffsetUnguarded(old, bytes) == TRUE

\* Both files still are what was read.
OffsetGuard(old, bytes) == offset = old /\ lease = bytes

\* Publish, and change the tracker only after the publication succeeded.  A
\* mismatch starts over; a lost retry budget leaves everything retryable; an
\* error leaves the outcome unknown and the consumer unusable.
CommitCas(c, outcome) ==
  LET matches == OffsetGuard(prior[c], seen[c])
  IN /\ pc[c] = "commit_cas"
     /\ offset' = IF outcome \in {"answer", "error_applied"} /\ matches
                  THEN NewOffset(c) ELSE offset
     /\ CASE outcome = "answer" /\ matches ->
               /\ status' = [status EXCEPT ![c] = Acknowledged(c, targets[c])]
               /\ Goto(c, "idle") /\ UNCHANGED usable
          [] outcome = "busy" \/ (outcome = "answer" /\ ~matches) ->
               Goto(c, "commit") /\ UNCHANGED <<status, usable>>
          [] outcome = "exhausted" ->
               Goto(c, "idle") /\ UNCHANGED <<status, usable>>
          [] OTHER -> Goto(c, "idle") /\ Disable(c) /\ UNCHANGED status
     /\ UNCHANGED <<lease, orphans, now, subscribed, renewer, next_read,
                    locals, done>>

----------------------------------------------------------------------------
(* The renewer task *)

\* Its timer fires: renew once the tracker is free, or leave the loop for good.
RenewerWakes(c) ==
  /\ renewer[c] = "asleep"
  /\ usable[c]
  /\ renewer' = [renewer EXCEPT ![c] = "waiting"]
  /\ UNCHANGED <<files, orphans, now, usable, subscribed, tracker, pc, locals,
                 done>>

RenewerLeaves(c) ==
  /\ renewer[c] = "asleep" /\ pc[c] = "idle"
  /\ ~usable[c]
  /\ renewer' = [renewer EXCEPT ![c] = "off"]
  /\ Goto(c, "release")
  /\ UNCHANGED <<files, orphans, now, usable, subscribed, tracker, locals, done>>

\* It has the tracker.  Whether the consumer is still usable is not asked again.
RenewerLocks(c) ==
  /\ renewer[c] = "waiting" /\ pc[c] = "idle"
  /\ renewer' = [renewer EXCEPT ![c] = "asleep"]
  /\ Goto(c, "renew")
  /\ UNCHANGED <<files, orphans, now, usable, subscribed, tracker, locals, done>>

\* Mutant of RenewalFailed: log it and try again later.
RenewalIgnored(c) == Goto(c, "idle") /\ UNCHANGED <<usable, renewer>>

\* A failed renewal is terminal: the loop ends and the lease is given back.
RenewalFailed(c) ==
  /\ Disable(c) /\ Goto(c, "release")
  /\ renewer' = [renewer EXCEPT ![c] = "off"]

RenewRead(c, t, readable) ==
  /\ pc[c] = "renew"
  /\ IF readable /\ Owned(c, t)
     THEN /\ seen' = [seen EXCEPT ![c] = lease]
          /\ deadline' = [deadline EXCEPT ![c] = t + Ttl]
          /\ Goto(c, "renew_cas")
          /\ UNCHANGED <<usable, renewer>>
     ELSE RenewalFailed(c) /\ UNCHANGED <<seen, deadline>>
  /\ UNCHANGED <<files, orphans, now, subscribed, tracker, prior, targets, done>>

RenewCas(c, outcome) ==
  /\ pc[c] = "renew_cas"
  /\ IF outcome \in {"answer", "error_applied"}
     THEN SetLease(Exchanged(seen[c], NewLease(c)))
     ELSE UNCHANGED <<lease, done>>
  /\ CASE outcome = "answer" ->
            /\ Goto(c, IF lease = seen[c] THEN "idle" ELSE "renew")
            /\ UNCHANGED <<usable, renewer>>
       [] outcome = "busy" -> Goto(c, "renew") /\ UNCHANGED <<usable, renewer>>
       [] OTHER -> RenewalFailed(c)
  /\ UNCHANGED <<offset, orphans, now, subscribed, tracker, locals>>

\* Mutant of ReleaseRead: whoever holds the lease, it is released.
ReleaseReadAny(c, readable) ==
  /\ pc[c] = "release"
  /\ seen' = [seen EXCEPT ![c] = lease]
  /\ Goto(c, IF ~readable \/ lease = NoLease THEN "idle" ELSE "release_cas")
  /\ UNCHANGED <<files, orphans, now, usable, subscribed, renewer, tracker,
                 deadline, prior, targets, done>>

\* release(): only a lease of this holder that is not released yet.
ReleaseRead(c, readable) ==
  /\ pc[c] = "release"
  /\ seen' = [seen EXCEPT ![c] = lease]
  /\ Goto(c, IF readable /\ lease # NoLease /\ lease.holder = c
                /\ lease.expires # 0
             THEN "release_cas" ELSE "idle")
  /\ UNCHANGED <<files, orphans, now, usable, subscribed, renewer, tracker,
                 deadline, prior, targets, done>>

\* The tombstone: same holder, deadline 0.  Errors leave the lease to expire.
ReleaseCas(c, outcome) ==
  /\ pc[c] = "release_cas"
  /\ IF outcome \in {"answer", "error_applied"}
     THEN SetLease(Exchanged(seen[c], [seen[c] EXCEPT !.expires = 0]))
     ELSE UNCHANGED <<lease, done>>
  /\ Goto(c, IF outcome = "busy" \/ (outcome = "answer" /\ lease # seen[c])
             THEN "release" ELSE "idle")
  /\ UNCHANGED <<offset, orphans, now, usable, subscribed, renewer, tracker,
                 locals>>

----------------------------------------------------------------------------
(* Shutdown, cancellation, death and time *)

\* shutdown() or the last handle dropped: the renewer then releases.
Shutdown(c) ==
  /\ usable[c] /\ pc[c] \notin CallerPc
  /\ Disable(c)
  /\ UNCHANGED <<files, orphans, now, subscribed, renewer, tracker, pc, locals,
                 done>>

\* The exchange a step was about to wait for, as its blocking thread holds it.
Exchange(c) ==
  CASE pc[c] \in {"acquire_cas", "renew_cas"} ->
         {[file |-> "lease", old |-> seen[c], new |-> NewLease(c)]}
    [] pc[c] = "release_cas" ->
         {[file |-> "lease", old |-> seen[c],
           new |-> [seen[c] EXCEPT !.expires = 0]]}
    [] pc[c] = "commit_cas" ->
         {[file |-> "offset", old |-> prior[c], new |-> NewOffset(c),
           guard |-> seen[c]]}
    [] OTHER -> {}

\* Mutant of Cancel: the consumer stays usable.
CancelQuietly(c, queued) ==
  /\ pc[c] \in CallerPc
  /\ orphans' = orphans \cup (IF queued THEN Exchange(c) ELSE {})
  /\ Goto(c, "idle")
  /\ UNCHANGED <<files, now, usable, subscribed, renewer, tracker, locals, done>>

\* A caller drops the future of its call: the CancellationGuard fails the
\* consumer closed; an exchange that was already queued may run later.
Cancel(c, queued) ==
  /\ pc[c] \in CallerPc
  /\ Disable(c)
  /\ orphans' = orphans \cup (IF queued THEN Exchange(c) ELSE {})
  /\ Goto(c, "idle")
  /\ UNCHANGED <<files, now, subscribed, renewer, tracker, locals, done>>

\* The process of a consumer ends, its renewer with it.
Die(c, queued) ==
  /\ renewer[c] # "off" \/ pc[c] # "idle"
  /\ Disable(c)
  /\ renewer' = [renewer EXCEPT ![c] = "off"]
  /\ orphans' = orphans \cup (IF queued THEN Exchange(c) ELSE {})
  /\ Goto(c, "idle")
  /\ UNCHANGED <<files, now, subscribed, tracker, locals, done>>

\* The exchange of a cancelled call runs after all.
OrphanRuns(x) ==
  /\ x \in orphans
  /\ orphans' = orphans \ {x}
  /\ IF x.file = "lease"
     THEN SetLease(Exchanged(x.old, x.new)) /\ UNCHANGED offset
     ELSE /\ offset' = IF OffsetGuard(x.old, x.guard) THEN x.new ELSE offset
          /\ UNCHANGED <<lease, done>>
  /\ UNCHANGED <<now, usable, subscribed, renewer, tracker, pc, locals>>

Tick ==
  /\ now < MaxTime
  /\ now' = now + 1
  /\ UNCHANGED <<files, orphans, usable, subscribed, renewer, tracker, pc,
                 locals, done>>

----------------------------------------------------------------------------
(* A group nobody has subscribed to yet. *)
Init ==
  /\ lease = NoLease /\ offset = -1 /\ orphans = {} /\ now = 1
  /\ usable = [c \in Consumer |-> TRUE]
  /\ subscribed = [c \in Consumer |-> FALSE]
  /\ renewer = [c \in Consumer |-> "off"]
  /\ status = [c \in Consumer |-> [m \in Offset |-> "none"]]
  /\ next_read = [c \in Consumer |-> 0]
  /\ pc = [c \in Consumer |-> "idle"]
  /\ seen = [c \in Consumer |-> NoLease]
  /\ deadline = [c \in Consumer |-> 0]
  /\ prior = [c \in Consumer |-> -1]
  /\ targets = [c \in Consumer |-> {}]
  /\ done = {}

\* Steps of code already running, and of the renewer's timer.
Running(c) ==
  \/ \E t \in Clock, readable \in BOOLEAN :
       \/ AcquireRead(c, t, readable)
       \/ CommitRead(c, t, readable)
       \/ RenewRead(c, t, readable)
  \/ \E o \in Outcome :
       AcquireCas(c, o) \/ CommitCas(c, o) \/ RenewCas(c, o) \/ ReleaseCas(c, o)
  \/ \E readable \in BOOLEAN :
       \/ FirstRead(c, readable)
       \/ CommitReadOffset(c, readable)
       \/ ReleaseRead(c, readable)
  \/ RenewerWakes(c) \/ RenewerLeaves(c) \/ RenewerLocks(c)

\* What the application and its environment decide.
Environment(c) ==
  \/ Subscribe(c)
  \/ \E t \in Clock :
       \/ \E readable \in BOOLEAN : CallRefused(c, t, readable)
       \/ \E max \in 1..MaxBatch : Poll(c, t, max)
       \/ \E ids \in SUBSET Offset : Ack(c, t, ids) \/ Nack(c, t, ids)
  \/ Shutdown(c)
  \/ \E queued \in BOOLEAN : Cancel(c, queued) \/ Die(c, queued)

Next ==
  \/ \E c \in Consumer : Running(c) \/ Environment(c)
  \/ \E x \in orphans : OrphanRuns(x)
  \/ Tick

Spec == Init /\ [][Next]_vars

\* Tasks that are running keep running: the runtime schedules them, and file
\* operations return.  Nothing is assumed of applications, clocks or orphans.
FairSpec == Spec /\ \A c \in Consumer : WF_vars(Running(c))

----------------------------------------------------------------------------
(* Properties *)

\* Type invariant of the two files, the trackers and the calls in progress.
TypeOK ==
  /\ lease \in LeaseFile
  /\ offset \in -1..(Messages - 1)
  /\ \A x \in orphans :
       \/ /\ x.file = "lease" /\ x.old \in LeaseFile /\ x.new \in Lease
       \/ /\ x.file = "offset" /\ x.old \in -1..(Messages - 1)
          /\ x.new \in Offset /\ x.guard \in Lease
  /\ now \in 1..MaxTime
  /\ usable \in [Consumer -> BOOLEAN]
  /\ subscribed \in [Consumer -> BOOLEAN]
  /\ renewer \in [Consumer -> {"off", "asleep", "waiting"}]
  /\ status \in [Consumer -> [Offset -> {"none", "out", "acked", "retry"}]]
  /\ next_read \in [Consumer -> 0..Messages]
  /\ pc \in [Consumer -> {"idle"} \cup CallerPc \cup TaskPc]
  /\ seen \in [Consumer -> LeaseFile]
  /\ deadline \in [Consumer -> 0..(MaxTime + Skew + Ttl)]
  /\ prior \in [Consumer -> -1..(Messages - 1)]
  /\ targets \in [Consumer -> SUBSET Offset]
  /\ done \subseteq Offset

\* The first offset the group still owes its consumer c
Owes(c) == Min(Pending(c) \cup {next_read[c]})

\* While a consumer in good standing is the lease's holder, the committed
\* offset is exactly its own progress: no displaced consumer, cancelled call or
\* late exchange moved it (offset_store::commit guards the lease bytes).
ProgressIsHolders ==
  \A c \in Consumer :
    (usable[c] /\ subscribed[c] /\ lease # NoLease /\ lease.holder = c)
      => offset = Owes(c) - 1

\* Every committed offset was acknowledged by the application, and not taken
\* back by a nack that succeeded later (contiguous prefix in ack_locked, failing
\* closed on cancellation).
CommittedWasAcked == \A m \in 0..offset : m \in done

\* A lease that every clock calls valid never changes hands, and it is not
\* released while its holder is in good standing: a displaced or cancelled
\* consumer never takes away its successor's lease (update, release).
ValidLeaseKept ==
  [][(lease # NoLease /\ lease.expires > now + Skew)
       => /\ lease'.holder = lease.holder
          /\ lease'.expires = 0 => ~usable[lease.holder]]_vars

\* Committed progress never goes back, not by the late exchange of a cancelled
\* ack either.
OffsetMonotone == [][offset' >= offset]_vars

\* A consumer whose lease another one took finds out and stops: its renewer or
\* its next call fails closed.
LossIsNoticed ==
  \A c \in Consumer :
    (subscribed[c] /\ lease # NoLease /\ lease.holder # c) ~> ~usable[c]
============================================================================
