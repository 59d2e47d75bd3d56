---------------------------- MODULE WriterEpoch ----------------------------
(***************************************************************************)
(* Which process may write to a reattachable durable volume:               *)
(*   apps/proximadb-server/src/writer_epoch.rs  boot sequence and watchdog *)
(*   src/cluster/writer_epoch.rs                the create-only epoch log  *)
(*   src/services/writer_fence.rs               lost flag and lease        *)
(*                                                                         *)
(* A process boots on some host with a volume attached, binds the volume's *)
(* identity, wins the next slot of the epoch log, publishes the epoch on   *)
(* the volume, waits out the previous owner's lease and opens the WAL.     *)
(* Every append asks the fence first.  A watchdog re-reads both sources    *)
(* and renews the lease.  Processes pause anywhere (a pause is the clock   *)
(* advancing while the process takes no step), die anywhere, and requests  *)
(* to the log are lost, answered late, or land after their sender is gone. *)
(* A restart is another member of Proc: every boot has a fresh nonce.      *)
(*                                                                         *)
(* Time is one discrete clock: Instant is monotonic, and hosts are taken   *)
(* to measure durations at the same rate.                                  *)
(***************************************************************************)
EXTENDS Naturals, Sequences, FiniteSets, FiniteSetsExt

CONSTANTS
  Proc,        \* boots of a server, each with its own claim nonce
  Volume,      \* volumes that may be attached at the configured root
  NoId,        \* no volume identity
  Lease,       \* Timing.lease
  Margin,      \* the 500 ms takeover_grace adds to the lease
  MaxFailedChecks, \* MAX_FAILED_CHECKS
  MaxTime      \* bound: the clock stops here

ASSUME TimingAssumption ==
  /\ Lease \in Nat /\ MaxTime \in Nat /\ MaxFailedChecks \in Nat
  /\ Margin \in Nat \ {0}
ASSUME ProcAssumption == NoId \notin Proc /\ Volume # {}

VARIABLES
  now,           \* the clock
  log,           \* epoch log: slot e holds the grant of epoch e
  puts,          \* create-only puts on their way to the log
  volume_id,     \* {volume}/_control/volume.id
  fence_file,    \* {volume}/_control/epoch.fence, 0 when there is none
  pc,            \* boot progress of each process
  attached,      \* the volume mounted at its root
  vid,           \* the volume identity it read or created
  epoch,         \* the epoch it claims, later owns
  claim_started, \* Instant taken before acquire_next
  seen,          \* the epoch publish_fence read, 0 when there was no file
  lease_until,   \* WriterFence.lease_until_ms
  lost,          \* WriterFence.lost
  grace_until,   \* end of the takeover wait
  check,         \* watchdog progress
  started,       \* start of the watchdog's current check
  newer,         \* a source of this check named a newer epoch
  failed,        \* a source of this check could not be read
  failures,      \* failed checks in a row
  appending      \* an append has passed ensure_owner and not yet returned

store == <<log, puts, volume_id, fence_file>>
boot == <<pc, attached, vid, epoch, claim_started, seen, grace_until>>
wfence == <<lease_until, lost>>
dog == <<check, started, newer, failed, failures>>
vars == <<now, store, boot, wfence, dog, appending>>

Grant == [nonce : Proc, volume : Proc, at : Nat]

Pc == {"off", "id_read", "bound", "claiming", "put", "reconcile", "granted",
       "swapping", "published", "grace", "open", "dead"}

----------------------------------------------------------------------------
(* Boot: bind_volume_identity *)

\* The process exits: a boot step refused, the watchdog, or a crash.  Nothing
\* of its memory is left.
Exit(p) ==
  /\ pc' = [pc EXCEPT ![p] = "dead"]
  /\ vid' = [vid EXCEPT ![p] = NoId]
  /\ epoch' = [epoch EXCEPT ![p] = 0]
  /\ claim_started' = [claim_started EXCEPT ![p] = 0]
  /\ seen' = [seen EXCEPT ![p] = 0]
  /\ grace_until' = [grace_until EXCEPT ![p] = 0]
  /\ lease_until' = [lease_until EXCEPT ![p] = 0]
  /\ lost' = [lost EXCEPT ![p] = FALSE]
  /\ check' = [check EXCEPT ![p] = "off"]
  /\ started' = [started EXCEPT ![p] = 0]
  /\ newer' = [newer EXCEPT ![p] = FALSE]
  /\ failed' = [failed EXCEPT ![p] = FALSE]
  /\ failures' = [failures EXCEPT ![p] = 0]
  /\ appending' = [appending EXCEPT ![p] = FALSE]
  /\ UNCHANGED attached

\* Start with volume v at the root, and read the identity on it.
Boot(p, v) ==
  /\ pc[p] = "off"
  /\ attached' = [attached EXCEPT ![p] = v]
  /\ vid' = [vid EXCEPT ![p] = volume_id[v]]
  /\ pc' = [pc EXCEPT ![p] = "id_read"]
  /\ UNCHANGED <<now, store, epoch, claim_started, seen, grace_until, wfence,
                 dog, appending>>

\* The identity the newest grant is bound to.
Expected == IF log = <<>> THEN NoId ELSE log[Len(log)].volume

\* Compare the identity on the volume with the log's: they must agree, and the
\* log must not expect one that the volume lacks.
BindMatching(p) ==
  /\ pc[p] = "id_read"
  /\ vid[p] # NoId
  /\ Expected \in {NoId, vid[p]}
  /\ pc' = [pc EXCEPT ![p] = "bound"]
  /\ UNCHANGED <<now, store, attached, vid, epoch, claim_started, seen,
                 grace_until, wfence, dog, appending>>

\* Mutant of BindFresh: the new identity is not put into the claim.
BindFreshUnnamed(p) ==
  /\ pc[p] = "id_read"
  /\ vid[p] = NoId /\ Expected = NoId
  /\ volume_id[attached[p]] = NoId
  /\ volume_id' = [volume_id EXCEPT ![attached[p]] = p]
  /\ pc' = [pc EXCEPT ![p] = "bound"]
  /\ UNCHANGED <<now, log, puts, fence_file, attached, vid, epoch,
                 claim_started, seen, grace_until, wfence, dog,
                 appending>>

\* Neither has one: create it with a compare-and-swap on the absent file.
BindFresh(p) ==
  /\ pc[p] = "id_read"
  /\ vid[p] = NoId /\ Expected = NoId
  /\ volume_id[attached[p]] = NoId
  /\ volume_id' = [volume_id EXCEPT ![attached[p]] = p]
  /\ vid' = [vid EXCEPT ![p] = p]
  /\ pc' = [pc EXCEPT ![p] = "bound"]
  /\ UNCHANGED <<now, log, puts, fence_file, attached, epoch, claim_started,
                 seen, grace_until, wfence, dog, appending>>

\* The identities differ, the volume lacks the one the log expects, or another
\* process created it first.
BindRefused(p) ==
  /\ pc[p] = "id_read"
  /\ \/ Expected \notin {NoId, vid[p]}
     \/ vid[p] = NoId /\ Expected = NoId /\ volume_id[attached[p]] # NoId
  /\ Exit(p)
  /\ UNCHANGED <<now, store>>

----------------------------------------------------------------------------
(* Boot: acquire_next and commit_fenced *)

\* claim_started, then latest_version: the epoch is the successor slot.
ClaimList(p) ==
  /\ pc[p] = "bound"
  /\ claim_started' = [claim_started EXCEPT ![p] = now]
  /\ epoch' = [epoch EXCEPT ![p] = Len(log) + 1]
  /\ pc' = [pc EXCEPT ![p] = "claiming"]
  /\ UNCHANGED <<now, store, attached, vid, seen, grace_until, wfence, dog,
                 appending>>

\* commit_fenced lists again: the head is where it was, so the create-only put
\* goes out ...
ClaimPut(p) ==
  /\ pc[p] = "claiming"
  /\ Len(log) = epoch[p] - 1
  /\ puts' = puts \cup {[nonce |-> p, volume |-> vid[p], slot |-> epoch[p]]}
  /\ pc' = [pc EXCEPT ![p] = "put"]
  /\ UNCHANGED <<now, log, volume_id, fence_file, attached, vid, epoch,
                 claim_started, seen, grace_until, wfence, dog,
                 appending>>

\* ... or it has moved, which is a conflict.
ClaimConflict(p) ==
  /\ pc[p] = "claiming"
  /\ Len(log) # epoch[p] - 1
  /\ pc' = [pc EXCEPT ![p] = "reconcile"]
  /\ UNCHANGED <<now, store, attached, vid, epoch, claim_started, seen,
                 grace_until, wfence, dog, appending>>

\* A put reaches the log and its slot is absent: the grant is created.  The
\* sender may be gone, and the answer may be lost.
PutCreates(r, answered) ==
  /\ r \in puts
  /\ Len(log) < r.slot
  /\ puts' = puts \ {r}
  /\ log' = Append(log, [nonce |-> r.nonce, volume |-> r.volume, at |-> now])
  /\ pc' = IF answered /\ pc[r.nonce] = "put"
           THEN [pc EXCEPT ![r.nonce] = "granted"] ELSE pc
  /\ UNCHANGED <<now, volume_id, fence_file, attached, vid, epoch,
                 claim_started, seen, grace_until, wfence, dog,
                 appending>>

\* A put reaches the log and finds its slot taken.
PutConflicts(r, answered) ==
  /\ r \in puts
  /\ Len(log) >= r.slot
  /\ puts' = puts \ {r}
  /\ pc' = IF answered /\ pc[r.nonce] = "put"
           THEN [pc EXCEPT ![r.nonce] = "reconcile"] ELSE pc
  /\ UNCHANGED <<now, log, volume_id, fence_file, attached, vid, epoch,
                 claim_started, seen, grace_until, wfence, dog,
                 appending>>

\* No answer: an error, whatever became of the put.
PutError(p) ==
  /\ pc[p] = "put"
  /\ pc' = [pc EXCEPT ![p] = "reconcile"]
  /\ UNCHANGED <<now, store, attached, vid, epoch, claim_started, seen,
                 grace_until, wfence, dog, appending>>

\* Mutant of Reconcile: any claim found in the slot is taken for our own.
ReconcileAny(p) ==
  /\ pc[p] = "reconcile"
  /\ epoch[p] =< Len(log)
  /\ pc' = [pc EXCEPT ![p] = "granted"]
  /\ UNCHANGED <<now, store, attached, vid, epoch, claim_started, seen,
                 grace_until, wfence, dog, appending>>

\* Read the slot back: our own nonce means that we won after all.
Reconcile(p) ==
  /\ pc[p] = "reconcile"
  /\ epoch[p] =< Len(log)
  /\ log[epoch[p]].nonce = p
  /\ pc' = [pc EXCEPT ![p] = "granted"]
  /\ UNCHANGED <<now, store, attached, vid, epoch, claim_started, seen,
                 grace_until, wfence, dog, appending>>

\* Another nonce, or a slot that cannot be read: the boot fails.
ReconcileLost(p) ==
  /\ pc[p] = "reconcile"
  /\ Exit(p)
  /\ UNCHANGED <<now, store>>

----------------------------------------------------------------------------
(* Boot: publish_fence, enforce_lease, the takeover wait *)

\* Read the fence file: an older epoch, or none, may be replaced ...
ReadFence(p) ==
  /\ pc[p] = "granted"
  /\ fence_file[attached[p]] < epoch[p]
  /\ seen' = [seen EXCEPT ![p] = fence_file[attached[p]]]
  /\ pc' = [pc EXCEPT ![p] = "swapping"]
  /\ UNCHANGED <<now, store, attached, vid, epoch, claim_started, grace_until,
                 wfence, dog, appending>>

\* ... an equal or newer owner on the volume ends the boot.
PublishRefused(p) ==
  /\ pc[p] = "granted"
  /\ fence_file[attached[p]] >= epoch[p]
  /\ Exit(p)
  /\ UNCHANGED <<now, store>>

\* Mutant of PublishFence: the file is replaced without comparing it with what
\* was read.
PublishFenceAnyway(p) ==
  /\ pc[p] = "swapping"
  /\ fence_file' = [fence_file EXCEPT ![attached[p]] = epoch[p]]
  /\ seen' = [seen EXCEPT ![p] = 0]
  /\ pc' = [pc EXCEPT ![p] = "published"]
  /\ UNCHANGED <<now, log, puts, volume_id, attached, vid, epoch, claim_started,
                 grace_until, wfence, dog, appending>>

\* compare_exchange_file, under the lock of the directory: the file still holds
\* what was read, and is replaced.
PublishFence(p) ==
  /\ pc[p] = "swapping"
  /\ fence_file[attached[p]] = seen[p]
  /\ fence_file' = [fence_file EXCEPT ![attached[p]] = epoch[p]]
  /\ seen' = [seen EXCEPT ![p] = 0]
  /\ pc' = [pc EXCEPT ![p] = "published"]
  /\ UNCHANGED <<now, log, puts, volume_id, attached, vid, epoch, claim_started,
                 grace_until, wfence, dog, appending>>

\* The directory cannot be synced behind the rename: the file is replaced, and
\* the error ends the boot.
PublishFails(p) ==
  /\ pc[p] = "swapping"
  /\ fence_file[attached[p]] = seen[p]
  /\ fence_file' = [fence_file EXCEPT ![attached[p]] = epoch[p]]
  /\ Exit(p)
  /\ UNCHANGED <<now, log, puts, volume_id>>

\* Another process holds the lock of the directory, or has replaced the file:
\* the exchange answers false, and the loop reads again.  (The twentieth refusal
\* ends the boot, as Die may.)
PublishRetry(p) ==
  /\ pc[p] = "swapping"
  /\ seen' = [seen EXCEPT ![p] = 0]
  /\ pc' = [pc EXCEPT ![p] = "granted"]
  /\ UNCHANGED <<now, store, attached, vid, epoch, claim_started, grace_until,
                 wfence, dog, appending>>

\* Mutant of Grace: off by one, the first takeover does not wait.
GraceFromThird(e) == IF e > 2 THEN Lease + Margin ELSE 0

\* takeover_grace, which only a first epoch skips.
Grace(e) == IF e > 1 THEN Lease + Margin ELSE 0

\* The lease counts from claim_started; the watchdog starts; so does the wait.
EnforceLease(p) ==
  /\ pc[p] = "published"
  /\ lease_until' = [lease_until EXCEPT ![p] = claim_started[p] + Lease]
  /\ grace_until' = [grace_until EXCEPT ![p] = now + Grace(epoch[p])]
  /\ claim_started' = [claim_started EXCEPT ![p] = 0]
  /\ check' = [check EXCEPT ![p] = "idle"]
  /\ pc' = [pc EXCEPT ![p] = "grace"]
  /\ UNCHANGED <<now, store, attached, vid, epoch, seen, lost, started, newer,
                 failed, failures, appending>>

\* The sleep returns and the server opens its storage.
OpenWal(p) ==
  /\ pc[p] = "grace"
  /\ now >= grace_until[p]
  /\ pc' = [pc EXCEPT ![p] = "open"]
  /\ grace_until' = [grace_until EXCEPT ![p] = 0]
  /\ UNCHANGED <<now, store, attached, vid, epoch, claim_started, seen,
                 wfence, dog, appending>>

----------------------------------------------------------------------------
(* The watchdog *)

Alive(p) == pc[p] \in {"grace", "open"}

\* Stamp the start, then read the fence file (or fail to).
CheckFence(p, readable) ==
  /\ Alive(p) /\ ~lost[p]
  /\ check[p] = "idle"
  /\ started' = [started EXCEPT ![p] = now]
  /\ newer' = [newer EXCEPT ![p] = readable /\ fence_file[attached[p]] > epoch[p]]
  /\ failed' = [failed EXCEPT ![p] = ~readable]
  /\ check' = [check EXCEPT ![p] = "fence_read"]
  /\ UNCHANGED <<now, store, boot, wfence, failures, appending>>

\* Read the newest grant of the log; an error or a timeout is a failure.
CheckAuthority(p, answered) ==
  /\ Alive(p)
  /\ check[p] = "fence_read"
  /\ newer' = [newer EXCEPT ![p] = @ \/ (answered /\ Len(log) > epoch[p])]
  /\ failed' = [failed EXCEPT ![p] = @ \/ ~answered]
  /\ check' = [check EXCEPT ![p] = "answered"]
  /\ UNCHANGED <<now, store, boot, wfence, started, failures, appending>>

\* judge, and what the watchdog does with the verdict.
Fenced(p) == newer[p] \/ (failed[p] /\ failures[p] + 1 >= MaxFailedChecks)

\* Both sources answered, neither names a newer owner: renew from the start.
JudgeRenew(p) ==
  /\ ~newer[p] /\ ~failed[p]
  /\ lease_until' = [lease_until EXCEPT ![p] = Max({@, started[p] + Lease})]
  /\ failures' = [failures EXCEPT ![p] = 0]
  /\ UNCHANGED lost

\* A source failed: the lease runs down, until too many checks have failed.
JudgeHold(p) ==
  /\ failed[p] /\ ~Fenced(p)
  /\ failures' = [failures EXCEPT ![p] = @ + 1]
  /\ UNCHANGED wfence

JudgeFenced(p) ==
  /\ Fenced(p)
  /\ lost' = [lost EXCEPT ![p] = TRUE]
  /\ UNCHANGED <<lease_until, failures>>

Judge(p) ==
  /\ Alive(p)
  /\ check[p] = "answered"
  /\ JudgeRenew(p) \/ JudgeHold(p) \/ JudgeFenced(p)
  /\ check' = [check EXCEPT ![p] = "idle"]
  /\ started' = [started EXCEPT ![p] = 0]
  /\ newer' = [newer EXCEPT ![p] = FALSE]
  /\ failed' = [failed EXCEPT ![p] = FALSE]
  /\ UNCHANGED <<now, store, boot, appending>>

----------------------------------------------------------------------------
(* Appends, death, and the clock *)

\* ensure_owner
EnsureOwner(p) == ~lost[p] /\ now =< lease_until[p]

\* An append takes the lock and passes the fence check ...
AppendCheck(p) ==
  /\ pc[p] = "open" /\ ~appending[p]
  /\ EnsureOwner(p)
  /\ appending' = [appending EXCEPT ![p] = TRUE]
  /\ UNCHANGED <<now, store, boot, wfence, dog>>

\* ... writes, syncs, and returns Ok.
AppendReturn(p) ==
  /\ pc[p] = "open" /\ appending[p]
  /\ appending' = [appending EXCEPT ![p] = FALSE]
  /\ UNCHANGED <<now, store, boot, wfence, dog>>

\* process::exit(75) after mark_lost, or a crash of the process or its host.
Die(p) ==
  /\ pc[p] \notin {"off", "dead"}
  /\ Exit(p)
  /\ UNCHANGED <<now, store>>

Tick ==
  /\ now < MaxTime
  /\ now' = now + 1
  /\ UNCHANGED <<store, boot, wfence, dog, appending>>

Init ==
  /\ now = 0 /\ log = <<>> /\ puts = {}
  /\ volume_id = [v \in Volume |-> NoId]
  /\ fence_file = [v \in Volume |-> 0]
  /\ pc = [p \in Proc |-> "off"]
  /\ attached = [p \in Proc |-> CHOOSE v \in Volume : TRUE]
  /\ vid = [p \in Proc |-> NoId]
  /\ epoch = [p \in Proc |-> 0]
  /\ claim_started = [p \in Proc |-> 0]
  /\ seen = [p \in Proc |-> 0]
  /\ lease_until = [p \in Proc |-> 0]
  /\ lost = [p \in Proc |-> FALSE]
  /\ grace_until = [p \in Proc |-> 0]
  /\ check = [p \in Proc |-> "off"]
  /\ started = [p \in Proc |-> 0]
  /\ newer = [p \in Proc |-> FALSE]
  /\ failed = [p \in Proc |-> FALSE]
  /\ failures = [p \in Proc |-> 0]
  /\ appending = [p \in Proc |-> FALSE]

BootStep(p) ==
  \/ \E v \in Volume : Boot(p, v)
  \/ BindMatching(p) \/ BindFresh(p) \/ BindRefused(p)
  \/ ClaimList(p) \/ ClaimPut(p) \/ ClaimConflict(p) \/ PutError(p)
  \/ Reconcile(p) \/ ReconcileLost(p)
  \/ ReadFence(p) \/ PublishRefused(p) \/ PublishFence(p) \/ PublishFails(p)
  \/ PublishRetry(p) \/ EnforceLease(p) \/ OpenWal(p)

WatchdogStep(p) ==
  \/ \E readable \in BOOLEAN : CheckFence(p, readable)
  \/ \E answered \in BOOLEAN : CheckAuthority(p, answered)
  \/ Judge(p)

ServeStep(p) == AppendCheck(p) \/ AppendReturn(p) \/ Die(p)

Next ==
  \/ \E p \in Proc : BootStep(p) \/ WatchdogStep(p) \/ ServeStep(p)
  \/ \E r \in puts, answered \in BOOLEAN : PutCreates(r, answered) \/ PutConflicts(r, answered)
  \/ Tick

Spec == Init /\ [][Next]_vars

----------------------------------------------------------------------------
(* Properties *)

\* Type invariant of the epoch log, the volumes and the processes.
TypeOK ==
  /\ now \in Nat
  /\ log \in Seq(Grant)
  /\ puts \subseteq [nonce : Proc, volume : Proc, slot : Nat]
  /\ volume_id \in [Volume -> Proc \cup {NoId}]
  /\ fence_file \in [Volume -> Nat]
  /\ pc \in [Proc -> Pc]
  /\ attached \in [Proc -> Volume]
  /\ vid \in [Proc -> Proc \cup {NoId}]
  /\ epoch \in [Proc -> Nat]
  /\ claim_started \in [Proc -> Nat]
  /\ seen \in [Proc -> Nat]
  /\ lease_until \in [Proc -> Nat]
  /\ lost \in [Proc -> BOOLEAN]
  /\ grace_until \in [Proc -> Nat]
  /\ check \in [Proc -> {"off", "idle", "fence_read", "answered"}]
  /\ started \in [Proc -> Nat]
  /\ newer \in [Proc -> BOOLEAN]
  /\ failed \in [Proc -> BOOLEAN]
  /\ failures \in [Proc -> Nat]
  /\ appending \in [Proc -> BOOLEAN]

\* Once a process has opened the WAL, no process of an older epoch passes
\* ensure_owner any more, paused, partitioned or late as it may be: its last
\* good check started before the newer claim landed, so its lease has run out
\* before the newer owner's takeover wait ends.
OneWriter ==
  \A p, q \in Proc :
    (pc[p] = "open" /\ pc[q] = "open" /\ EnsureOwner(q)) => epoch[p] =< epoch[q]

\* The states in which a process believes it holds its epoch.
Owns(p) == pc[p] \in {"granted", "swapping", "published", "grace", "open"}

\* No epoch belongs to two processes, and the slot of a process's epoch holds
\* its own claim, whichever answers were lost on the way (acquire_next takes a
\* conflict for a win only on its own nonce).
EpochsUnique ==
  \A p \in Proc : Owns(p) =>
    /\ epoch[p] \in 1..Len(log)
    /\ log[epoch[p]].nonce = p

\* The strengthening of OneWriter that is inductive, in four parts.  A put in
\* flight asks for the next slot at most, and for its sender's epoch.
PutsInOrder ==
  /\ \A r \in puts :
       /\ r.slot \in 1..(Len(log) + 1)
       /\ pc[r.nonce] \notin {"off", "id_read", "bound", "claiming"}
       /\ pc[r.nonce] = "put" => r.slot = epoch[r.nonce]
  /\ \A p \in Proc :
       /\ pc[p] \in {"bound", "claiming"} => vid[p] # NoId
       /\ pc[p] \in {"claiming", "put", "reconcile"} => epoch[p] \in 1..(Len(log) + 1)

\* Nothing is stamped in the future.
StampsPast ==
  /\ \A e \in 1..Len(log) : log[e].at =< now
  /\ \A p \in Proc : /\ claim_started[p] =< now /\ started[p] =< now
                     /\ lease_until[p] =< now + Lease

\* A claim, a good check and a lease all began before any newer claim landed.
LeaseBeforeNewer ==
  \A p \in Proc, e \in 1..Len(log) :
    /\ (pc[p] \in {"claiming", "put", "reconcile"} /\ e >= epoch[p]) =>
         claim_started[p] =< log[e].at
    /\ (pc[p] \in {"granted", "swapping", "published"} /\ e > epoch[p]) =>
         claim_started[p] =< log[e].at
    /\ (Alive(p) /\ e > epoch[p]) =>
         /\ lease_until[p] =< log[e].at + Lease
         /\ (check[p] = "answered" /\ ~newer[p] /\ ~failed[p]) =>
              started[p] =< log[e].at

\* A takeover ends no sooner than one lease and the margin after its claim.
WaitedOut ==
  \A p \in Proc :
    (Alive(p) /\ epoch[p] \in 2..Len(log)) =>
      (IF pc[p] = "open" THEN now ELSE grace_until[p])
        >= log[epoch[p]].at + Lease + Margin

\* What publish_fence read and means to replace is an older epoch.
SeenOlder == \A p \in Proc : pc[p] = "swapping" => seen[p] < epoch[p]

\* The inductive invariant: why OneWriter holds.  A newer claim lands after the
\* start of every check that did not see it, and its owner waits longer than
\* the lease such a check could have renewed.
EpochInv == /\ TypeOK /\ EpochsUnique /\ PutsInOrder
            /\ StampsPast /\ LeaseBeforeNewer /\ WaitedOut

\* A step moves every fence file forward or not at all.
ForwardOnly == \A v \in Volume : fence_file[v] =< fence_file'[v]

\* The fence file of a volume never goes back to an older epoch: a process that
\* read it, was overtaken by the newer owner's publication and then swaps finds
\* another value than it read (publish_fence and compare_exchange_file).
FenceMonotone == [][ForwardOnly]_vars
============================================================================
