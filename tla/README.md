# ProximaDB: a TLA+ verification project

ProximaDB keeps one governed record and serves it over SQL, REST and gRPC. What
makes it a database is a small durable core: a canonical write-ahead log (WAL)
on a local or reattachable volume, the change feed and the truncator that run
beside it, the record tier above it, and the protocol that decides which process
may write to the volume. Beside it stand a durable message queue and the leases
that decide which pod of a cluster may write to a collection. This project models
these parts in TLA+, checks them with TLC, and proves their safety with TLAPS for
any number of processes, entries, messages and crashes: the durability of the log
and its refinement of an abstract one, the reads beside it, the truncator's floor
argument, the exclusion of a second writer, the queue's consumers and store, and
the fencing of the leases. What needs fairness is checked only. Paths below are
relative to the repository root.

## Inventory

| Part | State | Operations | Hard behaviour |
|---|---|---|---|
| canonical WAL (`src/services/canonical_wal.rs`) | active file, sealed segments, floor marker; sequence, high-water marks, segment list, rotation generation, pins, poison flag | append (single or group frame), rotate, truncate, pin, fence branches, raise the sequence floor, open | crash or power loss between any two file operations; failed write, sync, roll-back, rename, marker sync; an append's future dropped at an await |
| change feed (`read_entries_since`, `src/services/record_store.rs`) | one read's round, listed files, rows so far | check retention, fast path, optimistic rounds, locked round | lock-free reads under rotation and truncation; starvation |
| WAL truncator (`src/services/wal_truncator.rs`) and its sources | the floor composed so far | ask each source in order, truncate | every answer is stale when the next one is asked |
| record tier (`src/services/record_store.rs`) | resident and flushed rows, in-flight reservations, poison flag | reserve, append, apply, release; flush; capture a snapshot LSN | append and apply are two steps; apply may fail; the caller may go away |
| function store (`src/services/function_store.rs`) | live definitions, write gate | put, remove, checkpoint, replay | checkpoint races put and remove |
| snapshot publisher (`src/services/dml/mod.rs`) | captured LSN, pin, published LSN | capture, scan, publish, unpin | publication races the truncator |
| writer epoch and fence (`apps/proximadb-server/src/writer_epoch.rs`, `src/cluster/writer_epoch.rs`, `src/services/writer_fence.rs`) | epoch log, volume identity, fence file, lease, lost flag | bind, claim, reconcile, publish, wait, check, judge, append check | lost and late answers, pauses, crashes, clocks |
| queue consumers (`crates/horizontal/proximadb-queue/src/{leases,offset_store,consumer}.rs`) | lease file, offset file; per consumer a tracker, a renewer task, a usable flag | subscribe, poll, ack, nack, renew, release, shutdown, drop | exchanges that run after their caller was cancelled, take-over between a read and an exchange, loss noticed late |
| queue store (`.../{producer,disk_tier,fs,group_commit,memory_tier,object_tier,reaper,recovery}.rs`) | segment files, archive copies, markers; memory tier, group-commit queue | send, drain, upload, scan, reap, open | writes done behind the append that returned, concurrent sends out of offset order, power failure, deletion by stale knowledge |
| partition leases (`src/cluster/partition_lease.rs`, `recovery_token.rs`, `write_lease.rs`) | lease log; per pod binding, incarnation, token state | claim, resolve a conflict, begin an incarnation, renew, check, allocate a token | two claims of one pod, half-failed puts, old clock readings, restarts under one name |

How they interact: every durable write goes through `append_entries`, which holds
`append_lock` from the fence check to the return. Rotation runs inside an append.
Truncation and pinning take the same lock. The change feed takes no lock and
relies on a seqlock generation. The truncator combines answers from the record
tier, the catalog and the checkpointing stores, then calls `truncate_below`. The
writer fence is set by the epoch watchdog and read by each append. The queue keeps
its own files; its consumers and its store share the offset files, which the
reaper and the recovery read. A pod's write gate takes the collection's lease
before a write, and the engine WAL stamps each batch with a token of the pod's
incarnation.

Other parts of the repository (record spill partitions, atomic transactions, the
system catalog, branch bases, the engine WAL, two-phase commit, circuit breaker)
are listed in `PROJECT.json` with their status; engines,
indexes, query planning, protocols and user interfaces are outside the project.

## Modules

### `CanonicalWal`

One process and one directory. The holder of `append_lock` is a program counter
`pc`; each file operation and each publication to a lock-free reader is a step.

* Files. A file is the set of entries of its complete frames (frames are
  appended in sequence order) plus a `tail`: nothing, an incomplete frame, a
  whole summary section, part of one, or a section or torn frame with more bytes
  *behind* it (`buried`), which no decoder passes. `unsynced` holds entries no
  `sync_data` has covered. A segment records whether it decodes (`good`).
* Append: `AppendStart`, `AppendWrite`/`AppendWriteFails`,
  `AppendSync`/`AppendSyncFails`, `RollBack`/`RollBackFails`,
  `PublishSequence`, `PublishHighWater`, `ObserveActive`. Errors that return
  before any byte is written change nothing and are not steps.
* Rotation: `RotateWriteSection` or `RotateSkipSection`, the three ways writing a
  section fails, `RotateRename`/`RotateRenameFails`, `RotatePush`, `RotateEnd`.
* Truncation: `TruncateStart` (pins, branch fence, victims, marker),
  `TruncateDrain`, `TruncateDelete`, `TruncateEnd`.
* Crash: `ProcessCrash` keeps the page cache; `PowerLoss(k)` keeps a prefix of
  the unsynced bytes. `RecoverSeal` and `Open` are boot.
* Cancellation: `CancelAppend`. The PostgreSQL front end wraps statements in
  `tokio::time::timeout` (`src/network/postgres/protocol.rs`), and dropping the
  future releases the lock without running the rest of the append.

Faults after which some property no longer holds are switched on by constants
(`RenameFaults`, `SectionMayTear`, `SectionFaults`, `MarkerSyncMayFail`,
`CallerMayCancel`), so that each run says under which faults its properties hold.

A directory sync that `open` or the rotation ignores is taken to succeed, and a
rename is atomic. A summary trusted at boot is identified with the set of entries
it was built from. The byte codec, CRCs and quarantine files are left out.

### `DurableLog`

What a write-ahead log promises, without files, locks or crashes: stored entries
that no failure takes, the entries a caller was told of, and a floor up to which
entries may be forgotten. `CanonicalWal` instantiates it: `stored` is what the
next `open` would decode after the worst power loss, `acked` the acknowledged
entries, `floor` the floor marker. `ImplementsDurableLog` is checked as a property
of `WalTrailer`: every step of the files, every crash and every recovery is a step
of the abstract log, or none. `CanonicalWalProofs` proves it.

### `ChangeFeed` (extends `CanonicalWal`)

One reader beside the whole WAL: `FeedStart` (`ensure_history_retained`),
`FeedFastPath`, then rounds of `FeedPoll`, `FeedList`, `FeedFlagActive`, one
`FeedReadSegment` per file, `FeedReadActive` and `FeedRecheck`, and after
`MaxRetries` rounds `FeedReadLocked`. A crash of the process ends the read.
`ChangeFeedProofs` holds the theorems.

### `WalTruncator`

The WAL is reduced to the contract `CanonicalWal` is checked for: increasing
sequences, durability on return, pins, and removal of some prefix below a floor.
Row writers, flushes, the function store, the snapshot publisher and `run_once`
interleave. `reserve_inflight` is two steps (read the head, insert), as in the
code. `FlushRows` stands for a partition flush: resident rows become durable in a
segment. The truncator asks its sources in the order the server registers them
(record tier, retention, snapshots, then the appending sources). The function
checkpoint stands for the appending sources; the rank-profile checkpoint has the
same form, and the branch-merge-base checkpoint is not modelled.
`WalTruncatorProofs` holds the theorems.

### `WriterEpoch`

Any number of boots (`Proc`) on any volumes. The epoch log is a sequence of
grants; a create-only put is a message in `puts` that may land late, after its
sender died, or with its answer lost. `at` in a grant records when it landed, for
the argument only. Time is one discrete clock: monotonic `Instant`s measured at
the same rate on every host. A pause is the clock moving while a process takes no
step. `WriterEpochProofs` holds the theorems.

`publish_fence` is its loop: `ReadFence` keeps what the file held in `seen`,
`PublishFence` replaces the file only if it still holds that, `PublishRetry` is an
exchange that answered false (the file changed, or another process has the lock of
the directory) and `PublishFails` one that replaced the file and then failed.
Another process may publish between the read and the exchange.

### `QueueLease`

One consumer group on one partition. A consumer's tracker mutex is a program
counter per consumer; each read of a file and each compare-and-exchange is a step.
An exchange may answer truly, find the directory lock busy, give up, or fail
before or after the file was replaced (`Outcome`). `Cancel` drops a caller's
future: its exchange stays in `orphans` and may run at any later time, because it
runs on a blocking thread. `Die` ends a consumer's process. The renewer's check of
`usable` and its wait for the tracker are two steps, as in the code. `done` is
history: offsets whose last word from the application was an ack.
`QueueLeaseProofs` holds the theorems.

### `QueueStore`

One partition in the strict mode. A send is `Send` (reserve an offset), `AppendFrame`
or `AppendFails`, `Enqueue` (memory tier and group-commit queue) and the answer of the
drain task (`DrainTake`, `DrainSync`, `DrainFails`). Whether a frame fits its segment is
a matter of its length, and any choice.

An append does not write. `LocalFs::append` (`fs.rs:105-117`) hands the bytes to a
blocking thread through a tokio `File` and drops the `File` without a flush: the write
is a step of its own, `WriteLands` or `WriteFails`, at any later time, and its error
reaches nobody. The server's adapter on local files (`queue_fs_adapter.rs:327-339`,
`filesystem/local.rs:891-909`) ends its append with `sync_all` on the same `File`,
which waits for the write and still does not return its error; the wait is under the
writer's lock. `AppendWaits` tells the two apart. The run has it `FALSE`: writes may
then be done at once too, so it covers both. `AppendSyncFails` is the failure of the
adapter's own sync. `astray` is history: sends whose write failed, or was done after the
sync that acknowledged them, after the copy of their segment or after its deletion.

`Upload`, `ReapScan` and `Reap` are the background tasks; what a scan read is kept in
`scan` and used later. `Crash` keeps what was written, `PowerFailure` a prefix of the
unsynced frames; writes on their way are done before or never, or are cut where
`TornTails` allows. `Open` is recovery: replay above the least commit, the next offset
and the next segment. Consumer groups are their committed offset and a cursor;
`QueueLease` has the protocol that moves them. `QueueStoreProofs` holds the theorems.

### `PartitionLease`

The lease of one collection, for any number of pods. Each task of a pod (requests
and the renewal loop) is a call with a stage: read the log, commit the next version,
lose and resolve, act on the outcome. `goal` says what the claim is for, which
decides `AlwaysBump` and what the outcome changes. `ClaimFails` is an error of the
object store or the renewal's timeout, after which the put may have landed.
`Allocate` gives the batch its token, with the clock of that moment. `Restart`
forgets the caches and keeps the pod's name, and the binding where the registry is
persisted. `PartitionLeaseProofs` holds the theorems.

All pods read one clock, and a claim goes on with the reading its call began with
for at most `Stall`: without such a bound nothing can be said about when a
displaced pod stops.

## What is checked

Each run asks one question; bounds are the constants in its `.cfg`.

| Run | Result | Question |
|---|---|---|
| `WalTrailer` | holds | Does the WAL implement `DurableLog` with and without summary sections, under failed writes, syncs, plain renames and markers, every branch fence, crashes and power failures? Are sequences never reused, groups atomic, the list true to the disk, the retained history gap-free, can `open` open after a crash at any step (a torn, unsynced section excepted), is the generation even when the lock is free, and is the lock always released? |
| `WalFaults` | holds | With cancelled appends and every fault of the section and the rename on, is a pin still honoured? |
| `FeedReads` | holds | Does a lock-free read return each acknowledged, retained row exactly once, never fail on healthy files, and end? |
| `TruncateRows` | holds | Is a row's WAL entry removed only when the row is in a segment, and does replay rebuild the function store? |
| `TruncateSnapshots` | holds | With cancelled writes, puts and removes in between: does the snapshot of an unpoisoned store contain every *acknowledged* row up to its LSN, is its delta kept while pinned, and is every live definition in the log? (Cancelled rows: see below.) |
| `EpochOneWriter` | holds | Is there one writer, one owner per epoch, and does the fence file only move forward? |
| `QueueLease` | holds | Is the committed offset exactly the progress of the lease's holder, was every committed message acknowledged, is a valid lease never taken away, does progress never go back, and does a displaced consumer find out? |
| `QueueStore` | holds | Does an acknowledged message survive, is it replayed to every group that owes it, and is no offset used again behind a group's back? All but the messages of two kinds the code loses: see `astray` and `Misplaced` below. |
| `PartitionLease` | holds | Do generations fence, do epochs belong to one pod, is ownership always committed, and does a displaced pod stop issuing tokens? |
| `WalRenameFails` | fails | Does a failed rename leave everything readable, as its comment says? With sections on, the next append lands behind the section. |
| `PublishedDelta` | fails | Is the delta of a published snapshot kept? Not when it is published and unpinned between the truncator's question and its truncation. |
| `LeaseTokens` | fails | Are tokens unique over restarts? Not when the claim of a restarted pod loses its put to the renewal of its own persisted binding and adopts that lease. |

The `findings` of `PROJECT.json` quote the comment each failing run is about.

### What does not hold under which fault

The models show more than the failing runs record. A line that names a constant is
reproduced by changing it in the `.cfg` of the run it names:

* `SectionMayTear = TRUE` in `WalTrailer` breaks `AckedDurable` and the refinement:
  a power failure before the section's `sync_data` can leave part of a section in
  the active file, which `open` refuses rather than cuts, against
  `src/services/canonical_wal.rs:932`, which has the active file's torn tail
  repaired. `CrashLeavesOpenable` names this one failure (`TornSection`) and holds
  with it on.
* `SectionFaults = {"open"}` there breaks `AckedDurable`: an error from the open
  in `append_summary_trailer` is paired with the length 0, and the roll-back
  empties the active file.
* `MarkerSyncMayFail = TRUE` in `WalFaults` breaks `PinnedHistoryKept`: a truncation that
  returns the error of the marker's directory sync has recorded its floor without
  raising `retained_from`, and a later pin below it is granted.
* `CallerMayCancel = TRUE` in `WalTrailer` breaks `ListMatchesDisk` and
  `AckedDurable` (a write that failed part way is not rolled back, and the next
  append lands behind it) and `GenerationSettles` (a rotation that never ends leaves
  the generation odd, and every reader on the locked path).
* `CallerMayCancel = TRUE` in `TruncateRows` breaks `RowsNeverLost`: a write
  dropped after its append has released its reservation, and nothing holds its
  entry, although `src/services/record_store.rs:266` says a reservation keeps it.
  The same row is missed by a snapshot: captured after the reservation was dropped,
  the LSN is not lowered below the row, the scan does not see it, and a restart
  replays it, so it is in neither the snapshot nor the delta, against
  `src/services/record_store.rs:3483-3485`. `SnapshotCoversItsLsn` is therefore
  stated of acknowledged rows, and no property covers the cancelled ones.
* A truncation between `ensure_history_retained` and the read makes the feed return
  the retained suffix with `Ok`; `src/services/record_store.rs:2910` promises an
  error rather than partial history. `FeedComplete` is stated for what was not
  truncated meanwhile.
* A group of the queue may pass a message for ever: its producer is between append
  and enqueue, and `read_from` skips to the first entry behind the cursor, against
  `memory_tier.rs:14-16`. The properties speak of what is durable and replayed.
* `astray` in `QueueStore` exempts one case. With `LocalFs` a send may be acknowledged
  before its bytes are in the file, or although they never will be: `append` returns
  when the write is handed out, the group commit syncs through another handle, and a
  write error is dropped with the `File`. So may the reaper delete, or the uploader copy,
  a sealed segment that a write is still on its way to. This is against `producer.rs:27`
  ("Strict mode blocks until the message is on disk (group-commit fsync) before
  returning") and `recovery.rs:15-17`. Without the exemption TLC finds the loss for
  each of the three properties. With the server's adapter (`AppendWaits = TRUE`) only
  the lost error remains, and with `WritesMayFail = FALSE` too nothing is astray
  (`WaitingSendsSurvive`).
* `Misplaced` in `QueueStore` exempts another. Offsets are reserved before the
  writer's lock, so a segment's last frame need not have its highest offset, which
  `reaper.rs:194` says it has. Without an archive the reaper may then delete a
  message no group has read, and a restart may give its offset away.
* `TornTails = "any"` breaks `AckedSurvives`: a segment whose *first* frame is torn is
  not moved past by recovery (`disk_tier.rs:152-156`), and later frames lie behind
  bytes no reader gets past.
* In the queue, a message may be delivered before its sync, be lost to a power
  failure, and its offset used again; a memory tier full of uncommitted messages
  makes every later `open` fail; `trim_below` has no caller outside tests; topics
  created on first use are not recovered (`lib.rs:327-367`). The properties make no
  promise in these cases.
* Two incarnation claims of one process (two requests, which the run does not have)
  may register in another order than they were granted; `is_fenced_out` lets a
  displaced writer pass once its successor's lease has expired too. Neither is
  covered by a property yet.
* The writer fence is checked before the write only: `LoseOwnership` may come
  between `AppendStart` and the acknowledgement, and in `WriterEpoch` an append
  paused behind `AppendCheck` returns after a newer owner has opened the WAL.
* `bind_volume_identity` compares the volume with the log before the claim, and
  `OpenWal` looks at neither the fence nor the lease after the takeover wait;
  `OneWriter` depends on neither.

### Bounds

`WalFaults` has two sequences and a segment per entry, so that every append
rotates. In the other WAL runs, three or four sequences with a segment threshold of two give a sealed segment, a
second one or a non-empty active file, and a group frame of two; that is enough
for a rotation during a read, a truncation of one segment of two, and a crash at
every step of each. More entries repeat the same shapes. The rotation generation
is not bounded: the number of rotations between crashes is limited by the
sequences. The feed has two rounds (`MaxRetries`), so that the locked round is
reached. The truncator has two writers, enough for one in flight below another;
`MaxSeq` 3 or 4 leaves room for a checkpoint entry above two rows. The epoch runs
have two boots, lease 1, margin 1 and three ticks: enough for a takeover whose wait
ends.

`QueueLease` has two consumers, two messages and two ticks with a lease of one:
a takeover, an ack out of order, and a late exchange of the displaced consumer all
happen. Its clocks agree (`Skew` 0); with `Skew` 1 and no tick the same properties
hold on 404,003 states, which takes TLC too long for a routine run. Its `VIEW`
leaves out the variables of a call that is over. `QueueStore` has two senders,
two groups, a memory tier of one or two, one failure and two ends of the process, with
frames that fit or do not: a rotation, a full tier, an upload, a reap and two frames out
of the order of their offsets happen before and after a crash, and so do writes that
come behind their sync or fail.
`PartitionLease` has two pods with a request and a renewal loop each, lease 1,
`Stall` 1, three versions (no claim begins behind the last one), two calls at a time
(`MaxCalls`), one restart and one token; what more pods, claims and versions could do is covered by the proofs.
`LeaseTokens` has one pod and two tokens. `CHECK_DEADLOCK` is off in the epoch,
queue and lease runs, where the clock, the messages or the versions run out and
every process may have ended. The other runs check deadlock.

### Fairness

`WalTrailer` (for `LockReleased`) assumes weak fairness of the lock holder's steps:
under the lock the code waits on file operations only, which return or fail.
`FeedReads` (for `FeedTerminates`) adds weak fairness of the reader and strong
fairness of its locked round: tokio's mutex is first-in first-out, so a waiting
reader is served. `QueueLease` (for `LossIsNoticed`) assumes weak fairness of each
consumer's running steps: the file operations of a call in progress, the wake-up of
the renewer task by its interval and its turn at the tracker. Nothing is assumed about clients, crashes or recoveries.

## What is proved

Every invariant and every action property of a passing run is also a theorem, for
every value of the constants that the named assumptions allow, and so is the
refinement. A property that some fault breaks is proved under the hypothesis that
the fault does not happen; the hypothesis is in the statement, and "What does not
hold under which fault" says what happens without it. Each inductive invariant was
checked by TLC as an invariant of the run's instance, or of one with smaller
bounds, before it was proved.

### The writer's epoch

`WriterEpochProofs` proves, for every set of processes and volumes, every lease
and every positive margin (`TimingAssumption`, `ProcAssumption`):

* `TypeCorrect`: `Spec => []TypeOK`.
* `EpochsAreUnique`: `Spec => []EpochsUnique`.
* `OneWriterHolds`: `Spec => []OneWriter`, that is, once a process has the WAL
  open no process of an older epoch passes `ensure_owner`.
* `FenceIsMonotone`: `Spec => FenceMonotone`, an action property: no step takes a
  fence file back. `SeenOlder` carries it: what `publish_fence` read and is about
  to replace is an older epoch, and the exchange stores only over what was read.

`OneWriter` is not inductive: nothing in it says why an old lease has run out.
`EpochInv` adds the reason in four parts. `PutsInOrder`: a put in flight asks for
the next slot at most, so a landed put has its sender's epoch. `StampsPast`: no
stamp is in the future. `LeaseBeforeNewer`: claims, good checks and leases of a
process all began before any newer claim landed, because a check that renews has
read the log after its start stamp and seen nothing newer. `WaitedOut`: a takeover
opens no earlier than a lease and the margin after its own claim landed. The old
lease ends at most one lease after the newer claim; the new owner waits longer.
The margin must be positive because `ensure_owner` still accepts at the very instant of expiry.

### The truncator

`WalTruncatorProofs` proves, for every set of writers and definitions, every
retention and every flush lag (`TruncatorBounds`):

* `TypeCorrect`: `Spec => []TypeOK`.
* `CapturedDeltaIsKept`: `Spec => []CapturedDeltaKept`. The strengthening is that a
  capture in progress has its pin in `pins` (`PinHeld`); `pin_history` refuses a
  floor that is already gone, and `truncate_below` never passes the lowest pin.
* `RowsAreNeverLost`: `Spec => []RowsNeverLost` under the assumption
  `~CallerMayCancel`, without which it does not hold (above). `RowsInv`
  adds the reason. `WritesInOrder`: an entry lies above the head its write read,
  and a failed apply has poisoned the store. `RowsLocated`: a row of the log is in
  a segment, in a partition, in the hands of its write, or behind the poison.
  `FloorKnown`: after the in-flight question each row up to the head is in a
  segment or will be seen by the unflushed question, and after that one each row
  below the floor is in a segment. This is where the order of the two questions
  matters: asked the other way round, a write applied in between is seen by
  neither.
* `LiveDefinitionIsKept`: `Spec => []LiveDefinitionKept`, cancellation included. A
  put has its entry in the log before the live definition changes, so `LiveInv`
  speaks of both the live definition and the one being put, and of the floor a
  truncation that is past its checkpoint will use.
* `FunctionsDoSurvive`: `Spec => []FunctionsSurvive` under `~CallerMayCancel`.
  `SurviveInv`: the last definition entry above what is gone is the store's, and a
  truncation past its checkpoint leaves some definition entry above its floor.
* `SnapshotCovers`: `Spec => []SnapshotCoversItsLsn`: acknowledged rows of an
  unpoisoned store, whatever other writes are cancelled.
  `CoverInv`: from the capture on, every write that may still be acknowledged has an
  entry above the captured LSN, because the capture lowers it below every
  reservation; so what is acknowledged below it was there to be scanned. It needs `SettlingKnown`, the part
  of `RowsInv` that stays true of writes nobody cancelled.
* `AckedRowsAreKept`: a row whose write returned success is removed from the log only
  once it is in a segment, also when other writes are cancelled. This is what is left
  of `RowsNeverLost` without its hypothesis: only rows whose write never returned
  success may be lost.

### The canonical WAL

`CanonicalWalProofs` proves, for every set of operations, collections and batches,
every segment size and any number of sequences and pins (`BoundAssumption`,
`SegmentAssumption`, `OpAssumption`, `FenceAssumption`, `GateAssumption`):

* `TypeCorrect`: `Spec => []TypeOK`, under every fault of the model. What is not
  obvious in it is that a rotation, and a boot that completes one, always has a
  first sequence to name the file by (`TypeInv`, `Anchored`).
* `GenerationEven`: `Spec => []GenerationSettles` under `~CallerMayCancel`
  (`ParityInv`: the generation is odd exactly at the steps where list and disk may
  disagree).
* `PinsHold`: `Spec => []PinnedHistoryKept` under `~MarkerSyncMayFail`, with
  cancellation and all other faults (`PinInv`: the marker is below the retained floor
  except between the marker and the drain).
* `AckedStaysDurable`, `SequencesUnique`, `GroupsWhole`, `ListIsDisk`,
  `HistoryGapFree`: the invariants `AckedDurable`, `SequenceNeverReused`,
  `GroupAllOrNothing`, `ListMatchesDisk` and `RetainedGapFree`, and
* `LogRefinement`: `Spec => ImplementsDurableLog`, under `Faultless`.
* `CrashOpenable`: `Spec => CrashLeavesOpenable`, an action property, under
  `NoneLeftBehind`, so with power failures that tear a section: files that `open`
  would accept are accepted after a crash at any step that is not such a tear. The
  proof carries `IInv` up to the tear, behind which the log stays refused.

`NoneLeftBehind` says that no append is cancelled, writing a section does not fail, and
a rename does not fail behind one; `Faultless` adds that no section is torn by a power
failure. Failed writes,
syncs, roll-backs, plain renames, markers and deletes, crashes and power failures at
every step stay in. Each of its four parts is necessary: without it one of these properties
fails (above).

`IInv` is one invariant for all of them. `Files` orders the disk: sealed files hold
whole groups in the order of their sequences, the active file is behind them, what is
not synced is behind what is, and the floor marker never cuts a file. `Tails` says
what may follow the frames of the active file at each step, `BatchOK` and `Numbered`
that the append in progress has numbers of its own above all others, `SummaryOK` that
the running summary is the active file but for that append, `ListOK` that the list
names files that are there, `VictimsOK` and `RetainedOK` what a truncation in progress
still owes to disk and memory. `AckedOK` is `AckedDurable` made inductive: an
acknowledged entry that is not durable is below the marker *and* below everything
still listed, so that no later truncation writes a lower marker over it. The proof of
the refinement classifies each step by what it does to the durable entries
(`DurableStep`: nothing, new whole groups, unacknowledged entries lost, or entries
below the floor deleted), which are the steps of `DurableLog`.

### The change feed

`ChangeFeedProofs` proves, on top of `IInv` and so under `Faultless`, for any number
of rounds:

* `FeedIsComplete`, `FeedHasNoDuplicates`, `FeedDoesNotFail`: the invariants
  `FeedComplete`, `FeedNoDuplicates` and `FeedNeverFails`.

`FeedInv` adds to `IInv` and `ParityInv` that the high-water marks cover what is
acknowledged (`HighWater`, for the fast path) and what a round knows (`RoundOK`): as
long as the generation is the even one the round began with, its list is the list, the
files it has still to read are there, what it owes is in what it has read or in what
it will read, and what it has read is in files it will not read again. Appends go on
beside such a round, so the last two cannot say more than that. A round whose
generation has moved promises nothing and its result is thrown away.

### The queue's consumers

`QueueLeaseProofs` proves, for any number of consumers and messages, any batch, lease
time, skew and clock bound (`MessagesAssumption`, `ClockAssumption`,
`NoLeaseAssumption`):

* `TypeCorrect`: `Spec => []TypeOK`; `ProgressMonotone`: `Spec => OffsetMonotone`;
  `ValidLeaseStays`: `Spec => ValidLeaseKept`. They rest on `Control`: what a call in
  progress knows (`CallOK`) and what an exchange left behind by a cancelled call can
  still do (`OrphanOK`: its consumer is refused for good, and what it replaces was
  its own or had expired).
* `ProgressOfHolder`: `Spec => []ProgressIsHolders` and `OnlyAckedCommitted`:
  `Spec => []CommittedWasAcked`. `IInv` adds that a tracker's messages are a window up
  to its cursor (`TrackerOK`), that the window of the lease's holder starts behind the
  committed offset and its marks are the application's last word (`HolderOK`), and that
  what a late commit of the holder would publish was acknowledged (`LateOK`).

### The queue's store

`QueueStoreProofs` proves, for any finite set of senders, any groups, capacity, lengths of
frames, batch, failures and crashes, for appends that wait and appends that do not (`BoundsAssumption`, `ModeAssumption`,
`SenderAssumption`, `TornAssumption`):

* `TypeCorrect`: `Spec => []StoreTypeOK`, with torn frames of every kind. `TInv`: every
  offset is due to some send and every segment to some send or restart, which bounds
  both by counting.
* `AckedDoSurvive`, `RecoveryIsComplete`, `NextIsAbove`: the invariants `AckedSurvives`,
  `RecoveredComplete` and `NextAboveProgress`, under `TornTails # "any"`, because a torn
  first frame does break the first (above). Misplaced and astray messages are exempt in
  all three, as in the properties.
* `WaitingSendsSurvive`: `Spec => [](AckedSurvives /\ astray = {})` under `AppendWaits`,
  `~WritesMayFail` and `TornTails # "any"`: the exemption of astray messages is empty for
  the server's adapter while writes succeed. `Waits`: a write still to be done is into the
  active segment, and its send has not gone on; what is active is neither reaped nor
  archived.

`SInv` says why. `FilesOK`: frames are what their senders wrote, and those that lie out
of the order of their offsets are known to be exposed; a frame whose write is still to be
done is nowhere yet, and what it goes behind is not torn. `Top` and `Archived`: nothing is
reaped, archived or written past the highest segment, and a marked segment is in the
archive as far as it is still there and was written in time. `SendsOK`: what each step of a send has already put
on disk and into memory. `OffsetsApart`: sends that are live or have their write to come
have different offsets. `LastCounts`
is the part one would not guess: an offset of a message lost to a crash may be used again
while the lost frame is still in a file, and a replay that keeps the last frame of an
offset is right because the frame of the acknowledged message is always in a later
segment. `ProgressOK`: groups commit what was delivered to them, and what was let go is
below every commit of the time.

### The leases

`PartitionLeaseProofs` proves, for every set of pods and requests, every positive
lease time and every `Stall` (`LeaseBounds`, `NoPodAssumption`):

* `TypeCorrect`: `Spec => []TypeOK`.
* `GenerationsFence`: `Spec => []TakeoverBumps`.
* `OwnershipIsCommitted`: `Spec => []OwnershipCommitted`.
* `EpochsOfOnePod`: `Spec => []EpochOfOnePod`.
* `DisplacedStops`: `Spec => DisplacedPodStops`, an action property.

A claim is decided in one step, put in another and acted upon in a third, so the
properties alone are not inductive. `LeaseInv` adds what carries them across:
`ClaimsSound` (what is ready to be put is the pod's own and fences the version it
was decided on; what was won is in the log) and `TokensCommitted` (a token's epoch
is a generation of its pod's lease). The create-only put is what makes it work: a
decision is put only behind the very version it was made on (`PutFences`), and no
version is ever changed (`LogGrows`). `TimeInv` adds the clock for the last theorem:
clock readings are at most `Stall` old (`ClaimsFresh`), a takeover waits for the
expiry of the version it goes behind and a later version undercuts an earlier one
by at most `Stall` (`LogTimed`), and a live token state has the expiry of a
committed lease of its epoch (`TokenTimed`). A token is issued before that expiry,
which the taken-over version undercuts by at most `Stall`. The bound is stated for
the version that displaced the pod: a later version of the successor may itself
carry an older clock reading.

### What is only model-checked

The liveness properties `LockReleased`, `FeedTerminates` and `LossIsNoticed`: temporal
reasoning under fairness and `ENABLED` are out of this prover's reach. The findings are
counterexamples of TLC. The implication from `Faultless` to the properties is proved;
that each part of `Faultless`, and `TornTails # "any"`, is needed, was seen in TLC
traces.

`MinMaxLemmas` has what several proofs need of minima and maxima of sets of naturals:
those of arbitrary sets come from the library's well-foundedness of `<`.

## What is not modelled

The byte-level codec and checksums; the in-memory appender used by tests; offline
rewriting of the log; the tenant dimension of the feed (an entry's tenant and
collection are one value); several readers at once (they share no state);
clock-rate differences between hosts, and any clock difference between pods; the
versioned head format of the manifest committer; the lazy mode of the queue, its
partitioner, object-store backends under it, directory syncs its code does not do, a
frame of more than 2 MiB (which a tokio `File` writes in several pieces), a new segment
whose file is there although its creation failed, and, unless `TornTails` is `"any"`, a
failing write that leaves part of its frame; in the leases, DML row and
table locks with their tombstones, an operator's assignment of a collection, the
storage write fence, and puts that land after their caller gave up *and* went on;
and the components with status `not_modelled` in `PROJECT.json`.

Most of the repository is outside for good: of its 1.4 million lines, generated
protocol code, clients, vector indexes, query planning and protocol front ends are
either translation without state or numeric and codec work, which neither TLC nor
TLAPS says anything about.

## Plan

Done: `CanonicalWal` with its refinement of `DurableLog`, `ChangeFeed`,
`WalTruncator`, `WriterEpoch`, `QueueLease`, `QueueStore`, `PartitionLease`, their
runs, and the proofs of the safety properties of all of them. Next, in this order:

1. Proofs: what holds of the WAL *with* cancellation, in the way `AckedRowsAreKept`
   does it for the truncator; `ensure_owner` of a process that was paused behind its
   check.
2. The storage write fence and DML locks on top of `PartitionLease`.
3. Branch-merge-base images composed with the branch fence; record-spill
   partitions with flush, eviction and failed segment writes.
4. Atomic transactions: staging, snapshot validation, one group append.
5. System catalog WAL and its compaction; the versioned manifest head; two-phase
   commit; circuit breaker.
