---------------------------- MODULE WalTruncator ----------------------------
(***************************************************************************)
(* The canonical-WAL truncator and the consumers whose entries it must not *)
(* remove: src/services/wal_truncator.rs composed with the record tier of  *)
(* src/services/record_store.rs, the checkpointed function store of        *)
(* src/services/function_store.rs and the snapshot publisher of            *)
(* src/services/dml/mod.rs.                                                *)
(*                                                                         *)
(* The WAL is the contract CanonicalWal is checked for: appends get        *)
(* increasing sequences and are durable when they return, pins hold the    *)
(* history above them, and a truncation removes some prefix below its      *)
(* floor.  Writers, the publisher, the function store and the truncator    *)
(* run concurrently; each await or lock release is a step boundary.        *)
(***************************************************************************)
EXTENDS Integers, Sequences, FiniteSets, FiniteSetsExt

CONSTANTS
  Writers,    \* concurrent row writers
  Defs,       \* versions of the one stored function
  MaxSeq,     \* bound: entries ever appended
  Retain,     \* ChangeFeedRetention: newest entries always kept
  MaxLag,     \* flush lag of RecordTierFloor
  Publishing, \* whether OLAP snapshots are published
  CallerMayCancel, \* a caller may drop the future of its write
  NoDef,      \* the function is not defined
  NoLsn       \* no snapshot is published

ASSUME TruncatorBounds ==
  /\ MaxSeq \in Nat /\ Retain \in Nat /\ MaxLag \in Nat
  /\ NoDef \notin Defs /\ {"row", "free"} \cap (Defs \cup {NoDef}) = {}
  /\ NoLsn \notin Nat /\ Publishing \in BOOLEAN
  /\ CallerMayCancel \in BOOLEAN

VARIABLES
  log,        \* every entry ever appended: "row", or a function version
  gone,       \* the WAL no longer holds sequences 1..gone
  pins,       \* floors of held history pins
  wpc,        \* writer -> where it is in write_mutations
  wlast,      \* writer -> the last_sequence it read for its reservation
  wlsn,       \* writer -> sequence of its appended entry
  resident,   \* rows (by sequence) in a partition, not yet in a segment
  flushed,    \* rows in a durable segment
  poisoned,   \* a durable row could not be applied
  acked,      \* history: rows whose write returned Ok
  gate,       \* who holds the function store's write gate
  fstate,     \* the function store's in-memory state
  spc,        \* where the snapshot publisher is
  slsn,       \* the snapshot LSN it captured
  scanned,    \* the rows its scan returned
  published,  \* the catalog's snapshot_lsn, NoLsn when none
  base,       \* history: the rows in the published snapshot
  tpc,        \* where the truncator is
  thead,      \* the head it read first
  tfloor,     \* the floor composed so far
  tinflight   \* the in-flight floor the record tier answered

wal == <<log, gone, pins>>
writer == <<wpc, wlast, wlsn, resident, flushed, poisoned, acked>>
function == <<gate, fstate>>
publisher == <<spc, slsn, scanned, published, base>>
truncator == <<tpc, thead, tfloor, tinflight>>
vars == <<wal, writer, function, publisher, truncator>>

----------------------------------------------------------------------------
LastSeq == Len(log)
RetainedFrom == IF gone > 0 THEN gone + 1 ELSE 0
RowLsns == {n \in 1..LastSeq : log[n] = "row"}

\* InflightWrites::floor, as a set: empty when no write is in flight.
Inflight == {wlast[w] + 1 : w \in {v \in Writers : wpc[v] \in {"reserved", "appended", "failing"}}}

\* What replaying the retained log leaves in the function store: the last
\* write wins.
Replayed ==
  LET mine == {n \in (gone + 1)..LastSeq : log[n] # "row"}
  IN IF mine = {} THEN NoDef ELSE log[Max(mine)]

CanAppend == LastSeq < MaxSeq

----------------------------------------------------------------------------
(* write_mutations: reserve_inflight, append, apply, release *)

\* The write returns; its reservation drops.
ToIdle(w) ==
  /\ wpc' = [wpc EXCEPT ![w] = "idle"]
  /\ wlast' = [wlast EXCEPT ![w] = 0]
  /\ wlsn' = [wlsn EXCEPT ![w] = 0]

\* reserve_inflight reads last_sequence ...
ReadLast(w) ==
  /\ wpc[w] = "idle" /\ ~poisoned /\ CanAppend
  /\ wlast' = [wlast EXCEPT ![w] = LastSeq]
  /\ wpc' = [wpc EXCEPT ![w] = "read"]
  /\ UNCHANGED <<wal, wlsn, resident, flushed, poisoned, acked, function,
                 publisher, truncator>>

\* ... and then inserts the reservation.
Reserve(w) ==
  /\ wpc[w] = "read"
  /\ wpc' = [wpc EXCEPT ![w] = "reserved"]
  /\ UNCHANGED <<wal, wlast, wlsn, resident, flushed, poisoned, acked,
                 function, publisher, truncator>>

AppendRow(w) ==
  /\ wpc[w] = "reserved" /\ CanAppend
  /\ log' = Append(log, "row")
  /\ wlsn' = [wlsn EXCEPT ![w] = LastSeq + 1]
  /\ wpc' = [wpc EXCEPT ![w] = "appended"]
  /\ UNCHANGED <<gone, pins, wlast, resident, flushed, poisoned, acked,
                 function, publisher, truncator>>

\* The append returns an error and nothing was written; the reservation drops.
AppendRowFails(w) ==
  /\ wpc[w] = "reserved"
  /\ ToIdle(w)
  /\ UNCHANGED <<wal, resident, flushed, poisoned, acked,
                 function, publisher, truncator>>

\* apply_storage_actions makes the row resident; the write returns.
ApplyRow(w) ==
  /\ wpc[w] = "appended"
  /\ resident' = resident \cup {wlsn[w]}
  /\ acked' = acked \cup {wlsn[w]}
  /\ ToIdle(w)
  /\ UNCHANGED <<wal, flushed, poisoned, function, publisher,
                 truncator>>

\* The apply fails after the row is durable: poison first, release after.
ApplyRowFails(w) ==
  /\ wpc[w] = "appended"
  /\ poisoned' = TRUE
  /\ wpc' = [wpc EXCEPT ![w] = "failing"]
  /\ UNCHANGED <<wal, wlast, wlsn, resident, flushed, acked, function,
                 publisher, truncator>>

ReleaseFailed(w) ==
  /\ wpc[w] = "failing"
  /\ ToIdle(w)
  /\ UNCHANGED <<wal, resident, flushed, poisoned, acked,
                 function, publisher, truncator>>

\* The caller's future is dropped between the append and the apply: the
\* reservation drops with it, and nothing poisons the store.
CancelWrite(w) ==
  /\ CallerMayCancel
  /\ wpc[w] = "appended"
  /\ ToIdle(w)
  /\ UNCHANGED <<wal, resident, flushed, poisoned, acked,
                 function, publisher, truncator>>

\* A partition flush writes its resident rows into a segment and evicts them.
FlushRows ==
  /\ resident # {}
  /\ flushed' = flushed \cup resident
  /\ resident' = {}
  /\ UNCHANGED <<wal, wpc, wlast, wlsn, poisoned, acked, function, publisher,
                 truncator>>

----------------------------------------------------------------------------
(* The function store: put and remove append, then update the state, under *)
(* one write gate that checkpoint takes too.                               *)

PutFunction(d) ==
  /\ gate = "free" /\ CanAppend
  /\ d = NoDef => fstate # NoDef
  /\ log' = Append(log, d)
  /\ gate' = d
  /\ UNCHANGED <<gone, pins, writer, fstate, publisher, truncator>>

ApplyFunction ==
  /\ gate \in Defs \cup {NoDef}
  /\ fstate' = gate
  /\ gate' = "free"
  /\ UNCHANGED <<wal, writer, publisher, truncator>>

\* The caller's future is dropped while it waits for the append, which still
\* completes: the gate is released and the state is not updated.
CancelFunction ==
  /\ CallerMayCancel
  /\ gate \in Defs \cup {NoDef}
  /\ gate' = "free"
  /\ UNCHANGED <<wal, writer, fstate, publisher, truncator>>

----------------------------------------------------------------------------
(* capture_snapshot_lsn, the scan, and the publication *)

\* Mutant of SnapshotLsn: the head, in-flight writes or not.
HeadLsn == LastSeq

\* The head, lowered below any write in flight.
SnapshotLsn == Min({LastSeq} \cup {f - 1 : f \in Inflight})

\* pin_history under the append lock: the head, below any in-flight write.
Capture ==
  LET lsn == SnapshotLsn
  IN /\ Publishing /\ spc = "idle"
     /\ RetainedFrom =< lsn + 1
     /\ slsn' = lsn
     /\ pins' = pins \cup {lsn + 1}
     /\ spc' = "captured"
     /\ UNCHANGED <<log, gone, writer, function, scanned, published, base,
                    truncator>>

Scan ==
  /\ spc = "captured"
  /\ scanned' = resident \cup flushed
  /\ spc' = "scanned"
  /\ UNCHANGED <<wal, writer, function, slsn, published, base, truncator>>

\* The catalog records the snapshot LSN.
Publish ==
  /\ spc = "scanned"
  /\ published' = slsn
  /\ base' = scanned
  /\ spc' = "published"
  /\ UNCHANGED <<wal, writer, function, slsn, scanned, truncator>>

\* The publication returns, with an error from any step of it or with Ok, and
\* its pin drops.
DropSnapshotPin ==
  /\ spc \in {"captured", "scanned", "published"}
  /\ pins' = pins \ {slsn + 1}
  /\ scanned' = {} /\ slsn' = 0
  /\ spc' = "idle"
  /\ UNCHANGED <<log, gone, writer, function, published, base, truncator>>

----------------------------------------------------------------------------
(* run_once *)

\* The run returns; the next one starts from scratch.
EndRun == tpc' = "idle" /\ thead' = 0 /\ tfloor' = 0

\* Mutant of ReadHead: off by one.
ReadHeadPlusOne ==
  /\ tpc = "idle"
  /\ thead' = LastSeq
  /\ tfloor' = LastSeq + 2
  /\ tpc' = "lag"
  /\ UNCHANGED <<wal, writer, function, publisher, tinflight>>

\* The head is read before any source is asked.
ReadHead ==
  /\ tpc = "idle"
  /\ thead' = LastSeq
  /\ tfloor' = LastSeq + 1
  /\ tpc' = "lag"
  /\ UNCHANGED <<wal, writer, function, publisher, tinflight>>

\* RecordTierFloor first flushes what lags the head, best effort.
FlushLagging ==
  /\ tpc = "lag"
  /\ \/ /\ resident # {} /\ thead - Min(resident) > Max({MaxLag, Retain})
        /\ flushed' = flushed \cup resident
        /\ resident' = {}
     \/ UNCHANGED <<resident, flushed>>
  /\ tpc' = "inflight"
  /\ UNCHANGED <<wal, wpc, wlast, wlsn, poisoned, acked, function, publisher,
                 thead, tfloor, tinflight>>

\* Mutant of AskInflight: writes in flight are not asked about.
AskNoInflight ==
  /\ tpc = "inflight"
  /\ tinflight' = {}
  /\ tpc' = "unflushed"
  /\ UNCHANGED <<wal, writer, function, publisher, thead, tfloor>>

\* Then the in-flight floor ...
AskInflight ==
  /\ tpc = "inflight"
  /\ tinflight' = Inflight
  /\ tpc' = "unflushed"
  /\ UNCHANGED <<wal, writer, function, publisher, thead, tfloor>>

\* ... and only then min_unflushed_lsn, which refuses for a poisoned store.
AskUnflushed ==
  /\ tpc = "unflushed"
  /\ IF poisoned
     THEN EndRun
     ELSE /\ tpc' = "retention"
          /\ tfloor' = Min({tfloor} \cup tinflight \cup resident)
          /\ UNCHANGED thead
  /\ tinflight' = {}
  /\ UNCHANGED <<wal, writer, function, publisher>>

AskRetention ==
  /\ tpc = "retention"
  /\ tfloor' = Min({tfloor, Max({0, thead + 1 - Retain})})
  /\ tpc' = "snapshots"
  /\ UNCHANGED <<wal, writer, function, publisher, thead, tinflight>>

NothingToDo == tfloor =< Max({RetainedFrom, 1})

\* The published snapshots; then stop before any appending source runs if the
\* readers' floor frees nothing.
AskSnapshots ==
  /\ tpc = "snapshots"
  /\ tfloor' = IF published = NoLsn THEN tfloor ELSE Min({tfloor, published + 1})
  /\ tpc' = "readers"
  /\ UNCHANGED <<wal, writer, function, publisher, thead, tinflight>>

\* A partition or a catalog that cannot answer refuses, and the run returns.
SourceRefuses ==
  /\ tpc \in {"unflushed", "snapshots"}
  /\ EndRun
  /\ tinflight' = {}
  /\ UNCHANGED <<wal, writer, function, publisher>>

\* Mutant of AskCheckpoint: live definitions are not appended again.
AskNoCheckpoint ==
  /\ tpc = "readers"
  /\ IF NothingToDo
     THEN EndRun
     ELSE tpc' = "truncate" /\ UNCHANGED <<thead, tfloor>>
  /\ UNCHANGED <<wal, writer, function, publisher, tinflight>>

\* FunctionStore::checkpoint: under the gate, re-append the live definition.
\* A WAL error refuses the run.
AskCheckpoint ==
  /\ tpc = "readers"
  /\ IF NothingToDo
     THEN EndRun /\ UNCHANGED log
     ELSE /\ gate = "free"
          /\ \/ /\ fstate = NoDef
                /\ tpc' = "truncate" /\ UNCHANGED <<log, thead, tfloor>>
             \/ /\ fstate # NoDef /\ CanAppend
                /\ log' = Append(log, fstate)
                /\ tfloor' = Min({tfloor, LastSeq + 1})
                /\ tpc' = "truncate" /\ UNCHANGED thead
             \/ /\ fstate # NoDef
                /\ EndRun /\ UNCHANGED log
  /\ UNCHANGED <<gone, pins, writer, function, publisher, tinflight>>

\* Mutant of TruncationFloor: pins are forgotten.
FloorWithoutPins == tfloor

TruncationFloor == Min({tfloor} \cup pins)

\* truncate_below: no higher than the lowest pin, and whole sealed segments
\* only, so any shorter prefix may be what goes.
Truncate ==
  /\ tpc = "truncate"
  /\ \/ \E through \in (gone + 1)..(TruncationFloor - 1) :
          ~NothingToDo /\ gone' = through
     \/ UNCHANGED gone
  /\ EndRun
  /\ UNCHANGED <<log, pins, writer, function, publisher, tinflight>>

----------------------------------------------------------------------------
\* The process restarts: the log, the segments and the catalog survive, and
\* replay rebuilds the partitions and the function store from the log.
Restart ==
  /\ pins' = {} /\ poisoned' = FALSE
  /\ wpc' = [w \in Writers |-> "idle"]
  /\ wlast' = [w \in Writers |-> 0] /\ wlsn' = [w \in Writers |-> 0]
  /\ resident' = {n \in RowLsns : n > gone}
  /\ gate' = "free" /\ fstate' = Replayed
  /\ spc' = "idle" /\ scanned' = {}
  /\ slsn' = 0
  /\ EndRun /\ tinflight' = {}
  /\ UNCHANGED <<log, gone, flushed, acked, published, base>>

Init ==
  /\ log = <<>> /\ gone = 0 /\ pins = {}
  /\ wpc = [w \in Writers |-> "idle"] /\ wlast = [w \in Writers |-> 0]
  /\ wlsn = [w \in Writers |-> 0]
  /\ resident = {} /\ flushed = {} /\ poisoned = FALSE /\ acked = {}
  /\ gate = "free" /\ fstate = NoDef
  /\ spc = "idle" /\ slsn = 0 /\ scanned = {} /\ published = NoLsn /\ base = {}
  /\ tpc = "idle" /\ thead = 0 /\ tfloor = 0 /\ tinflight = {}

WriterStep(w) ==
  \/ ReadLast(w) \/ Reserve(w) \/ AppendRow(w) \/ AppendRowFails(w)
  \/ ApplyRow(w) \/ ApplyRowFails(w) \/ ReleaseFailed(w)
  \/ CancelWrite(w)

TruncatorStep ==
  \/ ReadHead \/ FlushLagging \/ AskInflight \/ AskUnflushed \/ AskRetention
  \/ AskSnapshots \/ SourceRefuses \/ AskCheckpoint \/ Truncate

Next ==
  \/ \E w \in Writers : WriterStep(w)
  \/ FlushRows
  \/ \E d \in Defs \cup {NoDef} : PutFunction(d)
  \/ ApplyFunction \/ CancelFunction
  \/ Capture \/ Scan \/ Publish \/ DropSnapshotPin
  \/ TruncatorStep
  \/ Restart

Spec == Init /\ [][Next]_vars

----------------------------------------------------------------------------
(* Properties *)

\* Type invariant.
TypeOK ==
  /\ log \in Seq({"row", NoDef} \cup Defs) /\ LastSeq =< MaxSeq
  /\ gone \in 0..LastSeq
  /\ pins \subseteq 1..(MaxSeq + 1)
  /\ wpc \in [Writers -> {"idle", "read", "reserved", "appended", "failing"}]
  /\ wlast \in [Writers -> 0..LastSeq] /\ wlsn \in [Writers -> 0..LastSeq]
  /\ resident \subseteq 1..LastSeq /\ flushed \subseteq 1..LastSeq
  /\ acked \subseteq 1..LastSeq /\ poisoned \in BOOLEAN
  /\ gate \in {"free", NoDef} \cup Defs /\ fstate \in {NoDef} \cup Defs
  /\ spc \in {"idle", "captured", "scanned", "published"}
  /\ slsn \in 0..LastSeq /\ published \in {NoLsn} \cup 0..LastSeq
  /\ scanned \subseteq 1..LastSeq /\ base \subseteq 1..LastSeq
  /\ tpc \in {"idle", "lag", "inflight", "unflushed", "retention",
              "snapshots", "readers", "truncate"}
  /\ thead \in 0..LastSeq /\ tfloor \in 0..(thead + 1)
  /\ tinflight \subseteq 1..(LastSeq + 1)

\* Parts of the argument for RowsNeverLost.  An appended entry lies above the
\* head its write reserved from, and a failed apply has poisoned the store.
WritesInOrder ==
  \A w \in Writers :
    /\ wpc[w] \in {"appended", "failing"} => wlast[w] < wlsn[w]
    /\ wpc[w] = "failing" => poisoned

\* Every row of the log is in a segment, in a partition, in the hands of its
\* write, or behind the poison.
RowsLocated ==
  \A n \in RowLsns :
    \/ n \in flushed \cup resident
    \/ poisoned
    \/ \E w \in Writers : wpc[w] \in {"appended", "failing"} /\ wlsn[w] = n

\* What a truncation run knows: once in-flight writes were asked, each row up
\* to the head is in a segment or still seen by a question to come; once the
\* partitions were asked too, each row below the floor is in a segment.
FloorKnown ==
  /\ tpc = "unflushed" =>
       \A n \in RowLsns : n =< thead =>
         \/ n \in flushed \cup resident
         \/ poisoned
         \/ \E f \in tinflight : f =< n
  /\ tpc \in {"retention", "snapshots", "readers", "truncate"} =>
       \A n \in RowLsns : n < tfloor => n \in flushed

\* A row's WAL entry is removed only once the row is in a durable segment:
\* whether its write is in flight, acknowledged, or durable but unapplied (the
\* poisoned store), a restart can still rebuild it.
RowsNeverLost == \A n \in RowLsns : n =< gone => n \in flushed

\* The inductive invariant: why RowsNeverLost holds while no write is cancelled.
RowsInv == /\ TypeOK /\ WritesInOrder /\ RowsLocated /\ FloorKnown
           /\ RowsNeverLost

\* Replaying the retained log gives the function store exactly the state its
\* callers were acknowledged, whatever was truncated (checkpoint under the
\* write gate).
FunctionsSurvive == gate = "free" => Replayed = fstate

\* A live definition is always somewhere in the retained log, cancelled calls
\* included: the entry a truncation removes has been appended again above the
\* floor, under the gate that put and remove hold across append and update.
LiveDefinitionKept ==
  fstate # NoDef => \E n \in (gone + 1)..LastSeq : log[n] = fstate

\* A published snapshot of a store that is not poisoned holds every row at or
\* below its LSN whose write was acknowledged: the LSN is lowered below any
\* write in flight, so an acknowledged row is either in the snapshot or in the
\* delta after it.  A row whose caller gave up between the append and the apply
\* is not acknowledged, holds no reservation any more, and is exempt: replayed
\* at a restart, it is in neither (capture_snapshot_lsn).
SnapshotCoversItsLsn ==
  (published # NoLsn /\ ~poisoned) =>
    \A n \in acked : n =< published => n \in base

\* While its pin is held, the history after a captured snapshot LSN is kept.
CapturedDeltaKept ==
  spc \in {"captured", "scanned", "published"} => gone =< slsn

\* The delta merge reads every entry after a published snapshot's LSN, so
\* those must stay (comment at PublishedSnapshotFloor).
PublishedDeltaKept == published # NoLsn => gone =< published
=============================================================================
