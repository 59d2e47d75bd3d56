---------------------------- MODULE CanonicalWal ----------------------------
(***************************************************************************)
(* The framed canonical write-ahead log of ProximaDB:                      *)
(* FramedTableWalAppender in src/services/canonical_wal.rs.                *)
(*                                                                         *)
(* One process appends framed entries to an active file, syncs, publishes  *)
(* the new sequence, and seals the active file into an immutable segment   *)
(* once it is large enough; a truncator removes a prefix of the sealed     *)
(* segments.  All of that happens under one append lock, so the holder of  *)
(* the lock is a single program counter.  The process may die (its page    *)
(* cache survives) or lose power (unsynced bytes do not) between any two   *)
(* steps, and open() rebuilds the appender from the files.                 *)
(*                                                                         *)
(* A file is the set of the entries its complete frames hold: frames are   *)
(* appended in sequence order, so the order of the bytes is the order of   *)
(* the sequences.  What follows the last frame is the file's tail.         *)
(***************************************************************************)
EXTENDS Naturals, Sequences, FiniteSets, FiniteSetsExt

CONSTANTS
  Op,              \* operations: records [coll, branch]
  Coll,            \* (tenant, collection) pairs an operation may target
  NoColl,          \* the coll of a catalog or checkpoint operation
  MaxSeq,          \* bound: the highest sequence number ever assigned
  MaxBatch,        \* bound: operations in one append call
  MaxPins,         \* bound: history pins held on one floor
  SegmentBytes,    \* rotation threshold, in entries; 0 never rotates
  SummaryTrailer,  \* PROXIMADB_WAL_SUMMARY_TRAILER: sealed files get a section
  RenameFaults,    \* faults: the rename of a "plain" or a "section" file fails
  SectionMayTear,  \* fault: a crash leaves part of a summary section behind
  SectionFaults,   \* faults: "open", "rollback" of append_summary_trailer
  MarkerSyncMayFail, \* fault: the floor marker's directory sync fails
  CallerMayCancel, \* a caller may drop the future of its append
  Fences,          \* the branch fences a caller may arm
  NoFence          \* no branch fence is armed

ASSUME BoundAssumption == MaxSeq \in Nat /\ MaxBatch \in Nat /\ MaxPins \in Nat
ASSUME SegmentAssumption == SegmentBytes \in Nat
ASSUME GateAssumption ==
  /\ SummaryTrailer \in BOOLEAN
  /\ RenameFaults \subseteq {"plain", "section"}
  /\ SectionMayTear \in BOOLEAN
  /\ SectionFaults \subseteq {"open", "rollback"}
  /\ MarkerSyncMayFail \in BOOLEAN
  /\ CallerMayCancel \in BOOLEAN
ASSUME OpAssumption ==
  Op \subseteq [coll : Coll \cup {NoColl}, branch : BOOLEAN]
ASSUME FenceAssumption ==
  /\ Fences \subseteq [covered : SUBSET Coll, marked : SUBSET Coll]
  /\ NoFence \notin Fences

VARIABLES
  active,          \* disk: entries of the complete frames of the active file
  unsynced,        \* disk: those of them no sync_data has covered
  tail,            \* disk: what follows the active file's last good frame
  segments,        \* disk: the sealed segment files
  floor_marker,    \* disk: {path}.floor, 0 when there is none
  up,              \* a process has the WAL open
  next_sequence,   \* highest sequence assigned
  poisoned,        \* an append failed indeterminately
  lost,            \* the writer fence is tripped (mark_lost, or lease expiry)
  collection_max,  \* per-collection high-water sequence
  sealed,          \* in-memory list of sealed segments
  active_summary,  \* entries the running summary of the active file observed
  rotations,       \* seqlock generation: odd while list and disk disagree
  retained_from,   \* first sequence still readable, 0 when never truncated
  pins,            \* floor -> holders of a history pin on it
  branch_fence,    \* armed by fence_branches, taken by the next truncation
  pc,              \* where the holder of append_lock is; "idle" = lock free
  batch,           \* the entries of the append in progress
  pre_tail,        \* the tail below the append in progress (its pre_len)
  victims,         \* segments the truncation in progress still has to delete
  acked            \* history: entries whose append returned Ok

disk == <<active, unsynced, tail, segments, floor_marker>>
memory == <<next_sequence, poisoned, lost, collection_max, sealed,
            active_summary, rotations, retained_from, pins, branch_fence>>
lock == <<pc, batch, pre_tail, victims>>
walVars == <<disk, up, memory, lock, acked>>

Seq1 == 1..MaxSeq
Entry == [seq : Seq1, op : Op, lo : Seq1, hi : Seq1]

(* tail: nothing; an incomplete frame; a whole summary section; part of    *)
(* one; or a section with frames behind it, which no decoder gets past     *)
(* (and such a file may itself end in a whole section).                    *)
TailKind == {"clean", "torn", "section", "partial", "buried", "buried_section"}

(* A sealed file: its name carries first; summary is what its section says *)
(* ({} when it has none); good is FALSE when a section sits mid-file.      *)
Segment == [first : Seq1, entries : SUBSET Entry, summary : SUBSET Entry,
            good : BOOLEAN]
Summary == [first : Seq1, entries : SUBSET Entry]

Pc == {"idle", "append", "written", "write_failed", "sync_failed", "synced",
       "numbered", "high_water", "rotating", "section_written",
       "section_synced", "renamed", "pushed", "floor_marked", "deleting"}

----------------------------------------------------------------------------
(* What the code reads off entries, summaries and files. *)

\* sequence_number of every entry
Seqs(es) == {e.seq : e \in es}

\* Mutant of WholeFrames: a torn group frame yields its leading entries.
LeadingEntries(es, k) == {e \in es : e.seq =< k}

\* Entries of the frames that are whole when bytes up to sequence k are there:
\* an incomplete frame is dropped whole, never a prefix of its group.
WholeFrames(es, k) == {e \in es : e.hi =< k}

\* The entries of one append: one version-2 frame for a group, else one
\* version-1 frame per entry.
NewEntries(base, ops, group) ==
  {[seq |-> base + i, op |-> ops[i],
    lo |-> IF group THEN base + 1 ELSE base + i,
    hi |-> IF group THEN base + Len(ops) ELSE base + i] : i \in 1..Len(ops)}

\* Every (tenant, collection) an entry of es targets, and those with a branch.
CollsOf(es) == {e.op.coll : e \in es} \ {NoColl}
Branched(es) == {e.op.coll : e \in {x \in es : x.op.branch}} \ {NoColl}

\* SegmentSummary::wholly_below
WhollyBelow(s, floor) == \A e \in s.entries : e.seq < floor

\* The sealed list from its oldest segment while each lies wholly below floor.
PrefixBelow(list, floor) ==
  {s \in list : \A t \in list : t.first =< s.first => WhollyBelow(t, floor)}

\* Mutant of PinnedFloor: truncation forgets the pins.
UnpinnedFloor(floor) == floor

\* The floor truncate_below really uses: no higher than the lowest pin.
PinnedFloor(floor) == Min({floor} \cup {p \in DOMAIN pins : pins[p] > 0})

\* branch_summary().collections
BranchSummary == Branched(active_summary) \cup
                 UNION {Branched(s.entries) : s \in sealed}

\* Raise high-water marks by the entries es.
Raised(marks, es) ==
  [c \in Coll |-> Max({marks[c]} \cup Seqs({e \in es : e.op.coll = c}))]

\* Mutant of RetainedAbove: the last removed sequence still counts as retained.
RetainedAt(marker) == marker

\* The first sequence still readable after a truncation through marker.
RetainedAbove(marker) == marker + 1

\* Mutant of ResumeAfter: a truncation that emptied the log restarts numbering.
ResumeAfterSeen(es) == Max({0} \cup Seqs(es))

\* The sequence open() continues from, having seen the entries es.
ResumeAfter(es) == Max({floor_marker} \cup Seqs(es))

\* The summary a boot trusts: the section's, or the decoded frames'.
BootSummary(g) == [first |-> g.first,
                   entries |-> IF g.summary # {} THEN g.summary ELSE g.entries]

\* A segment boot deletes: the recorded truncation covers all of it.
BelowMarker(g) ==
  /\ floor_marker > 0
  /\ \A e \in BootSummary(g).entries : e.seq =< floor_marker

----------------------------------------------------------------------------
(* append_entries *)

\* Lock, fence check, poison check, sequence assignment and encoding.
AppendStart(ops, group) ==
  /\ up /\ pc = "idle"
  /\ ~lost
  /\ ~poisoned
  /\ next_sequence + Len(ops) =< MaxSeq
  /\ group => Len(ops) > 1
  /\ batch' = NewEntries(next_sequence, ops, group)
  /\ pre_tail' = tail
  /\ pc' = "append"
  /\ UNCHANGED <<disk, up, memory, victims, acked>>

\* Bytes written behind a non-frame tail can never be decoded.
TailUnder(t, after) ==
  IF t = "clean" THEN after
  ELSE IF after = "section" THEN "buried_section" ELSE "buried"

\* write_all and flush succeed; nothing is durable yet.
AppendWrite ==
  /\ up /\ pc = "append"
  /\ active' = active \cup batch
  /\ unsynced' = unsynced \cup batch
  /\ tail' = TailUnder(tail, "clean")
  /\ pc' = "written"
  /\ UNCHANGED <<segments, floor_marker, up, memory, batch, pre_tail, victims,
                 acked>>

\* The write stops part way: whole frames up to k, then part of one.
AppendWriteFails(k) ==
  /\ up /\ pc = "append"
  /\ WholeFrames(batch, k) # batch
  /\ active' = active \cup WholeFrames(batch, k)
  /\ unsynced' = unsynced \cup WholeFrames(batch, k)
  /\ tail' = TailUnder(tail, "torn")
  /\ pc' = "write_failed"
  /\ UNCHANGED <<segments, floor_marker, up, memory, batch, pre_tail, victims,
                 acked>>

\* Mutant of AppendSync: the append goes on without syncing.
AppendSyncSkipped ==
  /\ up /\ pc = "written"
  /\ pc' = "synced"
  /\ UNCHANGED <<disk, up, memory, batch, pre_tail, victims, acked>>

\* sync_data covers the whole file.
AppendSync ==
  /\ up /\ pc = "written"
  /\ unsynced' = {}
  /\ pc' = "synced"
  /\ UNCHANGED <<active, tail, segments, floor_marker, up, memory, batch,
                 pre_tail, victims, acked>>

AppendSyncFails ==
  /\ up /\ pc = "written"
  /\ pc' = "sync_failed"
  /\ UNCHANGED <<disk, up, memory, batch, pre_tail, victims, acked>>

\* set_len(pre_len) and its sync succeed.  A failed sync_data still poisons.
RollBack ==
  /\ up /\ pc \in {"write_failed", "sync_failed"}
  /\ active' = active \ batch
  /\ unsynced' = {}
  /\ tail' = pre_tail
  /\ poisoned' = (pc = "sync_failed")
  /\ pc' = "idle"
  /\ batch' = {}
  /\ UNCHANGED <<segments, floor_marker, up, next_sequence, lost,
                 collection_max, sealed, active_summary, rotations,
                 retained_from, pins, branch_fence, pre_tail, victims, acked>>

\* The roll-back itself fails: the bytes stay and the appender is poisoned.
RollBackFails ==
  /\ up /\ pc \in {"write_failed", "sync_failed"}
  /\ poisoned' = TRUE
  /\ pc' = "idle"
  /\ batch' = {}
  /\ UNCHANGED <<disk, up, next_sequence, lost, collection_max, sealed,
                 active_summary, rotations, retained_from, pins, branch_fence,
                 pre_tail, victims, acked>>

\* next_sequence.store(base + n): the highest sequence of the batch
PublishSequence ==
  /\ up /\ pc = "synced"
  /\ next_sequence' = Max(Seqs(batch))
  /\ pc' = "numbered"
  /\ UNCHANGED <<disk, up, poisoned, lost, collection_max, sealed,
                 active_summary, rotations, retained_from, pins, branch_fence,
                 batch, pre_tail, victims, acked>>

\* the per-collection high-water marks
PublishHighWater ==
  /\ up /\ pc = "numbered"
  /\ collection_max' = Raised(collection_max, batch)
  /\ pc' = "high_water"
  /\ UNCHANGED <<disk, up, next_sequence, poisoned, lost, sealed,
                 active_summary, rotations, retained_from, pins, branch_fence,
                 batch, pre_tail, victims, acked>>

\* Ok(entries): the append returns and releases the lock.
Acknowledge ==
  /\ acked' = acked \cup batch
  /\ batch' = {}
  /\ pc' = "idle"

\* Length of the active file against segment_bytes (a buried section counts).
SealDue ==
  /\ SegmentBytes > 0
  /\ Cardinality(active) + (IF tail = "clean" THEN 0 ELSE 1) >= SegmentBytes

\* active.observe(entry) for every entry, then either rotation or the return.
ObserveActive ==
  /\ up /\ pc = "high_water"
  /\ active_summary' = active_summary \cup batch
  /\ IF SealDue
     THEN pc' = "rotating" /\ UNCHANGED <<batch, acked>>
     ELSE Acknowledge
  /\ UNCHANGED <<disk, up, next_sequence, poisoned, lost, collection_max,
                 sealed, rotations, retained_from, pins, branch_fence,
                 pre_tail, victims>>

----------------------------------------------------------------------------
(* rotate_active, still inside the append *)

\* The generation turns odd before anything on disk changes; then the section
\* goes to the end of the active file.
RotateWriteSection ==
  /\ SummaryTrailer
  /\ up /\ pc = "rotating"
  /\ rotations' = rotations + 1
  /\ tail' = TailUnder(tail, "section")
  /\ pc' = "section_written"
  /\ UNCHANGED <<active, unsynced, segments, floor_marker, up, next_sequence,
                 poisoned, lost, collection_max, sealed, active_summary,
                 retained_from, pins, branch_fence, batch, pre_tail, victims,
                 acked>>

\* No section: the gate is off, the data format could not be raised, or the
\* summary could not be encoded.
RotateSkipSection ==
  /\ up /\ pc = "rotating"
  /\ rotations' = rotations + 1
  /\ pc' = "section_synced"
  /\ UNCHANGED <<disk, up, next_sequence, poisoned, lost, collection_max,
                 sealed, active_summary, retained_from, pins, branch_fence,
                 batch, pre_tail, victims, acked>>

\* The open for the section, or its metadata, fails: the pre-section length
\* is then 0, and the roll-back empties the file.
RotateSectionOpenFails ==
  /\ SummaryTrailer /\ "open" \in SectionFaults
  /\ up /\ pc = "rotating"
  /\ rotations' = rotations + 1
  /\ active' = {} /\ unsynced' = {} /\ tail' = "clean"
  /\ pc' = "section_synced"
  /\ UNCHANGED <<segments, floor_marker, up, next_sequence, poisoned, lost,
                 collection_max, sealed, active_summary, retained_from, pins,
                 branch_fence, batch, pre_tail, victims, acked>>

RotateSyncSection ==
  /\ up /\ pc = "section_written"
  /\ unsynced' = {}
  /\ pc' = "section_synced"
  /\ UNCHANGED <<active, tail, segments, floor_marker, up, memory, batch,
                 pre_tail, victims, acked>>

\* Mutant of RotateSectionFails: what was written of the section stays.
RotateSectionFailsInPlace ==
  /\ up /\ pc = "section_written"
  /\ tail' = "partial"
  /\ pc' = "section_synced"
  /\ UNCHANGED <<active, unsynced, segments, floor_marker, up, memory, batch,
                 pre_tail, victims, acked>>

\* The section could not be written or synced: the file is rolled back to its
\* pre-section length and sealed without one.
RotateSectionFails ==
  /\ up /\ pc = "section_written"
  /\ tail' = IF tail = "section" THEN "clean" ELSE "buried"
  /\ pc' = "section_synced"
  /\ UNCHANGED <<active, unsynced, segments, floor_marker, up, memory, batch,
                 pre_tail, victims, acked>>

\* The roll-back of a failed section fails too, which nobody looks at: what
\* was written of the section is sealed with the file.
RotateSectionStays ==
  /\ "rollback" \in SectionFaults
  /\ up /\ pc = "section_written"
  /\ tail' \in {tail, IF tail = "section" THEN "partial" ELSE "buried"}
  /\ pc' = "section_synced"
  /\ UNCHANGED <<active, unsynced, segments, floor_marker, up, memory, batch,
                 pre_tail, victims, acked>>

\* The rename and the directory sync.  An existing file of that name is
\* replaced.
RotateRename ==
  /\ up /\ pc = "section_synced"
  /\ LET first == Min(Seqs(active_summary))
         section == IF tail \in {"section", "buried_section"}
                    THEN active_summary ELSE {}
     IN segments' = {g \in segments : g.first # first}
                      \cup {[first |-> first, entries |-> active,
                             summary |-> section, good |-> tail \in {"clean", "section"}]}
  /\ active' = {} /\ tail' = "clean"
  /\ pc' = "renamed"
  /\ UNCHANGED <<unsynced, floor_marker, up, memory, batch, pre_tail, victims,
                 acked>>

\* Which rename faults apply: the file has a summary section behind its frames,
\* or it has none.
RenameMayFail ==
  (IF tail \in {"section", "buried_section"} THEN "section" ELSE "plain")
    \in RenameFaults

\* Mutant of RotateRenameFails: the early return leaves the generation odd.
RotateRenameFailsOdd ==
  /\ RenameMayFail
  /\ up /\ pc = "section_synced"
  /\ Acknowledge
  /\ UNCHANGED <<disk, up, memory, pre_tail, victims>>

\* The rename fails: the generation turns even, everything stays where it is,
\* and the append returns Ok.
RotateRenameFails ==
  /\ RenameMayFail
  /\ up /\ pc = "section_synced"
  /\ rotations' = rotations + 1
  /\ Acknowledge
  /\ UNCHANGED <<disk, up, next_sequence, poisoned, lost, collection_max,
                 sealed, active_summary, retained_from, pins, branch_fence,
                 pre_tail, victims>>

\* The sealed list gains the segment before the active summary is reset.
RotatePush ==
  /\ up /\ pc = "renamed"
  /\ sealed' = sealed \cup {[first |-> Min(Seqs(active_summary)),
                             entries |-> active_summary]}
  /\ pc' = "pushed"
  /\ UNCHANGED <<disk, up, next_sequence, poisoned, lost, collection_max,
                 active_summary, rotations, retained_from, pins, branch_fence,
                 batch, pre_tail, victims, acked>>

\* Mutant of RotateEnd: the active summary keeps the sealed entries.
RotateEndKeepsSummary ==
  /\ up /\ pc = "pushed"
  /\ rotations' = rotations + 1
  /\ Acknowledge
  /\ UNCHANGED <<disk, up, next_sequence, poisoned, lost, collection_max,
                 sealed, active_summary, retained_from, pins, branch_fence,
                 pre_tail, victims>>

\* Reset the active summary, generation even, and the append returns Ok.
RotateEnd ==
  /\ up /\ pc = "pushed"
  /\ active_summary' = {}
  /\ rotations' = rotations + 1
  /\ Acknowledge
  /\ UNCHANGED <<disk, up, next_sequence, poisoned, lost, collection_max,
                 sealed, retained_from, pins, branch_fence, pre_tail, victims>>

----------------------------------------------------------------------------
(* Cancellation *)

\* The caller's future is dropped at an await (a statement timeout, a client
\* gone): the lock is released and no line behind the await runs.  The file
\* operation it waited for still completes, so the rename may have happened.
CancelAppend ==
  /\ CallerMayCancel
  /\ up /\ pc \in {"append", "written", "write_failed", "sync_failed",
                  "section_written", "section_synced", "renamed"}
  /\ pc' = "idle"
  /\ batch' = {}
  /\ UNCHANGED <<disk, up, memory, pre_tail, victims, acked>>

----------------------------------------------------------------------------
(* truncate_below *)

\* Lock, lower the floor to the lowest pin, take the branch fence, choose the
\* victims.  Without victims, or when the fence refuses, nothing is removed.
\* Otherwise the new floor is made durable before anything is deleted.  An
\* error from that returns at once, and one from the marker's directory sync
\* does so with the marker already in place.
TruncateStart(floor, outcome) ==
  LET doomed == PrefixBelow(sealed, PinnedFloor(floor))
      colls == UNION {CollsOf(s.entries) : s \in doomed}
      refused == /\ branch_fence # NoFence
                 /\ \/ \E c \in colls \cap BranchSummary :
                         c \notin branch_fence.covered
                    \/ \E c \in colls : c \notin branch_fence.marked
  IN /\ up /\ pc = "idle"
     /\ branch_fence' = NoFence
     /\ IF doomed = {} \/ refused \/ outcome = "not_written"
        THEN UNCHANGED <<floor_marker, victims, pc>>
        ELSE /\ floor_marker' = Max({0} \cup Seqs(UNION {s.entries : s \in doomed}))
             /\ IF outcome = "not_synced"
                THEN UNCHANGED <<victims, pc>>
                ELSE victims' = doomed /\ pc' = "floor_marked"
     /\ UNCHANGED <<active, unsynced, tail, segments, up, next_sequence,
                    poisoned, lost, collection_max, sealed, active_summary,
                    rotations, retained_from, pins, batch, pre_tail, acked>>

\* Odd generation, drain the list, raise retained_from.
TruncateDrain ==
  /\ up /\ pc = "floor_marked"
  /\ rotations' = rotations + 1
  /\ sealed' = sealed \ victims
  /\ retained_from' = Max({retained_from, RetainedAbove(floor_marker)})
  /\ pc' = "deleting"
  /\ UNCHANGED <<disk, up, next_sequence, poisoned, lost, collection_max,
                 active_summary, pins, branch_fence, batch, pre_tail, victims,
                 acked>>

\* remove_file on the oldest remaining victim; a failure leaves the file.
TruncateDelete(fails) ==
  /\ up /\ pc = "deleting"
  /\ victims # {}
  /\ \E v \in victims :
       /\ \A w \in victims : v.first =< w.first
       /\ victims' = victims \ {v}
       /\ segments' = IF fails THEN segments
                      ELSE {g \in segments : g.first # v.first}
  /\ UNCHANGED <<active, unsynced, tail, floor_marker, up, memory, pc, batch,
                 pre_tail, acked>>

\* Mutant of TruncateEnd: a fenced process never gives the lock back.
TruncateEndUnlessLost ==
  /\ up /\ pc = "deleting" /\ ~lost
  /\ victims = {}
  /\ rotations' = rotations + 1
  /\ pc' = "idle"
  /\ UNCHANGED <<disk, up, next_sequence, poisoned, lost, collection_max,
                 sealed, active_summary, retained_from, pins, branch_fence,
                 batch, pre_tail, victims, acked>>

\* Generation even, lock released.
TruncateEnd ==
  /\ up /\ pc = "deleting"
  /\ victims = {}
  /\ rotations' = rotations + 1
  /\ pc' = "idle"
  /\ UNCHANGED <<disk, up, next_sequence, poisoned, lost, collection_max,
                 sealed, active_summary, retained_from, pins, branch_fence,
                 batch, pre_tail, victims, acked>>

----------------------------------------------------------------------------
(* Pins, the branch fence, the sequence floor and the writer fence *)

\* Pin every entry above a snapshot LSN of the caller's choice, or fail when
\* some of them are already gone.
PinHistory(lsn) ==
  /\ up /\ pc = "idle"
  /\ lsn =< next_sequence
  /\ retained_from =< lsn + 1
  /\ pins[lsn + 1] < MaxPins
  /\ pins' = [pins EXCEPT ![lsn + 1] = @ + 1]
  /\ UNCHANGED <<disk, up, next_sequence, poisoned, lost, collection_max,
                 sealed, active_summary, rotations, retained_from,
                 branch_fence, lock, acked>>

\* Mutant of DropPin: a floor nobody pins is dropped too.
DropAnyPin(floor) ==
  /\ up
  /\ pins' = [pins EXCEPT ![floor] = @ - 1]
  /\ UNCHANGED <<disk, up, next_sequence, poisoned, lost, collection_max,
                 sealed, active_summary, rotations, retained_from,
                 branch_fence, lock, acked>>

\* Drop for WalHistoryPin; takes no append lock.
DropPin(floor) ==
  /\ up
  /\ pins[floor] > 0
  /\ pins' = [pins EXCEPT ![floor] = @ - 1]
  /\ UNCHANGED <<disk, up, next_sequence, poisoned, lost, collection_max,
                 sealed, active_summary, rotations, retained_from,
                 branch_fence, lock, acked>>

FenceBranches(fence) ==
  /\ up
  /\ branch_fence' = fence
  /\ UNCHANGED <<disk, up, next_sequence, poisoned, lost, collection_max,
                 sealed, active_summary, rotations, retained_from, pins, lock,
                 acked>>

\* fetch_max, lock-free; its one caller runs between open() and the first append.
AdvanceSequenceFloor(floor) ==
  /\ up /\ pc = "idle"
  /\ next_sequence' = Max({next_sequence, floor})
  /\ UNCHANGED <<disk, up, poisoned, lost, collection_max, sealed,
                 active_summary, rotations, retained_from, pins, branch_fence,
                 lock, acked>>

\* mark_lost by the epoch watchdog, or the ownership lease running out.
LoseOwnership ==
  /\ up
  /\ ~lost
  /\ lost' = TRUE
  /\ UNCHANGED <<disk, up, next_sequence, poisoned, collection_max, sealed,
                 active_summary, rotations, retained_from, pins, branch_fence,
                 lock, acked>>

----------------------------------------------------------------------------
(* Crashes and open() *)

NoPins == [f \in 1..(MaxSeq + 1) |-> 0]

\* What a dead process leaves of its memory.
ForgetMemory ==
  /\ up' = FALSE
  /\ next_sequence' = 0 /\ poisoned' = FALSE /\ lost' = FALSE
  /\ collection_max' = [c \in Coll |-> 0]
  /\ sealed' = {} /\ active_summary' = {} /\ rotations' = 0
  /\ retained_from' = 0 /\ pins' = NoPins /\ branch_fence' = NoFence
  /\ pc' = "idle" /\ batch' = {} /\ pre_tail' = "clean" /\ victims' = {}

\* The process dies; the page cache keeps every byte written so far.
ProcessCrash ==
  /\ up
  /\ ForgetMemory
  /\ UNCHANGED <<disk, acked>>

\* What is left behind the frames when power fails: an unsynced section may be
\* gone, or partly there; unsynced frames may leave part of one behind.
TailsAfterPowerLoss(kept) ==
  CASE pc = "section_written" /\ tail = "section" ->
         {"clean", "section"} \cup (IF SectionMayTear THEN {"partial"} ELSE {})
    [] pc = "section_written" /\ tail = "buried_section" ->
         {"buried", "buried_section"}
    [] tail = "torn" -> {"clean", "torn"}
    [] tail = "buried" /\ up /\ kept # active -> {"buried", pre_tail}
    [] tail = "clean" /\ kept # active -> {"clean", "torn"}
    [] OTHER -> {tail}

\* Power fails: of the unsynced bytes, a prefix survives.
PowerLoss(k) ==
  LET kept == (active \ unsynced) \cup WholeFrames(unsynced, k)
  IN /\ active' = kept
     /\ unsynced' = {}
     /\ tail' \in TailsAfterPowerLoss(kept)
     /\ ForgetMemory
     /\ UNCHANGED <<segments, floor_marker, acked>>

\* recover_interrupted_seal: the active file ends in a whole section, so the
\* rotation that wrote it is completed, unless the name is taken.
RecoverSeal ==
  /\ ~up /\ tail \in {"section", "buried_section"}
  /\ LET first == Min(Seqs(active))
     IN /\ \A g \in segments : g.first # first
        /\ segments' = segments \cup {[first |-> first, entries |-> active,
                                       summary |-> active,
                                       good |-> tail = "section"]}
  /\ active' = {} /\ unsynced' = {} /\ tail' = "clean"
  /\ UNCHANGED <<floor_marker, up, memory, lock, acked>>

\* The segments boot keeps, given the doomed ones whose removal failed.
Kept == {g \in segments : ~BelowMarker(g)}

\* Segments without a trusted section are decoded; then the active file is.
Openable ==
  /\ tail \in {"clean", "torn"}
  /\ \A g \in segments : g.summary = {} => g.good

\* The rest of open(): read the marker, rebuild the summaries, finish the
\* deletes a truncation left, decode the active file, cut its torn tail, and
\* number from the highest sequence any of them knows.
Open(undeleted) ==
  LET list == {BootSummary(g) : g \in Kept}
      seen == active \cup UNION {s.entries : s \in list}
  IN /\ ~up /\ Openable
     /\ undeleted \subseteq {g \in segments : BelowMarker(g)}
     /\ segments' = Kept \cup undeleted
     /\ tail' = "clean"
     /\ up' = TRUE
     /\ sealed' = list
     /\ active_summary' = active
     /\ next_sequence' = ResumeAfter(seen)
     /\ collection_max' = Raised([c \in Coll |-> 0], seen)
     /\ retained_from' = IF floor_marker > 0 THEN RetainedAbove(floor_marker) ELSE 0
     /\ UNCHANGED <<active, unsynced, floor_marker, poisoned, lost, rotations,
                    pins, branch_fence, lock, acked>>

----------------------------------------------------------------------------
(* A fresh directory with no process on it. *)
Init ==
  /\ active = {} /\ unsynced = {} /\ tail = "clean" /\ segments = {}
  /\ floor_marker = 0
  /\ up = FALSE /\ next_sequence = 0 /\ poisoned = FALSE /\ lost = FALSE
  /\ collection_max = [c \in Coll |-> 0]
  /\ sealed = {} /\ active_summary = {} /\ rotations = 0 /\ retained_from = 0
  /\ pins = NoPins /\ branch_fence = NoFence
  /\ pc = "idle" /\ batch = {} /\ pre_tail = "clean" /\ victims = {}
  /\ acked = {}

\* write_floor_marker: durable, not written at all, or installed while the
\* directory sync reports an error.
MarkerOutcomes == {"durable", "not_written"}
                    \cup (IF MarkerSyncMayFail THEN {"not_synced"} ELSE {})

Batches == UNION {[1..n -> Op] : n \in 1..MaxBatch}

AppendStep ==
  \/ AppendWrite
  \/ \E k \in 0..MaxSeq : AppendWriteFails(k)
  \/ AppendSync \/ AppendSyncFails
  \/ RollBack \/ RollBackFails
  \/ PublishSequence \/ PublishHighWater \/ ObserveActive

RotateStep ==
  \/ RotateWriteSection \/ RotateSkipSection \/ RotateSectionOpenFails
  \/ RotateSyncSection \/ RotateSectionFails \/ RotateSectionStays
  \/ RotateRename \/ RotateRenameFails \/ RotatePush \/ RotateEnd

TruncateStep ==
  \/ TruncateDrain
  \/ \E fails \in BOOLEAN : TruncateDelete(fails)
  \/ TruncateEnd

\* The steps of whoever holds append_lock.
LockHolderStep == AppendStep \/ RotateStep \/ TruncateStep

CallStep ==
  \/ \E ops \in Batches, group \in BOOLEAN : AppendStart(ops, group)
  \/ \E floor \in 1..(MaxSeq + 1), outcome \in MarkerOutcomes :
       TruncateStart(floor, outcome)
  \/ \E lsn \in 0..MaxSeq : PinHistory(lsn)
  \/ \E floor \in 1..(MaxSeq + 1) : DropPin(floor)
  \/ \E fence \in Fences : FenceBranches(fence)
  \/ \E floor \in 1..MaxSeq : AdvanceSequenceFloor(floor)
  \/ LoseOwnership
  \/ CancelAppend

CrashStep ==
  \/ ProcessCrash
  \/ \E k \in 0..MaxSeq : PowerLoss(k)

OpenStep ==
  \/ RecoverSeal
  \/ \E undeleted \in SUBSET segments : Open(undeleted)

Next == CallStep \/ LockHolderStep \/ CrashStep \/ OpenStep

Spec == Init /\ [][Next]_walVars

\* A call that took append_lock runs to its return: the code under the lock
\* waits on nothing but file operations, which return or fail.
FairSpec == Spec /\ WF_walVars(LockHolderStep)

----------------------------------------------------------------------------
(* Properties *)

\* The decodable entries on disk.
OnDisk ==
  (IF tail \in {"buried", "buried_section", "partial"} THEN {} ELSE active)
    \cup UNION {g.entries : g \in {h \in segments : h.good}}

\* Those that also survive a power failure.
Durable == OnDisk \ unsynced

\* Type invariant of the files, the appender and the lock holder.
TypeOK ==
  /\ active \subseteq Entry /\ unsynced \subseteq active
  /\ tail \in TailKind /\ pre_tail \in TailKind
  /\ segments \subseteq Segment
  /\ floor_marker \in 0..MaxSeq
  /\ up \in BOOLEAN /\ poisoned \in BOOLEAN /\ lost \in BOOLEAN
  /\ next_sequence \in 0..MaxSeq
  /\ collection_max \in [Coll -> 0..MaxSeq]
  /\ sealed \subseteq Summary /\ active_summary \subseteq Entry
  /\ rotations \in Nat
  /\ retained_from \in 0..(MaxSeq + 1)
  /\ pins \in [1..(MaxSeq + 1) -> 0..MaxPins]
  /\ branch_fence \in Fences \cup {NoFence}
  /\ pc \in Pc
  /\ batch \subseteq Entry
  /\ victims \subseteq Summary
  /\ acked \subseteq Entry

\* An append that returned Ok is durable and decodable, whatever crash follows,
\* until a recorded truncation covers its sequence (append_entries syncs before
\* it returns; truncate_below removes only what the marker covers).
AckedDurable == \A e \in acked : e.seq > floor_marker => e \in Durable

\* No sequence is ever acknowledged for two different entries, and an open WAL
\* numbers above every acknowledged entry: not after a crash, a rolled-back
\* append, or a truncation that emptied the log (open takes the maximum of the
\* active file, the sealed segments and the floor marker).
SequenceNeverReused ==
  /\ \A e, f \in acked : e.seq = f.seq => e = f
  /\ up => \A e \in acked : e.seq =< next_sequence

\* A group frame is all or nothing: if one entry of it can be read back, all of
\* it can, and truncation never keeps a part of it (encode_group_frame,
\* decode_frame, truncation by whole segments).
GroupAllOrNothing ==
  \A e \in OnDisk : e.seq > floor_marker =>
    \A n \in e.lo..e.hi :
      n > floor_marker /\ \E f \in OnDisk : f.seq = n /\ f.lo = e.lo /\ f.hi = e.hi

\* While a history pin is held on a floor, no recorded truncation reaches it
\* (pin_history and truncate_below decide under the same lock).
PinnedHistoryKept ==
  up => \A p \in DOMAIN pins : pins[p] > 0 => floor_marker < p

\* When the generation is even, the in-memory list names files that are on
\* disk with the entries their summaries promise, and the active summary is
\* the active file: what a lock-free reader relies on.
ListMatchesDisk ==
  (up /\ rotations % 2 = 0) =>
    /\ \A s \in sealed :
         \E g \in segments : g.first = s.first /\ g.entries = s.entries
    /\ active_summary \subseteq active
    /\ active \ active_summary \subseteq batch \cup unsynced

\* The retained history has no hole: between the first retained sequence and
\* the head, every acknowledged entry is in a listed segment or in the active
\* file (only an oldest prefix of the list is ever drained).
RetainedGapFree ==
  (up /\ pc = "idle") =>
    \A e \in acked :
      \/ e.seq < retained_from
      \/ e \in active_summary
      \/ \E s \in sealed : e \in s.entries

\* open() accepts the files: it decodes them, cutting a torn frame, or first
\* completes the seal that the section at the end of the active file began.
Recoverable ==
  \/ Openable
  \/ /\ tail = "section"
     /\ \A g \in segments : \A e \in active : g.first # e.seq

\* Power fails between the write of a section and its sync_data, and part of the
\* section is left: neither a frame nor a section, which open() refuses.
TornSection == pc = "section_written" /\ tail' = "partial"

\* A crash at any point, and each step of the recovery after it, leaves files
\* that open() accepts, with one exception: a power failure that tears a section
\* before its sync_data (against the comment at read_sealed_segment, which has
\* the active file's torn tail repaired).
CrashLeavesOpenable ==
  [][(~up' /\ (up \/ Recoverable)) => (Recoverable' \/ TornSection)]_walVars

\* Once the lock is free the generation is even again, on every path out of a
\* rotation or a truncation, the failed rename included: a generation left odd
\* would send every later reader to the locked path for ever.
GenerationSettles == (up /\ pc = "idle") => rotations % 2 = 0

\* Every call that took the append lock releases it (or dies with the process),
\* through every error path of append, rotation and truncation.
LockReleased == (pc # "idle") ~> (pc = "idle")

\* The log implements DurableLog: every step of append, rotation, truncation,
\* crash and open stores new whole groups numbered above all that is known,
\* acknowledges stored entries, records a floor that forgets no promise, or
\* forgets entries up to the floor.
DL == INSTANCE DurableLog WITH
        stored <- Durable, acked <- acked, floor <- floor_marker
ImplementsDurableLog == DL!Spec
============================================================================
