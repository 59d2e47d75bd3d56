------------------------- MODULE CanonicalWalProofs -------------------------
(***************************************************************************)
(* Proofs about CanonicalWal, for any operations, collections, batches,    *)
(* segment size and bounds.                                                *)
(*                                                                         *)
(* The durability and numbering theorems hold as long as none of the       *)
(* faults happens that the runs WalRenameFails and WalFaults are about     *)
(* (Faultless below); failed writes, syncs, roll-backs, plain renames,     *)
(* deletes and floor markers, process crashes and power losses are all in. *)
(***************************************************************************)
EXTENDS CanonicalWal, MinMaxLemmas, SequenceTheorems, TLAPS

\* No caller drops an append, the roll-back of a summary section works, and the
\* rename of a file that has one succeeds ...
NoneLeftBehind ==
  /\ ~CallerMayCancel
  /\ SectionFaults = {} /\ "section" \notin RenameFaults

\* ... and a section is whole or absent after a crash.
Faultless == NoneLeftBehind /\ ~SectionMayTear

\* This step tears no section.
Whole == SectionMayTear => tail' # "partial"

(***************************************************************************)
(* The inductive invariant                                                 *)
(***************************************************************************)

\* Every entry of S comes before every entry of T.
Below(S, T) == \A e \in S, f \in T : e.seq < f.seq

\* S holds the whole group of each of its entries.
Closed(S) ==
  \A e \in S : \A n \in e.lo..e.hi :
    \E f \in S : f.seq = n /\ f.lo = e.lo /\ f.hi = e.hi

\* No two entries of S have one sequence.
Uniq(S) == \A e, f \in S : e.seq = f.seq => e = f

\* The file name carries the first sequence of the file.
FirstOf(n, S) == (\E e \in S : e.seq = n) /\ \A e \in S : n =< e.seq

\* A sealed file whose section, if it has one, says what its frames hold
FileOK(g) ==
  /\ g.good /\ g.summary \in {{}, g.entries}
  /\ FirstOf(g.first, g.entries)
  /\ Closed(g.entries)

\* A truncation covers all of the file or nothing of it.
WholeFloor(S, floor) == (\A e \in S : e.seq =< floor) \/ (\A e \in S : e.seq > floor)

\* The files: whole groups, in the order of their sequences, the active file
\* behind the others, what is not synced behind what is.
Files ==
  /\ \A e \in active : e.seq > floor_marker /\ e.lo =< e.seq
  /\ unsynced \subseteq active
  /\ Closed(active \ unsynced) /\ Closed(unsynced) /\ Uniq(unsynced)
  /\ Below(active \ unsynced, unsynced)
  /\ \A g \in segments :
       /\ FileOK(g) /\ WholeFloor(g.entries, floor_marker)
       /\ Below(g.entries, active)
       /\ \A h \in segments : g = h \/ Below(g.entries, h.entries)
                                    \/ Below(h.entries, g.entries)

\* Steps of an append before and after it published its sequences, of a
\* truncation, and of neither
Unpublished == {"append", "written", "write_failed", "sync_failed", "synced"}

Published == {"numbered", "high_water", "rotating", "section_written",
              "section_synced", "renamed", "pushed"}

Quiet == {"idle", "floor_marked", "deleting"}

\* What follows the frames of the active file
Tails ==
  /\ tail \in {"clean", "torn", "section"}
  /\ tail = "section" => active # {} /\ unsynced = {}
  /\ (up /\ pc \in {"append", "written", "sync_failed", "synced", "numbered",
                    "high_water", "rotating", "renamed", "pushed"})
       => tail = "clean"
  /\ (up /\ tail = "section") => pc \in {"section_written", "section_synced"}
  /\ (up /\ tail = "torn") => poisoned \/ pc = "write_failed"
  /\ pc \in Unpublished => pre_tail = "clean"
  /\ pc \notin Quiet => ~poisoned

\* A process that is down knows nothing.
Down ==
  ~up => pc = "idle" /\ batch = {} /\ victims = {} /\ ~poisoned /\ sealed = {}

\* The entries of the append in progress: whole groups with numbers of their
\* own, behind every acknowledged entry
BatchOK ==
  /\ Uniq(acked)
  /\ pc \in Quiet => batch = {}
  /\ pc \notin Quiet =>
       batch # {} /\ Closed(batch) /\ Uniq(batch) /\ Below(acked, batch)
  /\ pc \in Unpublished =>
       \A e \in batch : e.seq > next_sequence /\ e.lo > next_sequence /\ e.lo =< e.seq
  /\ pc \in Published => \A e \in batch : e.seq =< next_sequence

\* The running summary is the active file, but for the append in progress and
\* what a failed roll-back left.
SummaryOK ==
  up =>
    /\ pc \in Quiet =>
         /\ active_summary \subseteq active
         /\ active \ active_summary \subseteq unsynced
         /\ ~poisoned => active = active_summary
    /\ pc = "append" => active = active_summary
    /\ pc \in {"written", "sync_failed"} =>
         active = active_summary \cup batch /\ batch \subseteq unsynced
    /\ pc = "write_failed" =>
         /\ active_summary \subseteq active /\ active \subseteq active_summary \cup batch
         /\ active \cap batch \subseteq unsynced
    /\ pc \in {"synced", "numbered", "high_water"} =>
         active = active_summary \cup batch /\ unsynced = {}
    /\ pc \in {"rotating", "section_written", "section_synced"} =>
         active = active_summary /\ batch \subseteq active_summary /\ unsynced = {}
    /\ pc \in {"renamed", "pushed"} =>
         active = {} /\ batch \subseteq active_summary /\ unsynced = {}

\* Everything known is numbered up to next_sequence.
Numbered ==
  up =>
    /\ floor_marker =< next_sequence
    /\ \A e \in active_summary : e.seq =< next_sequence /\ e.seq > floor_marker
    /\ \A e \in acked : e.seq =< next_sequence
    /\ \A g \in segments : \A e \in g.entries : e.seq =< next_sequence

IsFile(s, g) == g.first = s.first /\ g.entries = s.entries

\* The list names files that are there; files it does not name are older than
\* those it does, but for the one a rotation is about to push.
ListOK ==
  up =>
    /\ \A s \in sealed : \E g \in segments : IsFile(s, g)
    /\ \A g \in segments :
         \/ \E s \in sealed : IsFile(s, g)
         \/ pc = "renamed" /\ g.entries = active_summary
         \/ \A s \in sealed : Below(g.entries, s.entries)
    /\ pc = "renamed" =>
         /\ \E g \in segments : /\ g.entries = active_summary
                                /\ g.first = Min(Seqs(active_summary))
         /\ \A s \in sealed : Below(s.entries, active_summary)
    /\ pc \in {"renamed", "pushed"} =>
         \A g \in segments : g.entries = active_summary \/ Below(g.entries, active_summary)
    /\ pc = "pushed" => \E s \in sealed : s.entries = active_summary

\* What a truncation is about to delete lies below its marker and below the
\* rest of the list.
VictimsOK ==
  /\ pc \notin {"floor_marked", "deleting"} => victims = {}
  /\ pc = "floor_marked" => victims \subseteq sealed
  /\ pc = "deleting" => victims \cap sealed = {}
  /\ pc = "deleting" => \A v \in victims : \A g \in segments :
                          g.first = v.first => g.entries = v.entries
  /\ \A v \in victims :
       /\ \A e \in v.entries : e.seq =< floor_marker
       /\ \A s \in sealed \ victims : Below(v.entries, s.entries)

\* An acknowledged entry is retained in memory or below the retained floor.
RetainedOK ==
  up => \A e \in acked :
          \/ e.seq < retained_from \/ e \in active_summary
          \/ \E s \in sealed : e \in s.entries

\* An acknowledged entry is durable, or below the marker and below all that is
\* still listed: no later truncation records a marker beneath it.
AckedOK ==
  \A e \in acked :
    \/ e \in Durable
    \/ e.seq =< floor_marker /\ \A s \in sealed : \A f \in s.entries : e.seq < f.seq

(***************************************************************************)
(* The generation, and history pins: two invariants of their own           *)
(***************************************************************************)

\* The generation is odd while list and disk may disagree.
Parity ==
  IF pc \in {"section_written", "section_synced", "renamed", "pushed", "deleting"}
  THEN rotations % 2 = 1 ELSE rotations % 2 = 0

\* Each step of the generation flips its parity.
LEMMA ParityFlips ==
  ASSUME NEW n \in Nat
  PROVE  /\ n % 2 \in {0, 1}
         /\ n % 2 = 0 => (n + 1) % 2 = 1
         /\ n % 2 = 1 => (n + 1) % 2 = 0
  OBVIOUS

ParityInv == rotations \in Nat /\ pc \in Pc /\ Parity

\* The generation starts even.
LEMMA ParityInit == Init => ParityInv
  BY DEF Init, ParityInv, Parity, Pc

\* Without cancellation a rotation or truncation that made it odd makes it even.
LEMMA ParityNext ==
  ASSUME ~CallerMayCancel
  PROVE  ParityInv /\ [Next]_walVars => ParityInv'
<1> SUFFICES ASSUME ParityInv, [Next]_walVars PROVE ParityInv'
  OBVIOUS
<1>0. /\ rotations \in Nat
      /\ rotations % 2 = 0 => (rotations + 1) % 2 = 1
      /\ rotations % 2 = 1 => (rotations + 1) % 2 = 0
  BY ParityFlips DEF ParityInv
<1>1. CASE CallStep
  BY <1>0, <1>1
  DEF ParityInv, Parity, CallStep, AppendStart, TruncateStart, PinHistory, DropPin,
      FenceBranches, AdvanceSequenceFloor, LoseOwnership, CancelAppend, memory, lock, Pc
<1>2. CASE AppendStep
  BY <1>0, <1>2
  DEF ParityInv, Parity, AppendStep, AppendWrite, AppendWriteFails, AppendSync,
      AppendSyncFails, RollBack, RollBackFails, PublishSequence, PublishHighWater,
      ObserveActive, Acknowledge, memory, Pc
<1>3. CASE RotateStep
  BY <1>0, <1>3
  DEF ParityInv, Parity, RotateStep, RotateWriteSection, RotateSkipSection,
      RotateSectionOpenFails, RotateSyncSection, RotateSectionFails,
      RotateSectionStays, RotateRename, RotateRenameFails, RotatePush, RotateEnd,
      Acknowledge, memory, Pc
<1>4. CASE TruncateStep
  BY <1>0, <1>4
  DEF ParityInv, Parity, TruncateStep, TruncateDrain, TruncateDelete, TruncateEnd,
      memory, Pc
<1>5. CASE CrashStep
  <2>1. ForgetMemory
    BY <1>5 DEF CrashStep, ProcessCrash, PowerLoss
  <2> QED BY <2>1 DEF ParityInv, Parity, ForgetMemory, Pc
<1>6. CASE OpenStep
  BY <1>6 DEF ParityInv, Parity, OpenStep, RecoverSeal, Open, memory, lock, Pc
<1>7. CASE UNCHANGED walVars
  BY <1>7 DEF ParityInv, Parity, walVars, memory, lock
<1> QED BY <1>1, <1>2, <1>3, <1>4, <1>5, <1>6, <1>7 DEF Next, LockHolderStep

\* Whenever the lock is free the generation is even: every path out of a
\* rotation or a truncation, the failed rename included, turns it back, as long
\* as no caller drops its append in between (rotate_active, truncate_below).
THEOREM GenerationEven ==
  ASSUME ~CallerMayCancel
  PROVE  Spec => []GenerationSettles
<1>1. ParityInv => GenerationSettles
  BY DEF ParityInv, Parity, GenerationSettles
<1> QED BY <1>1, ParityInit, ParityNext, PTL DEF Spec

(***************************************************************************)
(* Types, whatever faults happen                                           *)
(***************************************************************************)

\* The active file keeps a durable entry that was published: a section is
\* only ever written behind one.
Anchored ==
  \E e \in active \ unsynced : up => e.seq =< next_sequence

HasSection == {"section", "buried_section"}

\* What the types need of the append in progress: it has entries, numbered
\* above the published ones until it publishes them, and in the file, synced
\* and observed, by the time it rotates.
TypeInv ==
  /\ TypeOK
  /\ pc \notin Quiet => batch # {}
  /\ pc \in Unpublished => \A e \in batch : e.seq > next_sequence
  /\ pc \in Published => \A e \in batch : e.seq =< next_sequence
  /\ pc \in {"written", "synced", "numbered", "high_water", "rotating"} =>
       batch \subseteq active
  /\ pc \in {"synced", "numbered", "high_water", "rotating", "section_written",
             "section_synced", "renamed", "pushed"} => unsynced = {}
  /\ pc \in {"rotating", "section_written", "section_synced", "renamed", "pushed"} =>
       active_summary # {}
  /\ pc = "section_written" => tail \in HasSection
  /\ tail \in HasSection => Anchored
  /\ (pre_tail \in HasSection /\ (tail = "buried" \/ pc \in Unpublished))
       => Anchored
  /\ ~up => pc = "idle" /\ pre_tail = "clean"

\* The invariant of the log without the faults
IInv ==
  /\ TypeInv /\ Files /\ Tails /\ Down /\ BatchOK /\ SummaryOK
  /\ Numbered /\ ListOK /\ VictimsOK /\ RetainedOK /\ AckedOK

\* An entry's fields
LEMMA EntryFields ==
  /\ MaxSeq \in Nat /\ MaxBatch \in Nat /\ MaxPins \in Nat
  /\ \A e \in Entry : e.seq \in 1..MaxSeq /\ e.lo \in 1..MaxSeq /\ e.hi \in 1..MaxSeq
  BY BoundAssumption DEF Entry, Seq1

\* The first sequence of a set of entries
LEMMA MinSeqs ==
  ASSUME NEW S \in SUBSET Entry, S # {}
  PROVE  Min(Seqs(S)) \in Seq1 /\ FirstOf(Min(Seqs(S)), S)
<1>1. Seqs(S) \in SUBSET Nat /\ Seqs(S) # {} /\ Seqs(S) \subseteq Seq1
  BY EntryFields DEF Seqs, Seq1
<1>2. Min(Seqs(S)) \in Seqs(S) /\ \A y \in Seqs(S) : Min(Seqs(S)) =< y
  BY <1>1, MinOfNats
<1> QED BY <1>1, <1>2 DEF FirstOf, Seqs

\* The highest of a number and some sequences
LEMMA MaxSeqs ==
  ASSUME NEW a \in 0..MaxSeq, NEW S \in SUBSET Entry
  PROVE  /\ Max({a} \cup Seqs(S)) \in 0..MaxSeq /\ Max({a} \cup Seqs(S)) >= a
         /\ \A e \in S : e.seq =< Max({a} \cup Seqs(S))
         /\ Max({a} \cup Seqs(S)) = a \/ \E e \in S : e.seq = Max({a} \cup Seqs(S))
<1> DEFINE T == {a} \cup Seqs(S)
<1>1. T \in SUBSET (0..MaxSeq) /\ T # {} /\ MaxSeq \in Nat
  BY EntryFields DEF Seqs
<1>2. Max(T) \in T /\ \A y \in T : Max(T) >= y
  <2> HIDE DEF T
  <2> QED BY <1>1, MaxOfNats
<1>3. a \in T /\ \A e \in S : e.seq \in T
  BY DEF Seqs
<1>4. Max(T) \in 0..MaxSeq /\ \A e \in S : e.seq \in Nat
  BY <1>1, <1>2, EntryFields
<1>5. ASSUME NEW e \in S PROVE e.seq =< Max(T)
  <2>1. Max(T) >= e.seq /\ e.seq \in Nat /\ Max(T) \in Nat
    BY <1>2, <1>3, <1>4, EntryFields
  <2> HIDE DEF T
  <2> QED BY <2>1
<1>6. Max(T) = a \/ \E e \in S : e.seq = Max(T)
  BY <1>2 DEF Seqs
<1> QED BY <1>2, <1>3, <1>4, <1>5, <1>6

\* The highest sequence of a batch
LEMMA MaxBatchSeq ==
  ASSUME NEW S \in SUBSET Entry, S # {}
  PROVE  /\ Max(Seqs(S)) \in 1..MaxSeq
         /\ \A e \in S : e.seq =< Max(Seqs(S))
         /\ \E e \in S : e.seq = Max(Seqs(S))
<1>1. Seqs(S) \in SUBSET (0..MaxSeq) /\ Seqs(S) # {} /\ MaxSeq \in Nat
  BY EntryFields DEF Seqs
<1>2. Max(Seqs(S)) \in Seqs(S) /\ \A y \in Seqs(S) : Max(Seqs(S)) >= y
  BY <1>1, MaxOfNats
<1>3. \E e \in S : e.seq = Max(Seqs(S))
  BY <1>2 DEF Seqs
<1>4. Max(Seqs(S)) \in 1..MaxSeq
  BY <1>3, EntryFields
<1>5. ASSUME NEW e \in S PROVE e.seq =< Max(Seqs(S))
  <2>1. e.seq \in Seqs(S) /\ e.seq \in Nat
    BY EntryFields DEF Seqs
  <2> QED BY <1>2, <1>4, <2>1
<1> QED BY <1>3, <1>4, <1>5

\* Raised marks stay within the sequences.
LEMMA RaisedType ==
  ASSUME NEW marks \in [Coll -> 0..MaxSeq], NEW S \in SUBSET Entry
  PROVE  Raised(marks, S) \in [Coll -> 0..MaxSeq]
<1>1. ASSUME NEW c \in Coll
      PROVE  Max({marks[c]} \cup Seqs({e \in S : e.op.coll = c})) \in 0..MaxSeq
  <2> DEFINE T == {e \in S : e.op.coll = c}
  <2>1. T \in SUBSET Entry /\ marks[c] \in 0..MaxSeq
    OBVIOUS
  <2> HIDE DEF T
  <2>2. Max({marks[c]} \cup Seqs(T)) \in 0..MaxSeq
    BY <2>1, MaxSeqs
  <2> QED BY <2>2 DEF T
<1> QED BY <1>1 DEF Raised

\* The entries of a new append: whole groups, each with its own number, all
\* above the base.
LEMMA NewEntriesOK ==
  ASSUME NEW base \in Nat, NEW ops \in Batches, NEW group \in BOOLEAN,
         base + Len(ops) =< MaxSeq
  PROVE  /\ NewEntries(base, ops, group) \subseteq Entry
         /\ NewEntries(base, ops, group) # {}
         /\ \A e \in NewEntries(base, ops, group) :
              e.seq > base /\ e.lo > base /\ e.lo =< e.seq
         /\ Closed(NewEntries(base, ops, group))
         /\ Uniq(NewEntries(base, ops, group))
<1>1. PICK n \in 1..MaxBatch : ops \in [1..n -> Op]
  BY DEF Batches
<1>2. n \in Nat /\ n >= 1 /\ ops \in Seq(Op) /\ Len(ops) = n
  <2>1. n \in Nat /\ n >= 1
    BY EntryFields
  <2> QED BY <1>1, <2>1, IsASeq, LenProperties
<1> DEFINE new(i) == [seq |-> base + i, op |-> ops[i],
                      lo |-> IF group THEN base + 1 ELSE base + i,
                      hi |-> IF group THEN base + Len(ops) ELSE base + i]
           S == NewEntries(base, ops, group)
<1>3. S = {new(i) : i \in 1..n}
  BY <1>2 DEF NewEntries
<1>4. ASSUME NEW i \in 1..n
      PROVE  /\ new(i) \in Entry /\ new(i).seq = base + i
             /\ new(i).seq > base /\ new(i).lo > base /\ new(i).lo =< new(i).seq
             /\ new(i).lo = (IF group THEN base + 1 ELSE base + i)
             /\ new(i).hi = (IF group THEN base + n ELSE base + i)
  <2>1. /\ base + i \in 1..MaxSeq /\ base + 1 \in 1..MaxSeq /\ base + n \in 1..MaxSeq
        /\ ops[i] \in Op /\ i \in Nat /\ i >= 1
    BY <1>1, <1>2, EntryFields
  <2> QED BY <1>2, <2>1 DEF Entry, Seq1
<1> HIDE DEF new, S
<1>5. S \subseteq Entry /\ \A e \in S : e.seq > base /\ e.lo > base /\ e.lo =< e.seq
  BY <1>3, <1>4
<1>6. S # {}
  <2>1. 1 \in 1..n
    BY <1>2
  <2> QED BY <1>3, <2>1
<1>7. Closed(S)
  <2>1. ASSUME NEW i \in 1..n, NEW m \in new(i).lo..new(i).hi
        PROVE  \E f \in S : f.seq = m /\ f.lo = new(i).lo /\ f.hi = new(i).hi
    <3>1. CASE group
      <4>1. m \in (base + 1)..(base + n)
        BY <1>4, <2>1, <3>1
      <4>2. m - base \in 1..n /\ base + (m - base) = m
        BY <1>2, <4>1
      <4>3. new(m - base) \in S
        BY <1>3, <4>2
      <4> QED BY <1>4, <3>1, <4>2, <4>3
    <3>2. CASE ~group
      <4>1. m = base + i
        BY <1>2, <1>4, <2>1, <3>2
      <4> QED BY <1>3, <1>4, <4>1
    <3> QED BY <3>1, <3>2
  <2> QED BY <1>3, <2>1 DEF Closed
<1>8. Uniq(S)
  <2>1. ASSUME NEW i \in 1..n, NEW j \in 1..n, new(i).seq = new(j).seq
        PROVE  i = j
    BY <1>2, <1>4, <2>1
  <2> QED BY <1>3, <2>1 DEF Uniq
<1> QED BY <1>5, <1>6, <1>7, <1>8 DEF S

\* Types hold of an empty directory.
LEMMA TypeInit == Init => TypeInv
<1> SUFFICES ASSUME Init PROVE TypeInv
  OBVIOUS
<1>1. pins \in [1..(MaxSeq + 1) -> 0..MaxPins] /\ collection_max \in [Coll -> 0..MaxSeq]
  BY EntryFields DEF Init, NoPins
<1>2. 0 \in 0..MaxSeq /\ 0 \in 0..(MaxSeq + 1) /\ 0 \in Nat
  BY EntryFields
<1>3. TypeOK
  BY <1>1, <1>2 DEF Init, TypeOK, TailKind, Pc
<1> QED BY <1>3 DEF Init, TypeInv, HasSection, Quiet, Unpublished, Published

\* Types: append_entries takes the lock and numbers its batch.
LEMMA TypeAppendStart ==
  ASSUME TypeInv, NEW ops \in Batches, NEW group \in BOOLEAN, AppendStart(ops, group)
  PROVE  TypeInv'
<1>1. next_sequence \in Nat /\ next_sequence + Len(ops) =< MaxSeq
  BY EntryFields DEF TypeInv, TypeOK, AppendStart
<1>2. /\ batch' \subseteq Entry /\ batch' # {}
      /\ \A e \in batch' : e.seq > next_sequence
  BY <1>1, NewEntriesOK DEF AppendStart
<1>3. TypeOK'
  BY <1>2 DEF TypeInv, TypeOK, AppendStart, disk, memory, Pc
<1> QED BY <1>2, <1>3
  DEF TypeInv, AppendStart, disk, memory, Anchored, Quiet, Unpublished, Published

\* Types: the batch's frames are written.
LEMMA TypeAppendWrite ==
  ASSUME TypeInv, NEW W, W \subseteq batch, up, pc = "append",
         active' = active \cup W, unsynced' = unsynced \cup W,
         \/ pc' = "written" /\ W = batch /\ tail' = TailUnder(tail, "clean")
         \/ pc' = "write_failed" /\ tail' = TailUnder(tail, "torn"),
         UNCHANGED <<segments, floor_marker, up, memory, batch, pre_tail, victims, acked>>
  PROVE  TypeInv'
<1>1. tail' \in TailKind /\ tail' \notin HasSection
  BY DEF TypeInv, TypeOK, TailUnder, TailKind, HasSection
<1>2. TypeOK'
  BY <1>1 DEF TypeInv, TypeOK, memory, Pc
<1>3. pre_tail \in HasSection => Anchored
  BY DEF TypeInv, Unpublished
<1>4. Anchored => Anchored'
  <2> SUFFICES ASSUME Anchored PROVE Anchored'
    OBVIOUS
  <2>1. PICK e \in active \ unsynced : e.seq =< next_sequence
    BY DEF Anchored
  <2>2. e \notin batch
    <3>1. e.seq \in Nat /\ next_sequence \in Nat
      BY EntryFields DEF TypeInv, TypeOK
    <3> QED BY <2>1, <3>1 DEF TypeInv, Unpublished
  <2> QED BY <2>1, <2>2 DEF Anchored, memory
<1> QED BY <1>1, <1>2, <1>3, <1>4
  DEF TypeInv, memory, Quiet, Unpublished, Published

\* A part of what was written is part of it.
LEMMA WholeFramesSub == \A S, k : WholeFrames(S, k) \subseteq S
  BY DEF WholeFrames

\* Types: every step of an append, its failures and roll-backs included.
LEMMA TypeAppendStep ==
  ASSUME TypeInv, AppendStep
  PROVE  TypeInv'
<1>0. /\ TypeOK
      /\ next_sequence \in Nat /\ batch \in SUBSET Entry
  BY EntryFields DEF TypeInv, TypeOK, Unpublished, Quiet
<1>1. CASE AppendWrite
  BY <1>1, TypeAppendWrite DEF AppendWrite
<1>2. ASSUME NEW k \in 0..MaxSeq, AppendWriteFails(k) PROVE TypeInv'
  BY <1>2, WholeFramesSub, TypeAppendWrite DEF AppendWriteFails
<1>3. CASE AppendSync
  <2>1. TypeOK'
    BY <1>3 DEF TypeInv, TypeOK, AppendSync, memory, Pc
  <2> QED BY <1>3, <2>1
    DEF TypeInv, AppendSync, memory, Anchored, Quiet, Unpublished, Published
<1>4. CASE AppendSyncFails
  <2>1. TypeOK'
    BY <1>4 DEF TypeInv, TypeOK, AppendSyncFails, disk, memory, Pc
  <2> QED BY <1>4, <2>1
    DEF TypeInv, AppendSyncFails, disk, memory, Anchored, Quiet, Unpublished, Published
<1>5. CASE RollBack
  <2>1. TypeOK'
    BY <1>5 DEF TypeInv, TypeOK, RollBack, Pc
  <2>2. pre_tail \in HasSection => Anchored'
    <3> SUFFICES ASSUME pre_tail \in HasSection PROVE Anchored'
      OBVIOUS
    <3>1. Anchored /\ up
      BY <1>5 DEF TypeInv, RollBack, Unpublished
    <3>2. PICK e \in active \ unsynced : e.seq =< next_sequence
      BY <3>1 DEF Anchored
    <3>3. e \notin batch
      <4>1. e.seq \in Nat
        BY EntryFields DEF TypeInv, TypeOK
      <4> QED BY <1>0, <1>5, <3>2, <4>1 DEF TypeInv, RollBack, Unpublished
    <3> QED BY <1>5, <3>2, <3>3 DEF Anchored, RollBack
  <2> QED BY <1>5, <2>1, <2>2
    DEF TypeInv, RollBack, Quiet, Unpublished, Published
<1>6. CASE RollBackFails
  <2>1. TypeOK'
    BY <1>6 DEF TypeInv, TypeOK, RollBackFails, disk, Pc
  <2> QED BY <1>6, <2>1
    DEF TypeInv, RollBackFails, disk, Anchored, Quiet, Unpublished, Published
<1>7. CASE PublishSequence
  <2>1. /\ next_sequence' \in 1..MaxSeq /\ next_sequence < next_sequence'
        /\ \A e \in batch : e.seq =< next_sequence'
    <3>1. batch # {} /\ \A e \in batch : e.seq > next_sequence
      BY <1>7 DEF TypeInv, PublishSequence, Quiet, Unpublished
    <3>2. /\ Max(Seqs(batch)) \in 1..MaxSeq
          /\ \A e \in batch : e.seq =< Max(Seqs(batch))
          /\ \E e \in batch : e.seq = Max(Seqs(batch))
      BY <1>0, <3>1, MaxBatchSeq
    <3> QED BY <1>0, <1>7, <3>1, <3>2, EntryFields DEF PublishSequence
  <2>2. TypeOK'
    BY <1>7, <2>1 DEF TypeInv, TypeOK, PublishSequence, disk, Pc
  <2>3. Anchored => Anchored'
    <3>1. \A e \in active : e.seq \in Nat
      BY <1>0, EntryFields DEF TypeOK
    <3> QED BY <1>0, <1>7, <2>1, <3>1, EntryFields DEF Anchored, PublishSequence, disk
  <2> QED BY <1>7, <2>1, <2>2, <2>3
    DEF TypeInv, PublishSequence, disk, Quiet, Unpublished, Published
<1>8. CASE PublishHighWater
  <2>1. collection_max' \in [Coll -> 0..MaxSeq]
    BY <1>0, <1>8, RaisedType DEF TypeOK, PublishHighWater
  <2>2. TypeOK'
    BY <1>8, <2>1 DEF TypeInv, TypeOK, PublishHighWater, disk, Pc
  <2> QED BY <1>8, <2>2
    DEF TypeInv, PublishHighWater, disk, Anchored, Quiet, Unpublished, Published
<1>9. CASE ObserveActive
  <2>1. TypeOK'
    BY <1>9 DEF TypeInv, TypeOK, ObserveActive, Acknowledge, disk, Pc
  <2>2. batch # {}
    BY <1>9 DEF TypeInv, ObserveActive, Quiet
  <2>3. CASE SealDue
    BY <1>9, <2>1, <2>2, <2>3
    DEF TypeInv, ObserveActive, disk, Anchored, Quiet, Unpublished, Published
  <2>4. CASE ~SealDue
    BY <1>9, <2>1, <2>2, <2>4
    DEF TypeInv, ObserveActive, Acknowledge, disk, Anchored, Quiet, Unpublished, Published
  <2> QED BY <2>3, <2>4
<1> QED BY <1>1, <1>2, <1>3, <1>4, <1>5, <1>6, <1>7, <1>8, <1>9 DEF AppendStep

\* Types: every step of a rotation, with and without a section.
LEMMA TypeRotateStep ==
  ASSUME TypeInv, RotateStep
  PROVE  TypeInv'
<1>0. TypeOK
  BY DEF TypeInv
<1>1. CASE RotateWriteSection
  <2>1. tail' \in TailKind
    BY <1>0, <1>1 DEF RotateWriteSection, TailUnder, TailKind
  <2>2. TypeOK'
    BY <1>0, <1>1, <2>1 DEF TypeOK, RotateWriteSection, Pc
  <2>3. PICK e \in batch : e \in active /\ e.seq =< next_sequence /\ unsynced = {}
    BY <1>1 DEF TypeInv, RotateWriteSection, Quiet, Published
  <2>4. Anchored' /\ tail' \in HasSection
    BY <1>1, <2>3 DEF Anchored, RotateWriteSection, TailUnder, HasSection
  <2> QED BY <1>1, <2>2, <2>4
    DEF TypeInv, RotateWriteSection, Quiet, Unpublished, Published
<1>2. CASE RotateSkipSection
  <2>1. TypeOK'
    BY <1>0, <1>2 DEF TypeOK, RotateSkipSection, disk, Pc
  <2> QED BY <1>2, <2>1
    DEF TypeInv, RotateSkipSection, disk, Anchored, Quiet, Unpublished, Published
<1>3. CASE RotateSectionOpenFails
  <2>1. TypeOK'
    BY <1>0, <1>3 DEF TypeOK, RotateSectionOpenFails, Pc, TailKind
  <2> QED BY <1>3, <2>1
    DEF TypeInv, RotateSectionOpenFails, HasSection, Quiet, Unpublished, Published
<1>4. CASE RotateSyncSection
  <2>1. TypeOK'
    BY <1>0, <1>4 DEF TypeOK, RotateSyncSection, memory, Pc
  <2> QED BY <1>4, <2>1
    DEF TypeInv, RotateSyncSection, memory, Anchored, Quiet, Unpublished, Published
<1>5. CASE RotateSectionFails \/ RotateSectionStays
  <2>1. /\ tail' \in {tail, "clean", "partial", "buried"}
        /\ tail' = "buried" => tail \notin {"section"}
        /\ up /\ pc = "section_written" /\ pc' = "section_synced"
        /\ UNCHANGED <<active, unsynced, segments, floor_marker, up, memory, batch,
                       pre_tail, victims, acked>>
    BY <1>5 DEF RotateSectionFails, RotateSectionStays
  <2>2. TypeOK'
    BY <1>0, <2>1 DEF TypeOK, memory, Pc, TailKind
  <2>3. Anchored' = Anchored
    BY <2>1 DEF Anchored, memory
  <2>4. tail' \in HasSection => tail \in HasSection
    BY <2>1 DEF HasSection
  <2>5. tail' = "buried" => tail = "buried" \/ tail \in HasSection
    BY <2>1 DEF TypeInv
  <2> QED BY <2>1, <2>2, <2>3, <2>4, <2>5
    DEF TypeInv, memory, Quiet, Unpublished, Published
<1>6. CASE RotateRename
  <2>1. active_summary # {} /\ unsynced = {} /\ active_summary \in SUBSET Entry
    BY <1>0, <1>6 DEF TypeInv, TypeOK, RotateRename
  <2>2. Min(Seqs(active_summary)) \in Seq1
    BY <2>1, MinSeqs
  <2> DEFINE new == [first |-> Min(Seqs(active_summary)), entries |-> active,
                     summary |-> IF tail \in {"section", "buried_section"}
                                 THEN active_summary ELSE {},
                     good |-> tail \in {"clean", "section"}]
  <2>3. segments' \subseteq Segment
    <3>1. new \in Segment
      BY <1>0, <2>1, <2>2 DEF TypeOK, Segment
    <3>2. segments' \subseteq segments \cup {new}
      BY <1>6 DEF RotateRename
    <3> HIDE DEF new
    <3> QED BY <1>0, <3>1, <3>2 DEF TypeOK
  <2>4. TypeOK'
    BY <1>0, <1>6, <2>1, <2>3 DEF TypeOK, RotateRename, memory, Pc, TailKind
  <2> QED BY <1>6, <2>1, <2>4
    DEF TypeInv, RotateRename, memory, HasSection, Quiet, Unpublished, Published
<1>7. CASE RotateRenameFails
  <2>1. TypeOK'
    BY <1>0, <1>7 DEF TypeOK, RotateRenameFails, Acknowledge, disk, Pc
  <2> QED BY <1>7, <2>1
    DEF TypeInv, RotateRenameFails, Acknowledge, disk, Anchored, Quiet, Unpublished, Published
<1>8. CASE RotatePush
  <2>1. active_summary # {} /\ active_summary \in SUBSET Entry
    BY <1>0, <1>8 DEF TypeInv, TypeOK, RotatePush
  <2>2. Min(Seqs(active_summary)) \in Seq1
    BY <2>1, MinSeqs
  <2>3. sealed' \subseteq Summary
    BY <1>0, <1>8, <2>1, <2>2 DEF TypeOK, RotatePush, Summary
  <2>4. TypeOK'
    BY <1>0, <1>8, <2>3 DEF TypeOK, RotatePush, disk, Pc
  <2> QED BY <1>8, <2>4
    DEF TypeInv, RotatePush, disk, Anchored, Quiet, Unpublished, Published
<1>9. CASE RotateEnd
  <2>1. TypeOK'
    BY <1>0, <1>9 DEF TypeOK, RotateEnd, Acknowledge, disk, Pc
  <2> QED BY <1>9, <2>1
    DEF TypeInv, RotateEnd, Acknowledge, disk, Anchored, Quiet, Unpublished, Published
<1> QED BY <1>1, <1>2, <1>3, <1>4, <1>5, <1>6, <1>7, <1>8, <1>9 DEF RotateStep

\* The floor a truncation records
LEMMA MarkerType ==
  ASSUME TypeOK, NEW doomed \in SUBSET sealed
  PROVE  /\ Max({0} \cup Seqs(UNION {s.entries : s \in doomed})) \in 0..MaxSeq
         /\ \A s \in doomed : \A e \in s.entries :
              e.seq =< Max({0} \cup Seqs(UNION {t.entries : t \in doomed}))
         /\ \/ Max({0} \cup Seqs(UNION {s.entries : s \in doomed})) = 0
            \/ \E s \in doomed : \E e \in s.entries :
                 e.seq = Max({0} \cup Seqs(UNION {t.entries : t \in doomed}))
<1> DEFINE U == UNION {s.entries : s \in doomed}
<1>1. U \in SUBSET Entry
  BY DEF TypeOK, Summary
<1>2. /\ \A s \in doomed : \A e \in s.entries : e \in U
      /\ \A e \in U : \E s \in doomed : e \in s.entries
  OBVIOUS
<1>3. 0 \in 0..MaxSeq
  BY EntryFields
<1> HIDE DEF U
<1>4. /\ Max({0} \cup Seqs(U)) \in 0..MaxSeq
      /\ \A e \in U : e.seq =< Max({0} \cup Seqs(U))
      /\ Max({0} \cup Seqs(U)) = 0 \/ \E e \in U : e.seq = Max({0} \cup Seqs(U))
  BY <1>1, <1>3, MaxSeqs
<1>5. /\ \A s \in doomed : \A e \in s.entries : e.seq =< Max({0} \cup Seqs(U))
      /\ \/ Max({0} \cup Seqs(U)) = 0
         \/ \E s \in doomed : \E e \in s.entries : e.seq = Max({0} \cup Seqs(U))
  BY <1>2, <1>4
<1> QED BY <1>4, <1>5 DEF U

\* What a truncation that starts may do
LEMMA TruncateStarts ==
  ASSUME TypeOK, NEW floor \in 1..(MaxSeq + 1), NEW outcome \in MarkerOutcomes,
         TruncateStart(floor, outcome)
  PROVE  LET doomed == PrefixBelow(sealed, PinnedFloor(floor))
         IN  \/ UNCHANGED <<floor_marker, victims, pc>>
             \/ /\ doomed # {} /\ doomed \subseteq sealed
                /\ floor_marker' = Max({0} \cup Seqs(UNION {s.entries : s \in doomed}))
                /\ floor_marker' \in 0..MaxSeq
                /\ \/ outcome = "not_synced" /\ UNCHANGED <<victims, pc>>
                   \/ victims' = doomed /\ pc' = "floor_marked"
<1> DEFINE doomed == PrefixBelow(sealed, PinnedFloor(floor))
<1>1. doomed \in SUBSET sealed
  BY DEF PrefixBelow
<1> HIDE DEF doomed
<1>2. Max({0} \cup Seqs(UNION {s.entries : s \in doomed})) \in 0..MaxSeq
  BY <1>1, MarkerType
<1> QED BY <1>1, <1>2 DEF TruncateStart, doomed

\* Types: every step of truncate_below.
LEMMA TypeTruncate ==
  ASSUME TypeInv,
         \/ TruncateStep
         \/ \E floor \in 1..(MaxSeq + 1), outcome \in MarkerOutcomes :
              TruncateStart(floor, outcome)
  PROVE  TypeInv'
<1>0. TypeOK
  BY DEF TypeInv
<1>1. ASSUME NEW floor \in 1..(MaxSeq + 1), NEW outcome \in MarkerOutcomes,
             TruncateStart(floor, outcome)
      PROVE  TypeInv'
  <2>1. /\ floor_marker' \in 0..MaxSeq /\ victims' \subseteq Summary
        /\ pc' \in {"idle", "floor_marked"} /\ pc = "idle" /\ up /\ branch_fence' = NoFence
        /\ UNCHANGED <<active, unsynced, tail, segments, up, next_sequence,
                    poisoned, lost, collection_max, sealed, active_summary,
                    rotations, retained_from, pins, batch, pre_tail, acked>>
    BY <1>0, <1>1, TruncateStarts DEF TypeOK, TruncateStart
  <2>2. TypeOK'
    BY <1>0, <2>1 DEF TypeOK, Pc
  <2> QED BY <2>1, <2>2 DEF TypeInv, Anchored, Quiet, Unpublished, Published
<1>2. CASE TruncateDrain
  <2>1. retained_from' \in 0..(MaxSeq + 1)
    <3> DEFINE T == {retained_from, RetainedAbove(floor_marker)}
    <3>1. T \in SUBSET (0..(MaxSeq + 1)) /\ T # {} /\ MaxSeq + 1 \in Nat
      BY <1>0, EntryFields DEF TypeOK, RetainedAbove
    <3>2. retained_from' = Max(T)
      BY <1>2 DEF TruncateDrain
    <3> HIDE DEF T
    <3> QED BY <3>1, <3>2, MaxOfNats
  <2>2. TypeOK'
    BY <1>0, <1>2, <2>1 DEF TypeOK, TruncateDrain, disk, Pc
  <2> QED BY <1>2, <2>2
    DEF TypeInv, TruncateDrain, disk, Anchored, Quiet, Unpublished, Published
<1>3. ASSUME NEW fails \in BOOLEAN, TruncateDelete(fails) PROVE TypeInv'
  <2>1. segments' \subseteq segments /\ victims' \subseteq victims
    BY <1>3 DEF TruncateDelete
  <2>2. TypeOK'
    BY <1>0, <1>3, <2>1 DEF TypeOK, TruncateDelete, memory, Pc
  <2> QED BY <1>3, <2>2
    DEF TypeInv, TruncateDelete, memory, Anchored, Quiet, Unpublished, Published
<1>4. CASE TruncateEnd
  <2>1. TypeOK'
    BY <1>0, <1>4 DEF TypeOK, TruncateEnd, disk, Pc
  <2> QED BY <1>4, <2>1
    DEF TypeInv, TruncateEnd, disk, Anchored, Quiet, Unpublished, Published
<1> QED BY <1>1, <1>2, <1>3, <1>4 DEF TruncateStep

\* Types: the other calls, pins, fences and cancellations.
LEMMA TypeCall ==
  ASSUME TypeInv,
         \/ \E lsn \in 0..MaxSeq : PinHistory(lsn)
         \/ \E floor \in 1..(MaxSeq + 1) : DropPin(floor)
         \/ \E fence \in Fences : FenceBranches(fence)
         \/ \E floor \in 1..MaxSeq : AdvanceSequenceFloor(floor)
         \/ LoseOwnership
         \/ CancelAppend
  PROVE  TypeInv'
<1>0. TypeOK
  BY DEF TypeInv
<1>1. ASSUME \/ \E lsn \in 0..MaxSeq : PinHistory(lsn)
             \/ \E floor \in 1..(MaxSeq + 1) : DropPin(floor)
      PROVE  TypeInv'
  <2>1. PICK p \in 1..(MaxSeq + 1) :
          \/ pins[p] < MaxPins /\ pins' = [pins EXCEPT ![p] = pins[p] + 1]
          \/ pins[p] > 0 /\ pins' = [pins EXCEPT ![p] = pins[p] - 1]
    <3>1. ASSUME NEW lsn \in 0..MaxSeq PROVE lsn + 1 \in 1..(MaxSeq + 1)
      BY EntryFields
    <3> QED BY <1>1, <3>1 DEF PinHistory, DropPin
  <2>2. /\ pins[p] < MaxPins => pins[p] + 1 \in 0..MaxPins
        /\ pins[p] > 0 => pins[p] - 1 \in 0..MaxPins
    BY <1>0, EntryFields DEF TypeOK
  <2>3. pins' \in [1..(MaxSeq + 1) -> 0..MaxPins]
    BY <1>0, <2>1, <2>2 DEF TypeOK
  <2>4. UNCHANGED <<disk, up, next_sequence, poisoned, lost, collection_max,
                    sealed, active_summary, rotations, retained_from,
                    branch_fence, lock, acked>>
    BY <1>1 DEF PinHistory, DropPin
  <2>5. TypeOK'
    BY <1>0, <2>3, <2>4 DEF TypeOK, disk, lock
  <2> QED BY <2>4, <2>5 DEF TypeInv, disk, lock, Anchored
<1>2. ASSUME NEW fence \in Fences, FenceBranches(fence) PROVE TypeInv'
  <2>1. TypeOK'
    BY <1>0, <1>2 DEF TypeOK, FenceBranches, disk, lock
  <2> QED BY <1>2, <2>1 DEF TypeInv, FenceBranches, disk, lock, Anchored
<1>3. ASSUME NEW floor \in 1..MaxSeq, AdvanceSequenceFloor(floor) PROVE TypeInv'
  <2> DEFINE T == {next_sequence, floor}
  <2>1. T \in SUBSET (0..MaxSeq) /\ T # {} /\ MaxSeq \in Nat
    BY <1>0, EntryFields DEF TypeOK
  <2>2. next_sequence' = Max(T) /\ next_sequence \in T
    BY <1>3 DEF AdvanceSequenceFloor
  <2>3. next_sequence' \in 0..MaxSeq /\ next_sequence' >= next_sequence
    <3> HIDE DEF T
    <3> QED BY <2>1, <2>2, MaxOfNats
  <2>4. TypeOK'
    BY <1>0, <1>3, <2>3 DEF TypeOK, AdvanceSequenceFloor, disk, lock
  <2>5. Anchored => Anchored'
    <3>1. \A e \in active : e.seq \in Nat
      BY <1>0, EntryFields DEF TypeOK
    <3>2. next_sequence \in Nat /\ next_sequence' \in Nat
      BY <1>0, <2>3, EntryFields DEF TypeOK
    <3> QED BY <1>3, <2>3, <3>1, <3>2 DEF Anchored, AdvanceSequenceFloor, disk
  <2> QED BY <1>3, <2>4, <2>5
    DEF TypeInv, AdvanceSequenceFloor, disk, lock, Quiet, Unpublished, Published
<1>4. CASE LoseOwnership
  <2>1. TypeOK'
    BY <1>0, <1>4 DEF TypeOK, LoseOwnership, disk, lock
  <2> QED BY <1>4, <2>1 DEF TypeInv, LoseOwnership, disk, lock, Anchored
<1>5. CASE CancelAppend
  <2>1. TypeOK'
    BY <1>0, <1>5 DEF TypeOK, CancelAppend, disk, memory, Pc
  <2> QED BY <1>5, <2>1
    DEF TypeInv, CancelAppend, disk, memory, Anchored, Quiet, Unpublished, Published
<1> QED BY <1>1, <1>2, <1>3, <1>4, <1>5

\* What a dead process forgets has the types of a fresh one.
LEMMA ForgetTypes ==
  ASSUME ForgetMemory, active' \subseteq Entry, unsynced' \subseteq active',
         tail' \in TailKind, segments' \subseteq Segment, floor_marker' \in 0..MaxSeq,
         acked' \subseteq Entry, tail' \in HasSection => active' \ unsynced' # {}
  PROVE  TypeInv'
<1>1. /\ pins' \in [1..(MaxSeq + 1) -> 0..MaxPins]
      /\ collection_max' \in [Coll -> 0..MaxSeq]
  BY EntryFields DEF ForgetMemory, NoPins
<1>2. 0 \in 0..MaxSeq /\ 0 \in 0..(MaxSeq + 1) /\ 0 \in Nat
  BY EntryFields
<1>3. TypeOK'
  BY <1>1, <1>2 DEF ForgetMemory, TypeOK, TailKind, Pc
<1> QED BY <1>3
  DEF ForgetMemory, TypeInv, Anchored, HasSection, Quiet, Unpublished, Published

\* Types: a process crash or a power loss.
LEMMA TypeCrash ==
  ASSUME TypeInv, CrashStep
  PROVE  TypeInv'
<1>0. TypeOK
  BY DEF TypeInv
<1>1. CASE ProcessCrash
  <2>1. tail \in HasSection => active \ unsynced # {}
    BY DEF TypeInv, Anchored
  <2> QED BY <1>0, <1>1, <2>1, ForgetTypes DEF TypeOK, ProcessCrash, disk
<1>2. ASSUME NEW k \in 0..MaxSeq, PowerLoss(k) PROVE TypeInv'
  <2> DEFINE kept == (active \ unsynced) \cup WholeFrames(unsynced, k)
  <2>1. /\ kept \subseteq active /\ active \ unsynced \subseteq kept
        /\ active' = kept /\ unsynced' = {} /\ tail' \in TailsAfterPowerLoss(kept)
        /\ ForgetMemory /\ UNCHANGED <<segments, floor_marker, acked>>
    BY <1>0, <1>2, WholeFramesSub DEF PowerLoss, TypeOK
  <2> HIDE DEF kept
  <2>2. /\ tail' \in TailKind
        /\ tail' \in HasSection =>
             tail \in HasSection \/ (tail = "buried" /\ pre_tail \in HasSection)
    <3>1. tail \in TailKind /\ pre_tail \in TailKind
      BY <1>0 DEF TypeOK
    <3>2. CASE pc = "section_written" /\ tail = "section"
      BY <2>1, <3>2 DEF TailsAfterPowerLoss, TailKind, HasSection
    <3>3. CASE pc = "section_written" /\ tail = "buried_section"
      BY <2>1, <3>3 DEF TailsAfterPowerLoss, TailKind, HasSection
    <3>4. CASE ~(pc = "section_written" /\ tail \in HasSection)
      BY <2>1, <3>1, <3>4 DEF TailsAfterPowerLoss, TailKind, HasSection
    <3> QED BY <3>2, <3>3, <3>4 DEF HasSection
  <2>3. tail' \in HasSection => Anchored
    BY <2>2 DEF TypeInv
  <2>4. tail' \in HasSection => active' \ unsynced' # {}
    BY <2>1, <2>3 DEF Anchored
  <2> QED BY <1>0, <2>1, <2>2, <2>4, ForgetTypes DEF TypeOK
<1> QED BY <1>1, <1>2 DEF CrashStep

\* What boot makes of the files has the types of the list.
LEMMA BootTypes ==
  ASSUME TypeOK
  PROVE  /\ \A g \in segments : BootSummary(g) \in Summary
         /\ Kept \subseteq segments
         /\ {BootSummary(g) : g \in Kept} \subseteq Summary
         /\ active \cup UNION {s.entries : s \in {BootSummary(g) : g \in Kept}}
              \subseteq Entry
<1>1. ASSUME NEW g \in segments PROVE BootSummary(g) \in Summary
  <2>1. g \in Segment
    BY DEF TypeOK
  <2> QED BY <2>1 DEF BootSummary, Summary, Segment
<1>2. Kept \subseteq segments
  BY DEF Kept
<1>3. {BootSummary(g) : g \in Kept} \subseteq Summary
  BY <1>1, <1>2
<1>4. active \cup UNION {s.entries : s \in {BootSummary(g) : g \in Kept}}
              \subseteq Entry
  <2> DEFINE L == {BootSummary(g) : g \in Kept}
  <2>1. L \subseteq Summary
    BY <1>3
  <2> HIDE DEF L
  <2>2. active \cup UNION {s.entries : s \in L} \subseteq Entry
    BY <2>1 DEF TypeOK, Summary
  <2> QED BY <2>2 DEF L
<1> QED BY <1>1, <1>2, <1>3, <1>4

\* Types: recover_interrupted_seal and open.
LEMMA TypeOpen ==
  ASSUME TypeInv, OpenStep
  PROVE  TypeInv'
<1>0. TypeOK
  BY DEF TypeInv
<1>1. CASE RecoverSeal
  <2>1. active # {} /\ active \in SUBSET Entry
    BY <1>0, <1>1 DEF TypeInv, TypeOK, RecoverSeal, Anchored, HasSection
  <2>2. Min(Seqs(active)) \in Seq1
    BY <2>1, MinSeqs
  <2> DEFINE new == [first |-> Min(Seqs(active)), entries |-> active,
                     summary |-> active, good |-> tail = "section"]
  <2>3. new \in Segment
    BY <2>1, <2>2 DEF Segment
  <2>4. segments' = segments \cup {new}
    BY <1>1 DEF RecoverSeal
  <2> HIDE DEF new
  <2>5. TypeOK'
    BY <1>0, <1>1, <2>3, <2>4 DEF TypeOK, RecoverSeal, memory, lock, TailKind
  <2> QED BY <1>1, <2>5 DEF TypeInv, RecoverSeal, memory, lock, HasSection,
        Quiet, Unpublished, Published
<1>2. ASSUME NEW undeleted \in SUBSET segments, Open(undeleted) PROVE TypeInv'
  <2> DEFINE list == {BootSummary(g) : g \in Kept}
             seen == active \cup UNION {s.entries : s \in list}
  <2>1. list \subseteq Summary /\ seen \in SUBSET Entry /\ Kept \subseteq segments
    BY <1>0, BootTypes
  <2>2. /\ ~up /\ segments' = Kept \cup undeleted /\ tail' = "clean" /\ up' = TRUE
        /\ sealed' = list /\ active_summary' = active
        /\ next_sequence' = ResumeAfter(seen)
        /\ collection_max' = Raised([c \in Coll |-> 0], seen)
        /\ retained_from' = IF floor_marker > 0 THEN RetainedAbove(floor_marker) ELSE 0
        /\ UNCHANGED <<active, unsynced, floor_marker, poisoned, lost, rotations,
                       pins, branch_fence, lock, acked>>
    BY <1>2 DEF Open
  <2> HIDE DEF list, seen
  <2>3. next_sequence' \in 0..MaxSeq
    BY <1>0, <2>1, <2>2, MaxSeqs DEF ResumeAfter, TypeOK
  <2>4. collection_max' \in [Coll -> 0..MaxSeq]
    <3>1. [c \in Coll |-> 0] \in [Coll -> 0..MaxSeq]
      BY EntryFields
    <3> QED BY <2>1, <2>2, <3>1, RaisedType
  <2>5. retained_from' \in 0..(MaxSeq + 1)
    BY <1>0, <2>2, EntryFields DEF TypeOK, RetainedAbove
  <2>6. TypeOK'
    BY <1>0, <2>1, <2>2, <2>3, <2>4, <2>5 DEF TypeOK, lock, TailKind
  <2>7. pc = "idle" /\ pre_tail = "clean"
    BY <2>2 DEF TypeInv
  <2> QED BY <2>2, <2>6, <2>7
    DEF TypeInv, lock, HasSection, Quiet, Unpublished, Published
<1> QED BY <1>1, <1>2 DEF OpenStep

\* Every step keeps the types.
LEMMA TypeNext == TypeInv /\ [Next]_walVars => TypeInv'
<1> SUFFICES ASSUME TypeInv, [Next]_walVars PROVE TypeInv'
  OBVIOUS
<1>1. CASE CallStep
  BY <1>1, TypeAppendStart, TypeTruncate, TypeCall DEF CallStep
<1>2. CASE LockHolderStep
  BY <1>2, TypeAppendStep, TypeRotateStep, TypeTruncate DEF LockHolderStep
<1>3. CASE CrashStep
  BY <1>3, TypeCrash
<1>4. CASE OpenStep
  BY <1>4, TypeOpen
<1>5. CASE UNCHANGED walVars
  <2>1. TypeOK'
    BY <1>5 DEF TypeInv, TypeOK, walVars, disk, memory, lock
  <2> QED BY <1>5, <2>1 DEF TypeInv, Anchored, walVars, disk, memory, lock
<1> QED BY <1>1, <1>2, <1>3, <1>4, <1>5 DEF Next

\* The types and what they need hold in every reachable state.
LEMMA TypeInvariant == Spec => []TypeInv
  BY TypeInit, TypeNext, PTL DEF Spec

\* Files, appender and lock holder keep their types whatever fails: in
\* particular a rotation and a boot that completes one always have a first
\* sequence to name the segment by (rotate_active, recover_interrupted_seal).
THEOREM TypeCorrect == Spec => []TypeOK
<1>1. TypeInv => TypeOK
  BY DEF TypeInv
<1> QED BY <1>1, TypeInvariant, PTL

(***************************************************************************)
(* History pins                                                            *)
(***************************************************************************)

\* The marker is behind the retained floor but for the moment between the
\* marker and the drain, and a process that is down holds no pin.
PinInv ==
  /\ (up /\ pc # "floor_marked") => floor_marker = 0 \/ floor_marker < retained_from
  /\ ~up => pins = NoPins
  /\ PinnedHistoryKept

\* The floor of a truncation is no higher than any pin.
LEMMA PinnedFloorBound ==
  ASSUME TypeOK, NEW floor \in 1..(MaxSeq + 1)
  PROVE  /\ PinnedFloor(floor) \in 1..(MaxSeq + 1)
         /\ \A p \in DOMAIN pins : pins[p] > 0 => PinnedFloor(floor) =< p
<1> DEFINE T == {floor} \cup {p \in DOMAIN pins : pins[p] > 0}
<1>1. T \in SUBSET (1..(MaxSeq + 1)) /\ T \in SUBSET Nat /\ T # {}
  BY EntryFields DEF TypeOK
<1>2. \A p \in DOMAIN pins : pins[p] > 0 => p \in T
  OBVIOUS
<1>3. PinnedFloor(floor) = Min(T)
  BY DEF PinnedFloor
<1> HIDE DEF T
<1>4. Min(T) \in T /\ \A y \in T : Min(T) =< y
  BY <1>1, MinOfNats
<1> QED BY <1>1, <1>2, <1>3, <1>4

\* The floor of a truncation does not pass a granted pin.
LEMMA PinTruncateStart ==
  ASSUME ~MarkerSyncMayFail, TypeOK, PinInv,
         NEW floor \in 1..(MaxSeq + 1), NEW outcome \in MarkerOutcomes,
         TruncateStart(floor, outcome)
  PROVE  PinInv'
<1> DEFINE doomed == PrefixBelow(sealed, PinnedFloor(floor))
<1>1. /\ up /\ pc = "idle" /\ UNCHANGED <<up, pins, retained_from>>
  BY DEF TruncateStart
<1>2. outcome # "not_synced"
  BY DEF MarkerOutcomes
<1>3. CASE UNCHANGED <<floor_marker, victims, pc>>
  BY <1>1, <1>3 DEF PinInv, PinnedHistoryKept
<1>4. CASE /\ doomed # {} /\ doomed \subseteq sealed /\ pc' = "floor_marked"
           /\ floor_marker' = Max({0} \cup Seqs(UNION {s.entries : s \in doomed}))
  <2>1. \A s \in doomed : \A e \in s.entries : e.seq < PinnedFloor(floor)
    <3> SUFFICES ASSUME NEW s \in doomed PROVE WhollyBelow(s, PinnedFloor(floor))
      BY DEF WhollyBelow
    <3>1. s \in sealed /\ \A t \in sealed : t.first =< s.first => WhollyBelow(t, PinnedFloor(floor))
      BY DEF PrefixBelow
    <3>2. s.first \in Nat
      BY <3>1, EntryFields DEF TypeOK, Summary, Seq1
    <3> QED BY <3>1, <3>2
  <2> HIDE DEF doomed
  <2>2. floor_marker' \in 0..MaxSeq
        /\ (floor_marker' = 0 \/ \E s \in doomed : \E e \in s.entries : e.seq = floor_marker')
    BY <1>4, MarkerType
  <2>3. floor_marker' < PinnedFloor(floor)
    BY <2>1, <2>2, PinnedFloorBound
  <2>4. ASSUME NEW p \in DOMAIN pins, pins[p] > 0 PROVE floor_marker' < p
    <3>1. p \in 1..(MaxSeq + 1) /\ MaxSeq \in Nat
      BY EntryFields DEF TypeOK
    <3>2. PinnedFloor(floor) =< p /\ PinnedFloor(floor) \in 1..(MaxSeq + 1)
      BY <2>4, PinnedFloorBound
    <3> QED BY <2>2, <2>3, <3>1, <3>2
  <2> QED BY <1>1, <1>4, <2>4 DEF PinInv, PinnedHistoryKept
<1> QED BY <1>2, <1>3, <1>4, TruncateStarts

\* Every step keeps the pins below the retained history.
LEMMA PinNext ==
  ASSUME ~MarkerSyncMayFail
  PROVE  TypeInv /\ PinInv /\ [Next]_walVars => PinInv'
<1> SUFFICES ASSUME TypeInv, PinInv, [Next]_walVars PROVE PinInv'
  OBVIOUS
<1>0. /\ TypeOK /\ MaxSeq \in Nat
      /\ floor_marker \in Nat /\ retained_from \in Nat
  BY EntryFields DEF TypeInv, TypeOK
<1>1. CASE UNCHANGED <<up, floor_marker, retained_from, pins>> /\ pc # "floor_marked"
  BY <1>1 DEF PinInv, PinnedHistoryKept
<1>2. ASSUME NEW lsn \in 0..MaxSeq, PinHistory(lsn) PROVE PinInv'
  <2>1. /\ up /\ pc = "idle" /\ retained_from =< lsn + 1
        /\ pins' = [pins EXCEPT ![lsn + 1] = pins[lsn + 1] + 1]
        /\ UNCHANGED <<up, pc, floor_marker, retained_from>>
    BY <1>2 DEF PinHistory, disk, lock
  <2>2. floor_marker < lsn + 1
    BY <1>0, <2>1 DEF PinInv
  <2>3. ASSUME NEW p \in DOMAIN pins', pins'[p] > 0 PROVE floor_marker < p
    <3>1. CASE p = lsn + 1
      BY <2>2, <3>1
    <3>2. CASE p # lsn + 1
      <4>1. p \in DOMAIN pins /\ pins[p] > 0
        BY <1>0, <2>1, <2>3, <3>2 DEF TypeOK
      <4> QED BY <2>1, <4>1 DEF PinInv, PinnedHistoryKept
    <3> QED BY <3>1, <3>2
  <2> QED BY <2>1, <2>3 DEF PinInv, PinnedHistoryKept
<1>3. ASSUME NEW floor \in 1..(MaxSeq + 1), DropPin(floor) PROVE PinInv'
  <2>1. /\ up /\ pins[floor] > 0
        /\ pins' = [pins EXCEPT ![floor] = pins[floor] - 1]
        /\ UNCHANGED <<up, pc, floor_marker, retained_from>>
    BY <1>3 DEF DropPin, disk, lock
  <2>2. \A p \in DOMAIN pins' : pins'[p] > 0 => p \in DOMAIN pins /\ pins[p] > 0
    BY <1>0, <2>1 DEF TypeOK
  <2> QED BY <2>1, <2>2 DEF PinInv, PinnedHistoryKept
<1>4. CASE TruncateDrain
  <2> DEFINE T == {retained_from, RetainedAbove(floor_marker)}
  <2>1. T \in SUBSET (0..(MaxSeq + 1)) /\ T # {} /\ MaxSeq + 1 \in Nat
    BY <1>0, EntryFields DEF TypeOK, RetainedAbove
  <2>2. retained_from' = Max(T) /\ RetainedAbove(floor_marker) \in T
    BY <1>4 DEF TruncateDrain
  <2>3. retained_from' \in Nat /\ retained_from' >= RetainedAbove(floor_marker)
    <3> HIDE DEF T
    <3>1. Max(T) \in T /\ \A y \in T : Max(T) >= y
      BY <2>1, MaxOfNats
    <3>2. Max(T) \in 0..(MaxSeq + 1)
      BY <2>1, <3>1
    <3> QED BY <2>2, <3>1, <3>2
  <2>4. floor_marker < retained_from'
    BY <1>0, <2>3 DEF RetainedAbove
  <2> QED BY <1>4, <2>4 DEF PinInv, PinnedHistoryKept, TruncateDrain, disk
<1>5. CASE CrashStep
  <2>1. ForgetMemory
    BY <1>5 DEF CrashStep, ProcessCrash, PowerLoss
  <2> QED BY <2>1 DEF PinInv, PinnedHistoryKept, ForgetMemory
<1>6. ASSUME NEW undeleted \in SUBSET segments, Open(undeleted) PROVE PinInv'
  <2>1. /\ ~up /\ UNCHANGED <<floor_marker, pins>>
        /\ retained_from' = IF floor_marker > 0 THEN floor_marker + 1 ELSE 0
    BY <1>6 DEF Open, RetainedAbove
  <2>2. pins' = NoPins
    BY <2>1 DEF PinInv
  <2>3. \A p \in DOMAIN pins' : ~(pins'[p] > 0)
    BY <2>2 DEF NoPins
  <2>4. floor_marker' = 0 \/ floor_marker' < retained_from'
    BY <1>0, <2>1
  <2> QED BY <1>6, <2>2, <2>3, <2>4 DEF PinInv, PinnedHistoryKept
<1>7. CASE RecoverSeal
  BY <1>7 DEF PinInv, PinnedHistoryKept, RecoverSeal, memory, lock
<1>8. CASE CallStep
  <2>1. CASE \E floor \in 1..(MaxSeq + 1), outcome \in MarkerOutcomes :
               TruncateStart(floor, outcome)
    BY <1>0, <2>1, PinTruncateStart
  <2>2. CASE \E fence \in Fences : FenceBranches(fence)
    BY <2>2 DEF PinInv, PinnedHistoryKept, FenceBranches, disk, lock
  <2>3. CASE LoseOwnership
    BY <2>3 DEF PinInv, PinnedHistoryKept, LoseOwnership, disk, lock
  <2>4. CASE \/ \E ops \in Batches, group \in BOOLEAN : AppendStart(ops, group)
             \/ \E floor \in 1..MaxSeq : AdvanceSequenceFloor(floor)
             \/ CancelAppend
    BY <1>1, <2>4 DEF AppendStart, AdvanceSequenceFloor, CancelAppend, disk, memory
  <2> QED BY <1>2, <1>3, <1>8, <2>1, <2>2, <2>3, <2>4 DEF CallStep
<1>9. CASE AppendStep
  BY <1>1, <1>9 DEF AppendStep, AppendWrite, AppendWriteFails, AppendSync,
    AppendSyncFails, RollBack, RollBackFails, PublishSequence, PublishHighWater,
    ObserveActive, disk, memory
<1>10. CASE RotateStep
  BY <1>1, <1>10 DEF RotateStep, RotateWriteSection, RotateSkipSection,
    RotateSectionOpenFails, RotateSyncSection, RotateSectionFails, RotateSectionStays,
    RotateRename, RotateRenameFails, RotatePush, RotateEnd, disk, memory
<1>11. CASE TruncateStep
  BY <1>1, <1>4, <1>11 DEF TruncateStep, TruncateDelete, TruncateEnd, disk, memory
<1>12. CASE UNCHANGED walVars
  BY <1>12 DEF PinInv, PinnedHistoryKept, walVars, disk, memory, lock
<1> QED BY <1>5, <1>6, <1>7, <1>8, <1>9, <1>10, <1>11, <1>12
  DEF Next, LockHolderStep, OpenStep

\* While a history pin is held, no recorded truncation reaches its floor: not
\* one that chose its floor before the pin, nor one a crash interrupted between
\* marker and drain, as long as a marker that was not recorded is not there
\* (pin_history, truncate_below, write_floor_marker).
THEOREM PinsHold ==
  ASSUME ~MarkerSyncMayFail
  PROVE  Spec => []PinnedHistoryKept
<1>1. Init => PinInv
  BY DEF Init, PinInv, PinnedHistoryKept
<1>2. PinInv => PinnedHistoryKept
  BY DEF PinInv
<1> QED BY <1>1, <1>2, PinNext, TypeInvariant, PTL DEF Spec

(***************************************************************************)
(* The files, without the faults                                           *)
(***************************************************************************)

\* What the types say of numbers and entries, for the SMT solver.
LEMMA Nats ==
  ASSUME TypeOK
  PROVE  /\ next_sequence \in Nat /\ floor_marker \in Nat /\ retained_from \in Nat
         /\ \A e \in Entry : e.seq \in Nat /\ e.lo \in Nat /\ e.hi \in Nat /\ e.seq > 0
         /\ active \subseteq Entry /\ batch \subseteq Entry /\ acked \subseteq Entry
         /\ active_summary \subseteq Entry /\ unsynced \subseteq active
         /\ \A g \in segments : g.first \in Nat /\ g.entries \subseteq Entry
         /\ \A s \in sealed : s.first \in Nat /\ s.entries \subseteq Entry
  BY EntryFields, SMTT(30) DEF TypeOK, Segment, Summary, Seq1

\* Two sets of whole groups make one.
LEMMA ClosedUnion ==
  ASSUME NEW S, NEW T, Closed(S), Closed(T)
  PROVE  Closed(S \cup T)
  BY DEF Closed

\* Frames are whole groups, and so is any prefix of whole frames.
LEMMA ClosedFrames ==
  ASSUME NEW S, NEW k, Closed(S)
  PROVE  Closed(WholeFrames(S, k))
  BY DEF Closed, WholeFrames

\* Two files that share their first sequence, or an entry, are one file.
LEMMA SameFile ==
  ASSUME TypeOK, Files, NEW g \in segments, NEW h \in segments
  PROVE  /\ g.first = h.first => g = h
         /\ \A e \in g.entries : e \in h.entries => g = h
         /\ g.first < h.first => Below(g.entries, h.entries)
         /\ Below(g.entries, h.entries) => g.first < h.first
<1>1. /\ g = h \/ Below(g.entries, h.entries) \/ Below(h.entries, g.entries)
      /\ FirstOf(g.first, g.entries) /\ FirstOf(h.first, h.entries)
  BY DEF Files, FileOK
<1>2. /\ g.first \in Nat /\ h.first \in Nat
      /\ \A e \in g.entries : e.seq \in Nat
      /\ \A e \in h.entries : e.seq \in Nat
  BY Nats
<1>3. PICK e \in g.entries, f \in h.entries : e.seq = g.first /\ f.seq = h.first
  BY <1>1 DEF FirstOf
<1>4. Below(g.entries, h.entries) => g.first < h.first
  BY <1>3 DEF Below
<1>5. Below(h.entries, g.entries) => h.first < g.first
  BY <1>3 DEF Below
<1>6. g.first = h.first => g = h
  BY <1>1, <1>2, <1>4, <1>5
<1>7. g.first < h.first => Below(g.entries, h.entries)
  BY <1>1, <1>2, <1>5
<1>8. ASSUME NEW x \in g.entries, x \in h.entries PROVE g = h
  BY <1>1, <1>2, <1>8 DEF Below
<1> QED BY <1>4, <1>6, <1>7, <1>8

\* What can be read back after any crash
LEMMA DurableIs ==
  ASSUME TypeOK, Files, Tails
  PROVE  \A e : e \in Durable <=> e \in active \ unsynced \/ \E g \in segments : e \in g.entries
<1>1. tail \notin {"buried", "buried_section", "partial"}
  BY DEF Tails
<1>2. \A g \in segments : g.good
  BY DEF Files, FileOK
<1>3. \A e : e \in OnDisk <=> e \in active \/ \E g \in segments : e \in g.entries
  BY <1>1, <1>2 DEF OnDisk
<1>4. ASSUME NEW g \in segments, NEW e \in g.entries PROVE e \notin unsynced
  <2>1. e.seq \in Nat /\ unsynced \subseteq active
    BY Nats
  <2> QED BY <2>1 DEF Files, Below
<1> QED BY <1>3, <1>4, Nats DEF Durable

\* The files gain new whole groups of the append in progress.
LEMMA FilesAppend ==
  ASSUME IInv, NEW W, W \subseteq batch, Closed(W), up, pc = "append",
         active' = active \cup W, unsynced' = unsynced \cup W,
         UNCHANGED <<segments, floor_marker>>
  PROVE  Files'
<1>0. TypeOK /\ Files
  BY DEF IInv, TypeInv
<1>1. /\ active = active_summary /\ Uniq(batch)
      /\ \A e \in batch : e.seq > next_sequence /\ e.lo > next_sequence /\ e.lo =< e.seq
  BY DEF IInv, SummaryOK, BatchOK, Unpublished, Quiet
<1>2. /\ floor_marker =< next_sequence
      /\ \A e \in active : e.seq =< next_sequence
      /\ \A g \in segments : \A e \in g.entries : e.seq =< next_sequence
  BY <1>1 DEF IInv, Numbered
<1>3. /\ \A e \in batch : e.seq \in Nat
      /\ \A e \in active : e.seq \in Nat
      /\ next_sequence \in Nat /\ floor_marker \in Nat
      /\ \A g \in segments : \A e \in g.entries : e.seq \in Nat
  BY <1>0, Nats
<1>4. /\ \A e \in active, f \in batch : e.seq < f.seq
      /\ \A g \in segments : \A e \in g.entries, f \in batch : e.seq < f.seq
  BY <1>1, <1>2, <1>3
<1>5. \A e \in active : e \notin W
  BY <1>3, <1>4
<1>6. active' \ unsynced' = active \ unsynced
  BY <1>5
<1>7. Closed(active' \ unsynced') /\ Closed(unsynced')
  BY <1>0, <1>6, ClosedUnion DEF Files
<1>8. Uniq(unsynced')
  <2>1. Uniq(unsynced) /\ unsynced \subseteq active
    BY <1>0 DEF Files
  <2>2. ASSUME NEW e \in unsynced', NEW f \in unsynced', e.seq = f.seq PROVE e = f
    <3>1. e \in unsynced <=> f \in unsynced
      BY <1>3, <1>4, <2>1, <2>2
    <3> QED BY <1>1, <2>1, <2>2, <3>1 DEF Uniq
  <2> QED BY <2>2 DEF Uniq
<1>9. Below(active' \ unsynced', unsynced')
  BY <1>0, <1>4, <1>6 DEF Files, Below
<1>10. \A e \in active' : e.seq > floor_marker /\ e.lo =< e.seq
  BY <1>0, <1>1, <1>2, <1>3 DEF Files
<1>11. \A g \in segments : Below(g.entries, active')
  BY <1>0, <1>4 DEF Files, Below
<1> QED BY <1>0, <1>7, <1>8, <1>9, <1>10, <1>11 DEF Files

\* Part of the unsynced groups goes, the rest is synced.
LEMMA FilesSync ==
  ASSUME IInv, active' \subseteq active, Closed(active'), unsynced' = {},
         UNCHANGED <<segments, floor_marker>>
  PROVE  Files'
<1>0. Files
  BY DEF IInv
<1>1. Closed(active' \ unsynced') /\ Closed({}) /\ Uniq({}) /\ Below(active', {})
  BY DEF Closed, Uniq, Below
<1>2. \A g \in segments : Below(g.entries, active')
  BY <1>0 DEF Files, Below
<1> QED BY <1>0, <1>1, <1>2 DEF Files

\* A roll-back cuts the append's own groups.
LEMMA RolledBackClosed ==
  ASSUME IInv, up, pc \in {"write_failed", "sync_failed"}
  PROVE  Closed(active \ batch) /\ active \ batch = active_summary
<1>0. TypeOK /\ Files
  BY DEF IInv, TypeInv
<1>1. /\ active_summary \subseteq active /\ active \subseteq active_summary \cup batch
      /\ \A e \in batch : e.seq > next_sequence /\ e.lo > next_sequence
  BY DEF IInv, SummaryOK, BatchOK, Unpublished
<1>2. \A e \in active_summary : e.seq =< next_sequence
  BY DEF IInv, Numbered
<1>3. next_sequence \in Nat /\ \A e \in active : e.seq \in Nat /\ e.lo \in Nat
  BY <1>0, Nats
<1>4. active \ batch = active_summary
  BY <1>1, <1>2, <1>3
<1>5. Closed(active)
  <2>1. Closed((active \ unsynced) \cup unsynced) /\ unsynced \subseteq active
    BY <1>0, ClosedUnion DEF Files
  <2>2. (active \ unsynced) \cup unsynced = active
    BY <2>1
  <2> QED BY <2>1, <2>2
<1>6. ASSUME NEW e \in active \ batch, NEW n \in e.lo..e.hi
      PROVE  \E f \in active \ batch : f.seq = n /\ f.lo = e.lo /\ f.hi = e.hi
  <2>1. PICK f \in active : f.seq = n /\ f.lo = e.lo /\ f.hi = e.hi
    BY <1>5 DEF Closed
  <2>2. e.lo =< e.seq /\ e.seq =< next_sequence
    BY <1>0, <1>2, <1>4 DEF Files
  <2>3. f \notin batch
    BY <1>1, <1>3, <2>1, <2>2
  <2> QED BY <2>1, <2>3
<1> QED BY <1>4, <1>6 DEF Closed

\* The active file becomes the newest segment.
LEMMA FilesSeal ==
  ASSUME IInv, NEW new, active # {}, unsynced = {},
         new.entries = active, new.good, new.summary \in {{}, active},
         new.first = Min(Seqs(active)),
         segments' \subseteq segments \cup {new},
         active' = {}, unsynced' = {}, UNCHANGED floor_marker
  PROVE  Files'
<1>0. TypeOK /\ Files
  BY DEF IInv, TypeInv
<1>1. Closed({}) /\ Uniq({}) /\ \A S : Below(S, {})
  BY DEF Closed, Uniq, Below
<1>2. FileOK(new) /\ WholeFloor(new.entries, floor_marker)
  <2>1. FirstOf(new.first, new.entries)
    BY <1>0, MinSeqs DEF TypeOK
  <2>2. active \ unsynced = active
    OBVIOUS
  <2>3. Closed(active)
    BY <1>0, <2>2 DEF Files
  <2>4. WholeFloor(active, floor_marker)
    BY <1>0 DEF Files, WholeFloor
  <2> QED BY <2>1, <2>3, <2>4 DEF FileOK
<1>3. \A g \in segments : Below(g.entries, new.entries)
  BY <1>0 DEF Files
<1>4. \A g \in segments' : FileOK(g) /\ WholeFloor(g.entries, floor_marker)
  BY <1>0, <1>2 DEF Files
<1>5. \A g \in segments', h \in segments' :
        g = h \/ Below(g.entries, h.entries) \/ Below(h.entries, g.entries)
  BY <1>0, <1>3 DEF Files
<1>6. active' \ unsynced' = {}
  OBVIOUS
<1> QED BY <1>1, <1>4, <1>5, <1>6 DEF Files

\* The files a truncation chose: an oldest prefix of the list, up to the
\* sequence its marker records and nothing above it.
Prefix(doomed, marker) ==
  /\ doomed \subseteq sealed
  /\ \A d \in doomed : \A e \in d.entries : e.seq =< marker
  /\ \E d \in doomed : \E e \in d.entries : e.seq = marker
  /\ \A d \in doomed, s \in sealed \ doomed : Below(d.entries, s.entries)

\* A truncation dooms a prefix of the sealed files, and its marker says so.
LEMMA TruncatePrefix ==
  ASSUME IInv, NEW floor \in 1..(MaxSeq + 1), NEW outcome \in MarkerOutcomes,
         TruncateStart(floor, outcome)
  PROVE  \/ UNCHANGED <<floor_marker, victims, pc>>
         \/ \E doomed : /\ Prefix(doomed, floor_marker')
                        /\ \/ UNCHANGED <<victims, pc>>
                           \/ victims' = doomed /\ pc' = "floor_marked"
<1> DEFINE doomed == PrefixBelow(sealed, PinnedFloor(floor))
<1>0. TypeOK /\ Files /\ up /\ ListOK
  BY DEF IInv, TypeInv, TruncateStart
<1>1. /\ \A s \in sealed : s \in doomed <=>
           \A t \in sealed : t.first =< s.first => WhollyBelow(t, PinnedFloor(floor))
      /\ doomed \subseteq sealed
  BY DEF PrefixBelow
<1> HIDE DEF doomed
<1>2. SUFFICES ASSUME doomed # {},
                      floor_marker' = Max({0} \cup Seqs(UNION {s.entries : s \in doomed}))
               PROVE  Prefix(doomed, floor_marker')
  BY <1>0, TruncateStarts DEF doomed
<1>3. /\ floor_marker' \in 0..MaxSeq
      /\ \A s \in doomed : \A e \in s.entries : e.seq =< floor_marker'
      /\ floor_marker' = 0 \/ \E s \in doomed : \E e \in s.entries : e.seq = floor_marker'
  BY <1>0, <1>1, <1>2, MarkerType
<1>4. \A s \in sealed : \E g \in segments : IsFile(s, g)
  BY <1>0 DEF ListOK
<1>5. \A s \in sealed : FirstOf(s.first, s.entries)
  BY <1>0, <1>4 DEF Files, FileOK, IsFile
<1>6. \E s \in doomed : \E e \in s.entries : e.seq = floor_marker'
  <2>1. PICK s \in doomed : TRUE
    BY <1>2
  <2>2. PICK e \in s.entries : TRUE
    BY <1>1, <1>5 DEF FirstOf
  <2>3. e.seq \in Nat /\ e.seq > 0
    BY <1>0, <1>1, Nats
  <2> QED BY <1>3, <2>2, <2>3
<1>7. ASSUME NEW d \in doomed, NEW s \in sealed \ doomed
      PROVE  Below(d.entries, s.entries)
  <2>1. PICK t \in sealed : t.first =< s.first /\ ~WhollyBelow(t, PinnedFloor(floor))
    BY <1>1
  <2>2. d.first \in Nat /\ s.first \in Nat /\ t.first \in Nat
    BY <1>0, <1>1, Nats
  <2>3. d.first < s.first
    BY <1>1, <2>1, <2>2
  <2>4. PICK g \in segments, h \in segments : IsFile(d, g) /\ IsFile(s, h)
    BY <1>1, <1>4
  <2> QED BY <1>0, <2>3, <2>4, SameFile DEF IsFile
<1> QED BY <1>1, <1>3, <1>6, <1>7 DEF Prefix

\* Such a marker is below the active file, and covers each file or none of it.
LEMMA PrefixFiles ==
  ASSUME IInv, up, pc # "renamed", NEW doomed, NEW marker, Prefix(doomed, marker)
  PROVE  /\ marker \in Nat /\ marker =< next_sequence
         /\ \A e \in active : e.seq > marker
         /\ \A s \in sealed \ doomed : \A e \in s.entries : e.seq > marker
         /\ \A g \in segments : WholeFloor(g.entries, marker)
<1>0. TypeOK /\ Files /\ ListOK /\ Numbered
  BY DEF IInv, TypeInv
<1>1a. PICK d \in doomed : \E e \in d.entries : e.seq = marker
  BY DEF Prefix
<1>1. PICK e \in d.entries : e.seq = marker
  BY <1>1a
<1>2. PICK g \in segments : IsFile(d, g)
  BY <1>0 DEF ListOK, Prefix
<1>3. marker \in Nat /\ e \in g.entries
  BY <1>0, <1>1, <1>2, Nats DEF IsFile
<1>4. /\ marker =< next_sequence
      /\ \A f \in active : f.seq > marker
  <2>1. \A f \in active : f.seq \in Nat
    BY <1>0, Nats
  <2> QED BY <1>0, <1>1, <1>3, <2>1 DEF Numbered, Files, Below
<1>5. ASSUME NEW s \in sealed \ doomed, NEW f \in s.entries PROVE f.seq > marker
  <2>1. f.seq \in Nat
    BY <1>0, Nats
  <2> QED BY <1>1, <1>3, <2>1 DEF Prefix, Below
<1>6. ASSUME NEW h \in segments PROVE WholeFloor(h.entries, marker)
  <2>1. CASE \E s \in sealed : IsFile(s, h)
    BY <1>5, <2>1 DEF WholeFloor, Prefix, IsFile
  <2>2. CASE \A s \in sealed : Below(h.entries, s.entries)
    <3>1. ASSUME NEW f \in h.entries PROVE f.seq =< marker
      <4>1. f.seq \in Nat /\ f.seq < e.seq
        BY <1>0, <1>1, <2>2, Nats DEF Prefix, Below
      <4> QED BY <1>1, <1>3, <4>1
    <3> QED BY <3>1 DEF WholeFloor
  <2> QED BY <1>0, <2>1, <2>2 DEF ListOK
<1> QED BY <1>3, <1>4, <1>5, <1>6

\* Rotation renames the active file onto a name no segment has.
LEMMA RenameFacts ==
  ASSUME IInv, RotateRename
  PROVE  \E new :
           /\ new.entries = active /\ new.good /\ new.summary \in {{}, active}
           /\ new.first = Min(Seqs(active))
           /\ segments' = segments \cup {new}
           /\ active = active_summary /\ active # {} /\ unsynced = {}
<1> DEFINE new == [first |-> Min(Seqs(active_summary)), entries |-> active,
                   summary |-> IF tail \in {"section", "buried_section"}
                               THEN active_summary ELSE {},
                   good |-> tail \in {"clean", "section"}]
<1>0. TypeOK /\ Files /\ up /\ pc = "section_synced"
  BY DEF IInv, TypeInv, RotateRename
<1>1. active = active_summary /\ unsynced = {} /\ active # {}
  BY <1>0 DEF IInv, SummaryOK, BatchOK, Quiet
<1>2. tail \in {"clean", "section"}
  BY <1>0 DEF IInv, Tails, Quiet
<1>3. segments' = {g \in segments : g.first # new.first} \cup {new}
  BY DEF RotateRename
<1>4. /\ new.entries = active /\ new.good /\ new.summary \in {{}, active}
      /\ new.first = Min(Seqs(active))
  BY <1>1, <1>2
<1> HIDE DEF new
<1>5. FirstOf(new.first, active)
  BY <1>0, <1>1, <1>4, MinSeqs DEF TypeOK
<1>6. ASSUME NEW g \in segments PROVE g.first # new.first
  <2>1. FirstOf(g.first, g.entries) /\ Below(g.entries, active)
    BY <1>0 DEF Files, FileOK
  <2>2. PICK e \in g.entries, f \in active : e.seq = g.first /\ f.seq = new.first
    BY <1>5, <2>1 DEF FirstOf
  <2>3. e.seq < f.seq /\ e.seq \in Nat /\ f.seq \in Nat
    BY <1>0, <2>1, <2>2, Nats DEF Below
  <2> QED BY <2>2, <2>3
<1> QED BY <1>1, <1>3, <1>4, <1>6

\* Every step keeps the files in order and their groups whole.
LEMMA FilesNext ==
  ASSUME NoneLeftBehind, Whole, IInv, Next
  PROVE  Files'
<1>0. TypeOK /\ Files
  BY DEF IInv, TypeInv
<1>1. CASE UNCHANGED <<active, unsynced, segments, floor_marker>>
  BY <1>0, <1>1 DEF Files
<1>2. CASE AppendWrite
  <2>1. Closed(batch)
    BY <1>2 DEF IInv, BatchOK, AppendWrite, Quiet
  <2> QED BY <1>2, <2>1, FilesAppend DEF AppendWrite
<1>3. ASSUME NEW k \in 0..MaxSeq, AppendWriteFails(k) PROVE Files'
  <2>1. Closed(batch)
    BY <1>3 DEF IInv, BatchOK, AppendWriteFails, Quiet
  <2> QED BY <1>3, <2>1, ClosedFrames, WholeFramesSub, FilesAppend DEF AppendWriteFails
<1>4. Closed(active)
  <2>1. Closed((active \ unsynced) \cup unsynced) /\ unsynced \subseteq active
    BY <1>0, ClosedUnion DEF Files
  <2>2. (active \ unsynced) \cup unsynced = active
    BY <2>1
  <2> QED BY <2>1, <2>2
<1>5. CASE AppendSync \/ RotateSyncSection
  BY <1>4, <1>5, FilesSync DEF AppendSync, RotateSyncSection
<1>6. CASE RollBack
  BY <1>6, RolledBackClosed, FilesSync DEF RollBack
<1>7. CASE RotateRename
  <2>1. PICK new :
           /\ new.entries = active /\ new.good /\ new.summary \in {{}, active}
           /\ new.first = Min(Seqs(active))
           /\ segments' = segments \cup {new}
           /\ active # {} /\ unsynced = {}
    BY <1>7, RenameFacts
  <2>2. active' = {} /\ unsynced' = {} /\ UNCHANGED floor_marker
    BY <1>7, <2>1 DEF RotateRename
  <2> QED BY <2>1, <2>2, FilesSeal
<1>8. ASSUME NEW floor \in 1..(MaxSeq + 1), NEW outcome \in MarkerOutcomes,
             TruncateStart(floor, outcome)
      PROVE  Files'
  <2>1. up /\ pc # "renamed" /\ UNCHANGED <<active, unsynced, segments>>
    BY <1>8 DEF TruncateStart
  <2>2. ASSUME NEW doomed, Prefix(doomed, floor_marker') PROVE Files'
    <3>1. /\ \A e \in active : e.seq > floor_marker'
          /\ \A g \in segments : WholeFloor(g.entries, floor_marker')
      BY <2>1, <2>2, PrefixFiles
    <3> QED BY <1>0, <2>1, <3>1 DEF Files
  <2> QED BY <1>1, <1>8, <2>1, <2>2, TruncatePrefix
<1>9. CASE segments' \subseteq segments /\ UNCHANGED <<active, unsynced, floor_marker>>
  BY <1>0, <1>9 DEF Files
<1>10. ASSUME NEW k \in 0..MaxSeq, PowerLoss(k) PROVE Files'
  <2> DEFINE kept == (active \ unsynced) \cup WholeFrames(unsynced, k)
  <2>1. Closed(kept)
    BY <1>0, ClosedUnion, ClosedFrames DEF Files
  <2>2. kept \subseteq active
    BY <1>0, WholeFramesSub DEF Files
  <2>3. /\ active' = kept /\ unsynced' = {}
        /\ UNCHANGED <<segments, floor_marker>>
    BY <1>10 DEF PowerLoss
  <2> QED BY <2>1, <2>2, <2>3, FilesSync
<1>11. CASE RecoverSeal
  <2> DEFINE new == [first |-> Min(Seqs(active)), entries |-> active,
                     summary |-> active, good |-> tail = "section"]
  <2>1. tail = "section" /\ active # {} /\ unsynced = {}
    BY <1>11 DEF RecoverSeal, IInv, Tails
  <2>2. /\ new.entries = active /\ new.good /\ new.summary \in {{}, active}
        /\ new.first = Min(Seqs(active))
    BY <2>1
  <2>3. /\ segments' = segments \cup {new} /\ active' = {} /\ unsynced' = {}
        /\ UNCHANGED floor_marker
    BY <1>11 DEF RecoverSeal
  <2> HIDE DEF new
  <2> QED BY <2>1, <2>2, <2>3, FilesSeal
<1>12. CASE CallStep
  BY <1>1, <1>8, <1>12
  DEF CallStep, AppendStart, PinHistory, DropPin, FenceBranches, AdvanceSequenceFloor,
      LoseOwnership, CancelAppend, disk
<1>13. CASE AppendStep
  BY <1>1, <1>2, <1>3, <1>5, <1>6, <1>13
  DEF AppendStep, AppendSyncFails, RollBackFails, PublishSequence, PublishHighWater,
      ObserveActive, disk
<1>14. CASE RotateStep
  BY <1>1, <1>5, <1>7, <1>14
  DEF NoneLeftBehind, RotateStep, RotateWriteSection, RotateSkipSection, RotateSectionOpenFails,
      RotateSectionFails, RotateSectionStays, RotateRenameFails, RotatePush, RotateEnd, disk
<1>15. CASE TruncateStep
  BY <1>1, <1>9, <1>15 DEF TruncateStep, TruncateDrain, TruncateDelete, TruncateEnd, disk
<1>16. CASE CrashStep
  BY <1>1, <1>10, <1>16 DEF CrashStep, ProcessCrash, disk
<1>17. CASE OpenStep
  <2>1. ASSUME NEW undeleted \in SUBSET segments, Open(undeleted) PROVE Files'
    BY <1>0, <1>9, <2>1, BootTypes DEF Open
  <2> QED BY <1>11, <1>17, <2>1 DEF OpenStep
<1> QED BY <1>12, <1>13, <1>14, <1>15, <1>16, <1>17 DEF Next, LockHolderStep

(***************************************************************************)
(* The tail, the append in progress and the running summary                *)
(***************************************************************************)

\* A process that goes down forgets everything.
LEMMA DownNext ==
  ASSUME IInv, Next
  PROVE  Down'
<1>0. Down
  BY DEF IInv
<1>1. CASE up'
  BY <1>1 DEF Down
<1>2. CASE ~up'
  <2>1. CASE CrashStep
    <3>1. ForgetMemory
      BY <2>1 DEF CrashStep, ProcessCrash, PowerLoss
    <3> QED BY <3>1 DEF Down, ForgetMemory
  <2>2. CASE RecoverSeal
    BY <1>0, <2>2 DEF Down, RecoverSeal, memory, lock
  <2>3. CASE CallStep
    <3>1. \A floor, outcome : TruncateStart(floor, outcome) => up /\ UNCHANGED up
      BY DEF TruncateStart
    <3>2. \A ops, group : AppendStart(ops, group) => up /\ UNCHANGED up
      BY DEF AppendStart
    <3>3. \A x : \/ PinHistory(x) \/ DropPin(x) \/ FenceBranches(x)
                \/ AdvanceSequenceFloor(x) \/ LoseOwnership \/ CancelAppend
                => up /\ UNCHANGED up
      BY DEF PinHistory, DropPin, FenceBranches, AdvanceSequenceFloor, LoseOwnership,
             CancelAppend
    <3> QED BY <1>2, <2>3, <3>1, <3>2, <3>3 DEF CallStep
  <2>4. CASE AppendStep
    BY <1>2, <2>4
    DEF AppendStep, AppendWrite, AppendWriteFails, AppendSync, AppendSyncFails,
        RollBack, RollBackFails, PublishSequence, PublishHighWater, ObserveActive
  <2>5. CASE RotateStep
    BY <1>2, <2>5
    DEF RotateStep, RotateWriteSection, RotateSkipSection, RotateSectionOpenFails,
        RotateSyncSection, RotateSectionFails, RotateSectionStays, RotateRename,
        RotateRenameFails, RotatePush, RotateEnd
  <2>6. CASE TruncateStep
    BY <1>2, <2>6 DEF TruncateStep, TruncateDrain, TruncateDelete, TruncateEnd
  <2> QED BY <1>2, <2>1, <2>2, <2>3, <2>4, <2>5, <2>6 DEF Next, LockHolderStep, OpenStep, Open
<1> QED BY <1>1, <1>2

\* Every step leaves a tail that the next append or open can deal with.
LEMMA TailsNext ==
  ASSUME NoneLeftBehind, Whole, IInv, Next
  PROVE  Tails'
<1>0. TypeOK /\ Tails /\ Down
  BY DEF IInv, TypeInv
<1>1. CASE AppendStep
  BY <1>0, <1>1
  DEF Tails, AppendStep, AppendWrite, AppendWriteFails, AppendSync, AppendSyncFails,
      RollBack, RollBackFails, PublishSequence, PublishHighWater, ObserveActive,
      Acknowledge, TailUnder, disk, memory, Quiet, Unpublished
<1>2. CASE RotateStep
  <2>1. CASE RotateWriteSection
    <3>1. active # {} /\ unsynced = {}
      BY <2>1 DEF IInv, SummaryOK, BatchOK, RotateWriteSection, Quiet
    <3> QED BY <1>0, <2>1, <3>1 DEF Tails, RotateWriteSection, TailUnder, Quiet, Unpublished
  <2>2. CASE RotateRename
    BY <1>0, <2>2 DEF Tails, RotateRename, memory, Quiet, Unpublished
  <2>3. CASE RotateSyncSection \/ RotateSectionFails
    <3>1. tail = "section"
      BY <1>0, <2>3
      DEF IInv, TypeInv, Tails, HasSection, RotateSyncSection, RotateSectionFails
    <3>2. /\ up /\ pc = "section_written" /\ pc' = "section_synced"
          /\ tail' \in {"section", "clean"}
          /\ unsynced' = {} /\ UNCHANGED <<active, up, poisoned, pre_tail>>
      BY <1>0, <2>3, <3>1 DEF Tails, RotateSyncSection, RotateSectionFails, memory
    <3> QED BY <1>0, <3>1, <3>2 DEF Tails, Quiet, Unpublished
  <2>4. CASE RotateRenameFails
    <3>1. tail # "section"
      BY <2>4 DEF NoneLeftBehind, RotateRenameFails, RenameMayFail
    <3> QED BY <1>0, <2>4, <3>1
      DEF Tails, RotateRenameFails, Acknowledge, disk, Quiet, Unpublished
  <2>5. CASE RotateSkipSection \/ RotatePush \/ RotateEnd
    BY <1>0, <2>5
    DEF Tails, RotateSkipSection, RotatePush, RotateEnd, Acknowledge, disk,
        Quiet, Unpublished
  <2> QED BY <1>2, <2>1, <2>2, <2>3, <2>4, <2>5
    DEF RotateStep, NoneLeftBehind, RotateSectionOpenFails, RotateSectionStays
<1>3. CASE TruncateStep
  BY <1>0, <1>3
  DEF Tails, TruncateStep, TruncateDrain, TruncateDelete, TruncateEnd, disk, memory,
      Quiet, Unpublished
<1>4. CASE CallStep
  <2>1. ASSUME NEW floor \in 1..(MaxSeq + 1), NEW outcome \in MarkerOutcomes,
               TruncateStart(floor, outcome)
        PROVE  Tails'
    <3>1. /\ pc = "idle" /\ pc' \in {"idle", "floor_marked"}
          /\ UNCHANGED <<active, unsynced, tail, up, poisoned, pre_tail>>
      BY <2>1 DEF TruncateStart
    <3> QED BY <1>0, <3>1 DEF Tails, Quiet, Unpublished
  <2>2. ASSUME NEW ops \in Batches, NEW group \in BOOLEAN, AppendStart(ops, group)
        PROVE  Tails'
    BY <1>0, <2>2 DEF Tails, AppendStart, disk, memory, Quiet, Unpublished
  <2>3. CASE UNCHANGED <<active, unsynced, tail, up, pc, poisoned, pre_tail>>
    BY <1>0, <2>3 DEF Tails
  <2> QED BY <1>4, <2>1, <2>2, <2>3
    DEF CallStep, PinHistory, DropPin, FenceBranches,
        AdvanceSequenceFloor, LoseOwnership, CancelAppend, NoneLeftBehind, disk, lock
<1>5. CASE ProcessCrash
  BY <1>0, <1>5 DEF Tails, ProcessCrash, ForgetMemory, disk, Quiet, Unpublished
<1>6. ASSUME NEW k \in 0..MaxSeq, PowerLoss(k) PROVE Tails'
  <2> DEFINE kept == (active \ unsynced) \cup WholeFrames(unsynced, k)
  <2>1. /\ active \ unsynced \subseteq kept
        /\ active' = kept /\ unsynced' = {} /\ tail' \in TailsAfterPowerLoss(kept)
        /\ ForgetMemory
    BY <1>6 DEF PowerLoss
  <2> HIDE DEF kept
  <2>2. /\ tail' \in {"clean", "torn", "section"}
        /\ tail' = "section" => tail = "section"
    <3>1. CASE pc = "section_written" /\ tail = "section"
      BY <2>1, <3>1 DEF TailsAfterPowerLoss, Whole
    <3>2. CASE tail \in {"clean", "torn"} \/ pc # "section_written"
      BY <1>0, <2>1, <3>2 DEF TailsAfterPowerLoss, Tails
    <3> QED BY <1>0, <3>1, <3>2 DEF Tails
  <2>3. tail' = "section" => active' # {}
    BY <1>0, <2>1, <2>2 DEF Tails
  <2> QED BY <2>1, <2>2, <2>3 DEF Tails, ForgetMemory, Quiet, Unpublished
<1>7. CASE OpenStep
  BY <1>0, <1>7 DEF Tails, Down, OpenStep, RecoverSeal, Open, memory, lock, Quiet, Unpublished
<1> QED BY <1>1, <1>2, <1>3, <1>4, <1>5, <1>6, <1>7 DEF Next, LockHolderStep, CrashStep

\* The batch keeps numbers of its own, behind what was acknowledged.
LEMMA BatchNext ==
  ASSUME NoneLeftBehind, Whole, IInv, Next
  PROVE  BatchOK'
<1>0. TypeOK /\ BatchOK /\ Down
  BY DEF IInv, TypeInv
<1>1. CASE CallStep
  <2>1. ASSUME NEW ops \in Batches, NEW group \in BOOLEAN, AppendStart(ops, group)
        PROVE  BatchOK'
    <3>1. next_sequence \in Nat /\ next_sequence + Len(ops) =< MaxSeq
      BY <1>0, <2>1, Nats DEF AppendStart
    <3>2. /\ batch' \subseteq Entry /\ batch' # {} /\ Closed(batch') /\ Uniq(batch')
          /\ \A e \in batch' : e.seq > next_sequence /\ e.lo > next_sequence /\ e.lo =< e.seq
      BY <2>1, <3>1, NewEntriesOK DEF AppendStart
    <3>3. Below(acked, batch')
      <4>1. \A e \in acked : e.seq =< next_sequence /\ e.seq \in Nat
        BY <1>0, <2>1, Nats DEF IInv, Numbered, AppendStart
      <4>2. \A e \in batch' : e.seq \in Nat
        BY <3>2, EntryFields
      <4> QED BY <3>1, <3>2, <4>1, <4>2 DEF Below
    <3>4. pc' = "append" /\ UNCHANGED <<acked, next_sequence>>
      BY <2>1 DEF AppendStart, memory
    <3> QED BY <1>0, <3>2, <3>3, <3>4 DEF BatchOK, Quiet, Unpublished, Published
  <2>2. ASSUME NEW floor \in 1..(MaxSeq + 1), NEW outcome \in MarkerOutcomes,
               TruncateStart(floor, outcome)
        PROVE  BatchOK'
    <3>1. /\ pc = "idle" /\ pc' \in {"idle", "floor_marked"}
          /\ UNCHANGED <<batch, acked, next_sequence>>
      BY <2>2 DEF TruncateStart
    <3> QED BY <1>0, <3>1 DEF BatchOK, Quiet, Unpublished, Published
  <2>3. ASSUME NEW floor \in 1..MaxSeq, AdvanceSequenceFloor(floor) PROVE BatchOK'
    BY <1>0, <2>3 DEF BatchOK, AdvanceSequenceFloor, lock, Quiet, Unpublished, Published
  <2> QED BY <1>0, <1>1, <2>1, <2>2, <2>3
    DEF BatchOK, CallStep, PinHistory, DropPin, FenceBranches, LoseOwnership,
        CancelAppend, NoneLeftBehind, lock
<1>2. CASE PublishSequence
  <2>1. batch # {} /\ batch \in SUBSET Entry
    BY <1>0, <1>2 DEF BatchOK, PublishSequence, Quiet, TypeOK
  <2>2. \A e \in batch : e.seq =< next_sequence'
    BY <1>2, <2>1, MaxBatchSeq DEF PublishSequence
  <2> QED BY <1>0, <1>2, <2>2 DEF BatchOK, PublishSequence, Quiet, Unpublished, Published
<1>3. ASSUME Acknowledge, pc \notin Quiet PROVE BatchOK'
  <2>1. Uniq(acked) /\ Uniq(batch) /\ Below(acked, batch)
    BY <1>0, <1>3 DEF BatchOK
  <2>2. \A e \in acked \cup batch : e.seq \in Nat
    BY <1>0, Nats
  <2>3. ASSUME NEW e \in acked \cup batch, NEW f \in acked \cup batch, e.seq = f.seq
        PROVE  e = f
    BY <2>1, <2>2, <2>3 DEF Uniq, Below
  <2>4. Uniq(acked')
    BY <1>3, <2>3 DEF Uniq, Acknowledge
  <2> QED BY <1>3, <2>4 DEF BatchOK, Acknowledge, Quiet, Unpublished, Published
<1>4. CASE ObserveActive
  BY <1>0, <1>3, <1>4 DEF BatchOK, ObserveActive, Quiet, Unpublished, Published
<1>5. CASE AppendStep
  BY <1>0, <1>2, <1>4, <1>5
  DEF BatchOK, AppendStep, AppendWrite, AppendWriteFails, AppendSync, AppendSyncFails,
      RollBack, RollBackFails, PublishHighWater, memory, Quiet, Unpublished, Published
<1>6. CASE RotateStep
  <2>1. CASE RotateRenameFails \/ RotateEnd
    BY <1>3, <2>1 DEF RotateRenameFails, RotateEnd, Quiet
  <2> QED BY <1>0, <1>6, <2>1
    DEF BatchOK, RotateStep, RotateWriteSection, RotateSkipSection,
        RotateSectionOpenFails, RotateSyncSection, RotateSectionFails,
        RotateSectionStays, RotateRename, RotatePush, memory, Quiet, Unpublished, Published
<1>7. CASE TruncateStep
  BY <1>0, <1>7
  DEF BatchOK, TruncateStep, TruncateDrain, TruncateDelete, TruncateEnd, memory, Quiet,
      Unpublished, Published
<1>8. CASE CrashStep
  <2>1. ForgetMemory /\ UNCHANGED acked
    BY <1>8 DEF CrashStep, ProcessCrash, PowerLoss
  <2> QED BY <1>0, <2>1 DEF BatchOK, ForgetMemory, Quiet, Unpublished, Published
<1>9. CASE OpenStep
  BY <1>0, <1>9
  DEF BatchOK, Down, OpenStep, RecoverSeal, Open, memory, lock, Quiet, Unpublished, Published
<1> QED BY <1>1, <1>5, <1>6, <1>7, <1>8, <1>9 DEF Next, LockHolderStep

\* The running summary follows the active file.
LEMMA SummaryNext ==
  ASSUME NoneLeftBehind, Whole, IInv, Next
  PROVE  SummaryOK'
<1>0. TypeOK /\ SummaryOK /\ Down /\ Tails
  BY DEF IInv, TypeInv
<1>1. CASE ~up'
  BY <1>1 DEF SummaryOK
<1>2. ASSUME NEW W, W \subseteq batch, up, pc = "append",
             active' = active \cup W, unsynced' = unsynced \cup W,
             \/ pc' = "written" /\ W = batch
             \/ pc' = "write_failed",
             UNCHANGED <<active_summary, batch>>
      PROVE  SummaryOK'
  <2>1. active = active_summary
    BY <1>0, <1>2 DEF SummaryOK
  <2>2. \A e \in active : e \notin batch
    <3>1. \A e \in batch : e.seq > next_sequence
      BY <1>2 DEF IInv, BatchOK, Unpublished
    <3>2. \A e \in active : e.seq =< next_sequence
      BY <1>2, <2>1 DEF IInv, Numbered
    <3>3. next_sequence \in Nat /\ \A e \in active : e.seq \in Nat
      BY <1>0, Nats
    <3> QED BY <3>1, <3>2, <3>3
  <2> QED BY <1>2, <2>1, <2>2 DEF SummaryOK, Quiet
<1>3. CASE AppendStep
  <2>1. CASE AppendWrite
    BY <1>2, <2>1 DEF AppendWrite, memory
  <2>2. ASSUME NEW k \in 0..MaxSeq, AppendWriteFails(k) PROVE SummaryOK'
    BY <1>2, <2>2, WholeFramesSub DEF AppendWriteFails, memory
  <2>3. CASE RollBack
    BY <2>3, RolledBackClosed DEF SummaryOK, RollBack, Quiet
  <2>4. CASE ObserveActive
    BY <1>0, <2>4 DEF SummaryOK, ObserveActive, Acknowledge, disk, Quiet
  <2>5. CASE AppendSync
    BY <1>0, <2>5 DEF SummaryOK, AppendSync, memory, Quiet
  <2>6. CASE AppendSyncFails
    BY <1>0, <2>6 DEF SummaryOK, AppendSyncFails, disk, memory, Quiet
  <2>7. CASE RollBackFails
    BY <1>0, <2>7 DEF SummaryOK, RollBackFails, disk, Quiet
  <2> QED BY <1>0, <1>3, <2>1, <2>2, <2>3, <2>4, <2>5, <2>6, <2>7
    DEF SummaryOK, AppendStep, PublishSequence, PublishHighWater, disk, Quiet
<1>4. CASE RotateStep
  <2>1. CASE RotateWriteSection \/ RotateSkipSection
    BY <1>0, <2>1 DEF SummaryOK, RotateWriteSection, RotateSkipSection, disk, Quiet
  <2>2. CASE RotateSyncSection \/ RotateSectionFails
    BY <1>0, <2>2 DEF SummaryOK, RotateSyncSection, RotateSectionFails, memory, Quiet
  <2>3. CASE RotateRename
    BY <1>0, <2>3 DEF SummaryOK, RotateRename, memory, Quiet
  <2>4. CASE RotateRenameFails
    BY <1>0, <2>4 DEF SummaryOK, RotateRenameFails, Acknowledge, disk, Quiet
  <2>5. CASE RotatePush \/ RotateEnd
    BY <1>0, <2>5 DEF SummaryOK, RotatePush, RotateEnd, Acknowledge, disk, Quiet
  <2> QED BY <1>4, <2>1, <2>2, <2>3, <2>4, <2>5
    DEF RotateStep, NoneLeftBehind, RotateSectionOpenFails, RotateSectionStays
<1>5. CASE TruncateStep
  BY <1>0, <1>5
  DEF SummaryOK, TruncateStep, TruncateDrain, TruncateDelete, TruncateEnd, disk, memory, Quiet
<1>6. CASE CallStep
  <2>1. ASSUME NEW floor \in 1..(MaxSeq + 1), NEW outcome \in MarkerOutcomes,
               TruncateStart(floor, outcome)
        PROVE  SummaryOK'
    <3>1. /\ pc = "idle" /\ pc' \in {"idle", "floor_marked"}
          /\ UNCHANGED <<active, unsynced, up, poisoned, batch, active_summary>>
      BY <2>1 DEF TruncateStart
    <3> QED BY <1>0, <3>1 DEF SummaryOK, Quiet
  <2>2. ASSUME NEW ops \in Batches, NEW group \in BOOLEAN, AppendStart(ops, group)
        PROVE  SummaryOK'
    <3>1. /\ up /\ pc = "idle" /\ ~poisoned /\ pc' = "append"
          /\ UNCHANGED <<active, unsynced, up, poisoned, active_summary>>
      BY <2>2 DEF AppendStart, disk, memory
    <3> QED BY <1>0, <3>1 DEF SummaryOK, Quiet
  <2> QED BY <1>0, <1>6, <2>1, <2>2
    DEF SummaryOK, CallStep, PinHistory, DropPin, FenceBranches,
        AdvanceSequenceFloor, LoseOwnership, CancelAppend, NoneLeftBehind, disk, lock
<1>7. CASE CrashStep
  <2>1. ForgetMemory
    BY <1>7 DEF CrashStep, ProcessCrash, PowerLoss
  <2> QED BY <1>1, <2>1 DEF ForgetMemory
<1>8. CASE OpenStep
  BY <1>0, <1>1, <1>8 DEF SummaryOK, Down, OpenStep, RecoverSeal, Open, memory, lock, Quiet
<1> QED BY <1>3, <1>4, <1>5, <1>6, <1>7, <1>8 DEF Next, LockHolderStep

(***************************************************************************)
(* Boot                                                                    *)
(***************************************************************************)

\* A boot keeps exactly the files above the marker, and trusts of each what
\* its frames hold.
LEMMA BootFiles ==
  ASSUME TypeOK, Files
  PROVE  /\ \A g \in segments : IsFile(BootSummary(g), g)
         /\ \A g \in Kept : \A e \in g.entries : e.seq > floor_marker
         /\ \A g \in segments \ Kept : \A e \in g.entries : e.seq =< floor_marker
<1>1. \A g \in segments : g.summary \in {{}, g.entries} /\ WholeFloor(g.entries, floor_marker)
  BY DEF Files, FileOK
<1>2. ASSUME NEW g \in segments PROVE IsFile(BootSummary(g), g)
  <2>1. (IF g.summary # {} THEN g.summary ELSE g.entries) = g.entries
    BY <1>1
  <2> QED BY <2>1 DEF BootSummary, IsFile
<1>3. floor_marker \in Nat /\ \A g \in segments : \A e \in g.entries : e.seq \in Nat /\ e.seq > 0
  BY Nats
<1>4. ASSUME NEW g \in Kept, NEW e \in g.entries PROVE e.seq > floor_marker
  <2>1. g \in segments /\ ~BelowMarker(g)
    BY DEF Kept
  <2>2. CASE floor_marker = 0
    BY <1>3, <2>1, <2>2
  <2>3. CASE floor_marker > 0
    <3>1. ~ \A f \in g.entries : f.seq =< floor_marker
      BY <1>2, <2>1, <2>3 DEF BelowMarker, IsFile
    <3> QED BY <1>1, <2>1, <3>1 DEF WholeFloor
  <2> QED BY <1>3, <2>2, <2>3
<1>5. ASSUME NEW g \in segments \ Kept, NEW e \in g.entries PROVE e.seq =< floor_marker
  BY <1>2, <1>5 DEF Kept, BelowMarker, IsFile
<1> QED BY <1>2, <1>4, <1>5

\* What open() leaves: the list is the files above the marker, and the head is
\* at least the marker and all that was seen.
LEMMA OpenFacts ==
  ASSUME IInv, NEW undeleted \in SUBSET segments, Open(undeleted)
  PROVE  /\ \A s \in sealed' : \E g \in segments' : IsFile(s, g)
         /\ \A s \in sealed' : \A e \in s.entries : e.seq > floor_marker
         /\ \A g \in segments : \/ g \in segments' /\ \E s \in sealed' : IsFile(s, g)
                                \/ \A e \in g.entries : e.seq =< floor_marker
         /\ segments' \subseteq segments
         /\ next_sequence' \in Nat /\ floor_marker =< next_sequence'
         /\ \A e \in active : e.seq =< next_sequence'
         /\ \A s \in sealed' : \A e \in s.entries : e.seq =< next_sequence'
         /\ retained_from' = IF floor_marker > 0 THEN floor_marker + 1 ELSE 0
<1>0. TypeOK /\ Files
  BY DEF IInv, TypeInv
<1> DEFINE list == {BootSummary(g) : g \in Kept}
           seen == active \cup UNION {s.entries : s \in list}
<1>1. list \subseteq Summary /\ seen \in SUBSET Entry /\ Kept \subseteq segments
  BY <1>0, BootTypes
<1>2. \A s \in list : \E g \in Kept : s = BootSummary(g)
  OBVIOUS
<1>3. \A g \in Kept : BootSummary(g) \in list
  OBVIOUS
<1>4. /\ segments' = Kept \cup undeleted /\ sealed' = list
      /\ next_sequence' = ResumeAfter(seen)
      /\ retained_from' = IF floor_marker > 0 THEN floor_marker + 1 ELSE 0
  BY DEF Open, RetainedAbove
<1>5. active \subseteq seen /\ \A s \in list : s.entries \subseteq seen
  OBVIOUS
<1> HIDE DEF list, seen
<1>6. \A s \in sealed' : \E g \in Kept : IsFile(s, g)
  BY <1>0, <1>1, <1>2, <1>4, BootFiles
<1>7. \A s \in sealed' : \A e \in s.entries : e.seq > floor_marker
  BY <1>0, <1>6, BootFiles DEF IsFile
<1>8. ASSUME NEW g \in segments
      PROVE  \/ g \in segments' /\ \E s \in sealed' : IsFile(s, g)
             \/ \A e \in g.entries : e.seq =< floor_marker
  BY <1>0, <1>3, <1>4, BootFiles
<1>9. /\ next_sequence' \in Nat /\ floor_marker =< next_sequence'
      /\ \A e \in seen : e.seq =< next_sequence'
  <2>1. floor_marker \in 0..MaxSeq
    BY <1>0 DEF TypeOK
  <2>2. /\ next_sequence' \in 0..MaxSeq /\ next_sequence' >= floor_marker
        /\ \A e \in seen : e.seq =< next_sequence'
    BY <1>1, <1>4, <2>1, MaxSeqs DEF ResumeAfter
  <2> QED BY <2>1, <2>2, EntryFields
<1> QED BY <1>1, <1>4, <1>5, <1>6, <1>7, <1>8, <1>9

(***************************************************************************)
(* The head, the list and the truncation in progress                       *)
(***************************************************************************)

\* next_sequence stays above everything known.
LEMMA NumberedNext ==
  ASSUME NoneLeftBehind, Whole, IInv, Next
  PROVE  Numbered'
<1>0. TypeOK /\ Numbered /\ Files
  BY DEF IInv, TypeInv
<1>n. /\ next_sequence \in Nat /\ floor_marker \in Nat
      /\ \A e \in batch : e.seq \in Nat
      /\ \A e \in acked : e.seq \in Nat
      /\ \A e \in active_summary : e.seq \in Nat
      /\ \A g \in segments : \A e \in g.entries : e.seq \in Nat
  BY <1>0, Nats
<1>1. CASE UNCHANGED <<up, floor_marker, next_sequence, active_summary, acked, segments>>
  BY <1>0, <1>1 DEF Numbered
<1>2. ASSUME next_sequence' \in Nat, next_sequence =< next_sequence',
             UNCHANGED <<up, floor_marker, active_summary, acked, segments>>
      PROVE  Numbered'
  BY <1>0, <1>n, <1>2 DEF Numbered
<1>3. CASE PublishSequence
  <2>1. batch # {} /\ batch \in SUBSET Entry /\ \A e \in batch : e.seq > next_sequence
    BY <1>0, <1>3 DEF IInv, BatchOK, PublishSequence, Quiet, Unpublished, TypeOK
  <2>2. next_sequence' \in Nat /\ \E e \in batch : e.seq = next_sequence'
    BY <1>3, <2>1, MaxBatchSeq DEF PublishSequence
  <2> QED BY <1>2, <1>3, <1>n, <2>1, <2>2 DEF PublishSequence, disk
<1>4. ASSUME NEW floor \in 1..MaxSeq, AdvanceSequenceFloor(floor) PROVE Numbered'
  <2> DEFINE T == {next_sequence, floor}
  <2>1. T \in SUBSET (0..MaxSeq) /\ T # {} /\ MaxSeq \in Nat
    BY <1>0, EntryFields DEF TypeOK
  <2>2. next_sequence' = Max(T) /\ next_sequence \in T
    BY <1>4 DEF AdvanceSequenceFloor
  <2>3. next_sequence' \in 0..MaxSeq /\ next_sequence' >= next_sequence
    <3> HIDE DEF T
    <3> QED BY <2>1, <2>2, MaxOfNats
  <2>4. next_sequence' \in Nat /\ next_sequence =< next_sequence'
    BY <1>n, <2>1, <2>3
  <2> QED BY <1>2, <1>4, <2>4 DEF AdvanceSequenceFloor, disk
<1>5. ASSUME up, acked' \subseteq acked \cup batch, pc \in Published,
             active_summary' \subseteq active_summary \cup active,
             \A e \in active : e \in active_summary \cup batch,
             UNCHANGED <<up, floor_marker, next_sequence, segments>>
      PROVE  Numbered'
  <2>1. \A e \in batch : e.seq =< next_sequence
    BY <1>5 DEF IInv, BatchOK
  <2>2. \A e \in active : e.seq > floor_marker
    BY <1>0 DEF Files
  <2> QED BY <1>0, <1>5, <2>1, <2>2 DEF Numbered
<1>6. CASE ObserveActive
  <2>1. active = active_summary \cup batch
    BY <1>6 DEF IInv, SummaryOK, ObserveActive
  <2>2. acked' \subseteq acked \cup batch
    BY <1>6 DEF ObserveActive, Acknowledge
  <2> QED BY <1>5, <1>6, <2>1, <2>2 DEF ObserveActive, disk, Published
<1>7. CASE RotateRenameFails \/ RotateEnd
  <2>1. active \subseteq active_summary
    BY <1>7 DEF IInv, SummaryOK, RotateRenameFails, RotateEnd
  <2>2. /\ acked' = acked \cup batch /\ up /\ pc \in Published
        /\ active_summary' \subseteq active_summary
        /\ UNCHANGED <<up, floor_marker, next_sequence, segments>>
    BY <1>7 DEF RotateRenameFails, RotateEnd, Acknowledge, disk, Published
  <2> QED BY <1>5, <2>1, <2>2
<1>8. CASE RotateRename
  <2>1. PICK new : new.entries = active_summary /\ segments' = segments \cup {new}
    BY <1>8, RenameFacts
  <2> QED BY <1>0, <1>8, <2>1 DEF Numbered, RotateRename, memory
<1>9. ASSUME NEW floor \in 1..(MaxSeq + 1), NEW outcome \in MarkerOutcomes,
             TruncateStart(floor, outcome)
      PROVE  Numbered'
  <2>1. /\ up /\ pc = "idle"
        /\ UNCHANGED <<up, next_sequence, active_summary, acked, segments>>
    BY <1>9 DEF TruncateStart
  <2>2. ASSUME NEW doomed, Prefix(doomed, floor_marker') PROVE Numbered'
    <3>1. floor_marker' =< next_sequence /\ \A e \in active : e.seq > floor_marker'
      BY <2>1, <2>2, PrefixFiles
    <3>2. active_summary \subseteq active
      BY <2>1 DEF IInv, SummaryOK, Quiet
    <3> QED BY <1>0, <2>1, <3>1, <3>2 DEF Numbered
  <2> QED BY <1>1, <1>9, <2>1, <2>2, TruncatePrefix
<1>10. CASE segments' \subseteq segments
            /\ UNCHANGED <<up, floor_marker, next_sequence, active_summary, acked>>
  BY <1>0, <1>10 DEF Numbered
<1>11. CASE ~up'
  BY <1>11 DEF Numbered
<1>12. ASSUME NEW undeleted \in SUBSET segments, Open(undeleted) PROVE Numbered'
  <2>1. UNCHANGED <<floor_marker, acked>> /\ active_summary' = active
    BY <1>12 DEF Open
  <2>2. /\ \A s \in sealed' : \A e \in s.entries : e.seq =< next_sequence'
        /\ \A g \in segments : \/ \E s \in sealed' : IsFile(s, g)
                               \/ \A e \in g.entries : e.seq =< floor_marker
        /\ segments' \subseteq segments
        /\ next_sequence' \in Nat /\ floor_marker =< next_sequence'
        /\ \A e \in active : e.seq =< next_sequence'
    BY <1>12, OpenFacts
  <2>3. ASSUME NEW g \in segments, NEW e \in g.entries PROVE e.seq =< next_sequence'
    <3>1. e.seq \in Nat
      BY <1>n
    <3> QED BY <1>n, <2>2, <3>1 DEF IsFile
  <2>4. ASSUME NEW e \in acked PROVE e.seq =< next_sequence'
    <3>1. e \in Durable \/ e.seq =< floor_marker
      BY DEF IInv, AckedOK
    <3>2. e \in Durable => e \in active \/ \E g \in segments : e \in g.entries
      BY <1>0, DurableIs DEF IInv
    <3> QED BY <1>n, <2>2, <2>3, <3>1, <3>2
  <2>5. \A e \in active : e.seq > floor_marker
    BY <1>0 DEF Files
  <2> QED BY <2>1, <2>2, <2>3, <2>4, <2>5 DEF Numbered
<1>13. CASE CallStep
  BY <1>1, <1>4, <1>9, <1>13
  DEF CallStep, AppendStart, PinHistory, DropPin, FenceBranches, LoseOwnership,
      CancelAppend, disk, memory
<1>14. CASE AppendStep
  BY <1>1, <1>3, <1>6, <1>14
  DEF AppendStep, AppendWrite, AppendWriteFails, AppendSync, AppendSyncFails, RollBack,
      RollBackFails, PublishHighWater, disk, memory
<1>15. CASE RotateStep
  BY <1>1, <1>7, <1>8, <1>15
  DEF RotateStep, RotateWriteSection, RotateSkipSection, RotateSectionOpenFails,
      RotateSyncSection, RotateSectionFails, RotateSectionStays, RotatePush, disk, memory
<1>16. CASE TruncateStep
  BY <1>1, <1>10, <1>16 DEF TruncateStep, TruncateDrain, TruncateDelete, TruncateEnd, disk, memory
<1>17. CASE CrashStep
  BY <1>11, <1>17 DEF CrashStep, ProcessCrash, PowerLoss, ForgetMemory
<1>18. CASE OpenStep
  BY <1>11, <1>12, <1>18 DEF OpenStep, RecoverSeal
<1> QED BY <1>13, <1>14, <1>15, <1>16, <1>17, <1>18 DEF Next, LockHolderStep

\* The list and the files stay, and no rename is under way.
LEMMA ListFrame ==
  ASSUME IInv, UNCHANGED <<up, sealed, segments>>,
         pc \notin {"renamed", "pushed"}, pc' \notin {"renamed", "pushed"}
  PROVE  ListOK'
  BY DEF IInv, ListOK

\* The list keeps naming files that are there.
LEMMA ListNext ==
  ASSUME NoneLeftBehind, Whole, IInv, Next
  PROVE  ListOK'
<1>0. TypeOK /\ Files /\ ListOK /\ VictimsOK
  BY DEF IInv, TypeInv
<1>1. CASE RotateRename
  <2>1. PICK new :
           /\ new.entries = active /\ new.first = Min(Seqs(active))
           /\ segments' = segments \cup {new} /\ active = active_summary
    BY <1>1, RenameFacts
  <2>2. /\ up /\ pc = "section_synced" /\ pc' = "renamed"
        /\ UNCHANGED <<up, sealed, active_summary>>
    BY <1>1 DEF RotateRename, memory
  <2>3. \A g \in segments : Below(g.entries, active_summary)
    BY <1>0, <2>1 DEF Files
  <2>4. \A s \in sealed : \E g \in segments : IsFile(s, g)
    BY <1>0, <2>2 DEF ListOK
  <2>5. \A s \in sealed : Below(s.entries, active_summary)
    BY <2>3, <2>4 DEF IsFile
  <2> QED BY <1>0, <2>1, <2>2, <2>3, <2>4, <2>5 DEF ListOK
<1>2. CASE RotatePush
  <2> DEFINE new == [first |-> Min(Seqs(active_summary)), entries |-> active_summary]
  <2>1. /\ up /\ pc = "renamed" /\ pc' = "pushed" /\ sealed' = sealed \cup {new}
        /\ UNCHANGED <<up, segments, active_summary>>
    BY <1>2 DEF RotatePush, disk
  <2>2. new.first = Min(Seqs(active_summary)) /\ new.entries = active_summary
    OBVIOUS
  <2> HIDE DEF new
  <2>3. \E g \in segments : IsFile(new, g)
    BY <1>0, <2>1, <2>2 DEF ListOK, IsFile
  <2>4. ASSUME NEW g \in segments, g.entries = active_summary PROVE IsFile(new, g)
    <3>1. PICK h \in segments : IsFile(new, h)
      BY <2>3
    <3>2. FirstOf(h.first, h.entries)
      BY <1>0 DEF Files, FileOK
    <3>3. PICK e \in h.entries : TRUE
      BY <3>2 DEF FirstOf
    <3>4. g = h
      BY <1>0, <2>2, <2>4, <3>1, <3>3, SameFile DEF IsFile
    <3> QED BY <3>1, <3>4
  <2>5. ASSUME NEW g \in segments
        PROVE  \/ \E s \in sealed' : IsFile(s, g)
               \/ \A s \in sealed' : Below(g.entries, s.entries)
    <3>1. g.entries = active_summary \/ Below(g.entries, new.entries)
      BY <1>0, <2>1, <2>2 DEF ListOK
    <3>2. \/ \E s \in sealed : IsFile(s, g)
          \/ g.entries = active_summary
          \/ \A s \in sealed : Below(g.entries, s.entries)
      BY <1>0, <2>1 DEF ListOK
    <3> QED BY <2>1, <2>4, <3>1, <3>2
  <2>6. \A g \in segments : g.entries = active_summary \/ Below(g.entries, active_summary)
    BY <1>0, <2>1 DEF ListOK
  <2>7. \A s \in sealed : \E g \in segments : IsFile(s, g)
    BY <1>0, <2>1 DEF ListOK
  <2> QED BY <2>1, <2>2, <2>3, <2>5, <2>6, <2>7 DEF ListOK
<1>3. CASE RotateEnd
  BY <1>0, <1>3 DEF ListOK, RotateEnd, Acknowledge, disk
<1>4. CASE TruncateDrain
  <2>1. /\ up /\ pc = "floor_marked" /\ pc' = "deleting" /\ sealed' = sealed \ victims
        /\ UNCHANGED <<up, segments>>
    BY <1>4 DEF TruncateDrain, disk
  <2>2. ASSUME NEW g \in segments, ~ \E s \in sealed' : IsFile(s, g), NEW t \in sealed'
        PROVE  Below(g.entries, t.entries)
    <3>1. CASE \E s \in victims : IsFile(s, g)
      BY <1>0, <2>1, <3>1 DEF VictimsOK, IsFile
    <3>2. CASE ~ \E s \in victims : IsFile(s, g)
      BY <1>0, <2>1, <2>2, <3>2 DEF ListOK
    <3> QED BY <3>1, <3>2
  <2> QED BY <1>0, <2>1, <2>2 DEF ListOK
<1>5. ASSUME NEW fails \in BOOLEAN, TruncateDelete(fails) PROVE ListOK'
  <2>1. PICK v \in victims : \A g \in segments : g \notin segments' => g.first = v.first
    BY <1>5 DEF TruncateDelete
  <2>2. /\ up /\ pc = "deleting" /\ pc' = "deleting" /\ segments' \subseteq segments
        /\ UNCHANGED <<up, sealed, active_summary>>
    BY <1>5 DEF TruncateDelete, memory
  <2>3. ASSUME NEW s \in sealed PROVE \E g \in segments' : IsFile(s, g)
    <3>1. PICK g \in segments : IsFile(s, g)
      BY <1>0, <2>2 DEF ListOK
    <3>2. ASSUME g.first = v.first PROVE FALSE
      <4>1. g.entries = v.entries /\ Below(v.entries, s.entries)
        BY <1>0, <2>2, <3>2 DEF VictimsOK
      <4>2. PICK e \in g.entries : TRUE
        BY <1>0 DEF Files, FileOK, FirstOf
      <4>3. e.seq < e.seq /\ e.seq \in Nat
        BY <1>0, <3>1, <4>1, <4>2, Nats DEF Below, IsFile
      <4> QED BY <4>3
    <3> QED BY <2>1, <3>1, <3>2
  <2>4. \A g \in segments : \/ \E s \in sealed : IsFile(s, g)
                            \/ \A s \in sealed : Below(g.entries, s.entries)
    BY <1>0, <2>2 DEF ListOK
  <2> QED BY <2>2, <2>3, <2>4 DEF ListOK
<1>6. ASSUME NEW undeleted \in SUBSET segments, Open(undeleted) PROVE ListOK'
  <2>1. pc' = "idle"
    BY <1>6 DEF IInv, Down, Open, lock
  <2>2. /\ \A s \in sealed' : \E g \in segments' : IsFile(s, g)
        /\ \A s \in sealed' : \A e \in s.entries : e.seq > floor_marker
        /\ \A g \in segments : \/ \E s \in sealed' : IsFile(s, g)
                               \/ \A e \in g.entries : e.seq =< floor_marker
        /\ segments' \subseteq segments
    BY <1>6, OpenFacts
  <2>3. ASSUME NEW g \in segments, NEW s \in sealed',
               \A e \in g.entries : e.seq =< floor_marker
        PROVE  Below(g.entries, s.entries)
    <3>1. PICK h \in segments : IsFile(s, h)
      BY <2>2
    <3>2. /\ floor_marker \in Nat
          /\ \A e \in g.entries : e.seq \in Nat
          /\ \A e \in s.entries : e.seq \in Nat
      BY <1>0, <3>1, Nats DEF IsFile
    <3> QED BY <2>2, <2>3, <3>2 DEF Below
  <2> QED BY <2>1, <2>2, <2>3 DEF ListOK
<1>7. CASE ~up'
  BY <1>7 DEF ListOK
<1>8. CASE CallStep
  <2>1. ASSUME NEW floor \in 1..(MaxSeq + 1), NEW outcome \in MarkerOutcomes,
               TruncateStart(floor, outcome)
        PROVE  ListOK'
    <3>1. pc = "idle" /\ pc' \in {"idle", "floor_marked"} /\ UNCHANGED <<up, sealed, segments>>
      BY <2>1 DEF TruncateStart
    <3> QED BY <3>1, ListFrame
  <2>2. CASE UNCHANGED <<up, pc, sealed, segments, active_summary>>
    BY <1>0, <2>2 DEF ListOK
  <2>3. ASSUME NEW ops \in Batches, NEW group \in BOOLEAN, AppendStart(ops, group)
        PROVE  ListOK'
    BY <2>3, ListFrame DEF AppendStart, disk, memory
  <2> QED BY <1>8, <2>1, <2>2, <2>3
    DEF CallStep, PinHistory, DropPin, FenceBranches, AdvanceSequenceFloor,
        LoseOwnership, CancelAppend, NoneLeftBehind, disk, lock
<1>9. CASE AppendStep
  BY <1>9, ListFrame
  DEF AppendStep, AppendWrite, AppendWriteFails, AppendSync, AppendSyncFails, RollBack,
      RollBackFails, PublishSequence, PublishHighWater, ObserveActive, Acknowledge, disk, memory
<1>10. CASE RotateStep
  <2>1. CASE \/ RotateWriteSection \/ RotateSkipSection \/ RotateSyncSection
             \/ RotateSectionFails \/ RotateRenameFails
    BY <2>1, ListFrame
    DEF RotateWriteSection, RotateSkipSection, RotateSyncSection, RotateSectionFails,
        RotateRenameFails, Acknowledge, disk, memory
  <2> QED BY <1>1, <1>2, <1>3, <1>10, <2>1
    DEF RotateStep, NoneLeftBehind, RotateSectionOpenFails, RotateSectionStays
<1>11. CASE TruncateStep
  <2>1. CASE TruncateEnd
    BY <2>1, ListFrame DEF TruncateEnd, disk
  <2> QED BY <1>4, <1>5, <1>11, <2>1 DEF TruncateStep
<1>12. CASE CrashStep
  BY <1>7, <1>12 DEF CrashStep, ProcessCrash, PowerLoss, ForgetMemory
<1>13. CASE OpenStep
  BY <1>6, <1>7, <1>13 DEF OpenStep, RecoverSeal
<1> QED BY <1>8, <1>9, <1>10, <1>11, <1>12, <1>13 DEF Next, LockHolderStep

\* What a truncation is about to delete stays below its marker.
LEMMA VictimsNext ==
  ASSUME NoneLeftBehind, Whole, IInv, Next
  PROVE  VictimsOK'
<1>0. TypeOK /\ Files /\ ListOK /\ VictimsOK
  BY DEF IInv, TypeInv
<1>1. CASE victims' = {} /\ pc' \notin {"floor_marked", "deleting"}
  BY <1>1 DEF VictimsOK
<1>2. CASE pc \notin {"floor_marked", "deleting"} /\ pc' \notin {"floor_marked", "deleting"}
           /\ UNCHANGED victims
  BY <1>0, <1>1, <1>2 DEF VictimsOK
<1>3. CASE UNCHANGED <<pc, victims, sealed, segments, floor_marker>>
  BY <1>0, <1>3 DEF VictimsOK
<1>4. ASSUME NEW floor \in 1..(MaxSeq + 1), NEW outcome \in MarkerOutcomes,
             TruncateStart(floor, outcome)
      PROVE  VictimsOK'
  <2>1. up /\ pc = "idle" /\ UNCHANGED <<sealed, segments>>
    BY <1>4 DEF TruncateStart
  <2>2. CASE UNCHANGED <<victims, pc>>
    BY <1>2, <2>1, <2>2
  <2>3. ASSUME NEW doomed, Prefix(doomed, floor_marker'), victims' = doomed,
               pc' = "floor_marked"
        PROVE  VictimsOK'
    BY <2>1, <2>3 DEF VictimsOK, Prefix
  <2> QED BY <1>4, <2>1, <2>2, <2>3, TruncatePrefix
<1>5. CASE TruncateDrain
  <2>1. /\ up /\ pc = "floor_marked" /\ pc' = "deleting" /\ sealed' = sealed \ victims
        /\ UNCHANGED <<victims, segments, floor_marker>>
    BY <1>5 DEF TruncateDrain, disk
  <2>2. ASSUME NEW v \in victims, NEW g \in segments, g.first = v.first
        PROVE  g.entries = v.entries
    <3>1. PICK h \in segments : IsFile(v, h)
      BY <1>0, <2>1 DEF ListOK, VictimsOK
    <3>2. g = h
      BY <1>0, <2>2, <3>1, SameFile DEF IsFile
    <3> QED BY <3>1, <3>2 DEF IsFile
  <2> QED BY <1>0, <2>1, <2>2 DEF VictimsOK
<1>6. ASSUME NEW fails \in BOOLEAN, TruncateDelete(fails) PROVE VictimsOK'
  <2>1. /\ victims' \subseteq victims /\ segments' \subseteq segments
        /\ pc = "deleting" /\ UNCHANGED <<pc, sealed, floor_marker>>
    BY <1>6 DEF TruncateDelete, memory
  <2> QED BY <1>0, <2>1 DEF VictimsOK
<1>7. CASE TruncateEnd
  BY <1>1, <1>7 DEF TruncateEnd
<1>8. CASE CallStep
  <2>1. ASSUME NEW ops \in Batches, NEW group \in BOOLEAN, AppendStart(ops, group)
        PROVE  VictimsOK'
    BY <1>2, <2>1 DEF AppendStart
  <2> QED BY <1>3, <1>4, <1>8, <2>1
    DEF CallStep, PinHistory, DropPin, FenceBranches, AdvanceSequenceFloor,
        LoseOwnership, CancelAppend, NoneLeftBehind, disk, lock
<1>9. CASE AppendStep
  BY <1>2, <1>9
  DEF AppendStep, AppendWrite, AppendWriteFails, AppendSync, AppendSyncFails, RollBack,
      RollBackFails, PublishSequence, PublishHighWater, ObserveActive, Acknowledge
<1>10. CASE RotateStep
  BY <1>2, <1>10
  DEF RotateStep, RotateWriteSection, RotateSkipSection, RotateSectionOpenFails,
      RotateSyncSection, RotateSectionFails, RotateSectionStays, RotateRename,
      RotateRenameFails, RotatePush, RotateEnd, Acknowledge
<1>11. CASE TruncateStep
  BY <1>5, <1>6, <1>7, <1>11 DEF TruncateStep
<1>12. CASE CrashStep
  BY <1>1, <1>12 DEF CrashStep, ProcessCrash, PowerLoss, ForgetMemory
<1>13. CASE OpenStep
  <2>1. pc = "idle" /\ UNCHANGED <<pc, victims>>
    BY <1>13 DEF IInv, Down, OpenStep, RecoverSeal, Open, lock
  <2> QED BY <1>2, <2>1
<1> QED BY <1>8, <1>9, <1>10, <1>11, <1>12, <1>13 DEF Next, LockHolderStep

(***************************************************************************)
(* Acknowledged entries                                                    *)
(***************************************************************************)

\* What an append acknowledges is in the files and in memory.
LEMMA AckedBatch ==
  ASSUME IInv, acked' # acked, Next
  PROVE  /\ acked' = acked \cup batch
         /\ UNCHANGED <<active, unsynced, tail, segments, floor_marker, up, sealed, retained_from>>
         /\ up /\ unsynced = {}
         /\ \/ batch \subseteq active /\ batch \subseteq active_summary'
               /\ active_summary \subseteq active_summary'
            \/ \E s \in sealed : batch \subseteq s.entries /\ active_summary \subseteq s.entries
<1>1. CASE CallStep
  <2>1. \A floor, outcome : TruncateStart(floor, outcome) => UNCHANGED acked
    BY DEF TruncateStart
  <2> QED BY <1>1, <2>1
    DEF CallStep, AppendStart, PinHistory, DropPin, FenceBranches,
        AdvanceSequenceFloor, LoseOwnership, CancelAppend
<1>2. CASE AppendStep
  <2>1. ObserveActive
    BY <1>2
    DEF AppendStep, AppendWrite, AppendWriteFails, AppendSync, AppendSyncFails, RollBack,
        RollBackFails, PublishSequence, PublishHighWater
  <2>2. active = active_summary \cup batch /\ unsynced = {}
    BY <2>1 DEF IInv, SummaryOK, ObserveActive
  <2> QED BY <2>1, <2>2 DEF ObserveActive, Acknowledge, disk
<1>3. CASE RotateStep
  <2>1. RotateRenameFails \/ RotateEnd
    BY <1>3
    DEF RotateStep, RotateWriteSection, RotateSkipSection, RotateSectionOpenFails,
        RotateSyncSection, RotateSectionFails, RotateSectionStays, RotateRename, RotatePush
  <2>2. CASE RotateRenameFails
    <3>1. batch \subseteq active /\ active = active_summary /\ unsynced = {}
      BY <2>2 DEF IInv, SummaryOK, RotateRenameFails
    <3> QED BY <2>2, <3>1 DEF RotateRenameFails, Acknowledge, disk
  <2>3. CASE RotateEnd
    <3>1. batch \subseteq active_summary /\ unsynced = {}
      BY <2>3 DEF IInv, SummaryOK, RotateEnd
    <3>2. PICK s \in sealed : s.entries = active_summary
      BY <2>3 DEF IInv, ListOK, RotateEnd
    <3> QED BY <2>3, <3>1, <3>2 DEF RotateEnd, Acknowledge, disk
  <2> QED BY <2>1, <2>2, <2>3
<1>4. CASE TruncateStep
  BY <1>4 DEF TruncateStep, TruncateDrain, TruncateDelete, TruncateEnd
<1>5. CASE CrashStep \/ OpenStep
  BY <1>5 DEF CrashStep, ProcessCrash, PowerLoss, OpenStep, RecoverSeal, Open
<1> QED BY <1>1, <1>2, <1>3, <1>4, <1>5 DEF Next, LockHolderStep

\* The history above the retained floor stays whole.
LEMMA RetainedNext ==
  ASSUME NoneLeftBehind, Whole, IInv, Next
  PROVE  RetainedOK'
<1>0. TypeOK /\ Files /\ RetainedOK
  BY DEF IInv, TypeInv
<1>1. CASE acked' # acked
  <2>1. RetainedOK /\ up
    BY <1>0, <1>1, AckedBatch
  <2> QED BY <1>1, <2>1, AckedBatch DEF RetainedOK
<1>2. ASSUME UNCHANGED <<up, acked, retained_from>>,
             active_summary \subseteq active_summary',
             \A s \in sealed : s \in sealed'
      PROVE  RetainedOK'
  BY <1>0, <1>2 DEF RetainedOK
<1>3. CASE RotateEnd
  <2>1. PICK s \in sealed : s.entries = active_summary
    BY <1>3 DEF IInv, ListOK, RotateEnd
  <2>2. batch \subseteq s.entries
    BY <1>3, <2>1 DEF IInv, SummaryOK, RotateEnd
  <2> QED BY <1>0, <1>3, <2>1, <2>2 DEF RetainedOK, RotateEnd, Acknowledge
<1>4. CASE TruncateDrain
  <2>1. /\ up /\ pc = "floor_marked" /\ sealed' = sealed \ victims
        /\ retained_from' = Max({retained_from, RetainedAbove(floor_marker)})
        /\ UNCHANGED <<up, acked, active_summary>>
    BY <1>4 DEF TruncateDrain
  <2> DEFINE T == {retained_from, RetainedAbove(floor_marker)}
  <2>2. T \in SUBSET (0..(MaxSeq + 1)) /\ T # {} /\ MaxSeq + 1 \in Nat
        /\ retained_from \in T /\ RetainedAbove(floor_marker) \in T
    BY <1>0, EntryFields DEF TypeOK, RetainedAbove
  <2>3. Max(T) \in Nat /\ Max(T) >= retained_from /\ Max(T) >= RetainedAbove(floor_marker)
    <3> HIDE DEF T
    <3>1. Max(T) \in T /\ \A y \in T : Max(T) >= y
      BY <2>2, MaxOfNats
    <3>2. Max(T) \in 0..(MaxSeq + 1)
      BY <2>2, <3>1
    <3>3. Max(T) >= retained_from /\ Max(T) >= RetainedAbove(floor_marker)
      BY <2>2, <3>1
    <3>4. Max(T) \in Nat
      BY <2>2, <3>2
    <3> QED BY <3>3, <3>4
  <2>4. retained_from' \in Nat /\ retained_from' >= retained_from /\ retained_from' > floor_marker
    BY <1>0, <2>1, <2>3, Nats DEF RetainedAbove
  <2>5. \A v \in victims : \A e \in v.entries : e.seq =< floor_marker
    BY DEF IInv, VictimsOK
  <2>6. floor_marker \in Nat /\ retained_from \in Nat /\ \A e \in acked : e.seq \in Nat
    BY <1>0, Nats
  <2>7. ASSUME NEW e \in acked
        PROVE  \/ e.seq < retained_from' \/ e \in active_summary
               \/ \E s \in sealed' : e \in s.entries
    <3>1. CASE e.seq < retained_from
      BY <2>4, <2>6, <3>1
    <3>2. CASE \E s \in victims : e \in s.entries
      BY <2>4, <2>5, <2>6, <3>2
    <3> QED BY <1>0, <2>1, <3>1, <3>2 DEF RetainedOK
  <2> QED BY <2>1, <2>7 DEF RetainedOK
<1>5. ASSUME NEW undeleted \in SUBSET segments, Open(undeleted) PROVE RetainedOK'
  <2>1. UNCHANGED <<floor_marker, acked>> /\ active_summary' = active
    BY <1>5 DEF Open
  <2>2. /\ \A g \in segments : \/ \E s \in sealed' : IsFile(s, g)
                               \/ \A e \in g.entries : e.seq =< floor_marker
        /\ retained_from' = IF floor_marker > 0 THEN floor_marker + 1 ELSE 0
    BY <1>5, OpenFacts
  <2>3. floor_marker \in Nat /\ \A e \in acked : e.seq \in Nat /\ e.seq > 0
    BY <1>0, Nats
  <2>4. ASSUME NEW e \in acked
        PROVE  \/ e.seq < retained_from' \/ e \in active
               \/ \E s \in sealed' : e \in s.entries
    <3>1. CASE e.seq =< floor_marker
      BY <2>2, <2>3, <3>1
    <3>2. CASE e \in Durable
      <4>1. e \in active \/ \E g \in segments : e \in g.entries
        BY <1>0, <3>2, DurableIs DEF IInv
      <4> QED BY <2>2, <3>1, <4>1 DEF IsFile
    <3> QED BY <3>1, <3>2 DEF IInv, AckedOK
  <2> QED BY <2>1, <2>4 DEF RetainedOK
<1>6. CASE ~up'
  BY <1>6 DEF RetainedOK
<1>7. CASE CallStep
  <2>1. \A floor, outcome : TruncateStart(floor, outcome) =>
          UNCHANGED <<up, acked, retained_from, active_summary, sealed>>
    BY DEF TruncateStart
  <2> QED BY <1>2, <1>7, <2>1
    DEF CallStep, AppendStart, PinHistory, DropPin, FenceBranches,
        AdvanceSequenceFloor, LoseOwnership, CancelAppend, memory
<1>8. CASE AppendStep
  BY <1>1, <1>2, <1>8
  DEF AppendStep, AppendWrite, AppendWriteFails, AppendSync, AppendSyncFails, RollBack,
      RollBackFails, PublishSequence, PublishHighWater, ObserveActive, memory
<1>9. CASE RotateStep
  BY <1>1, <1>2, <1>3, <1>9
  DEF RotateStep, RotateWriteSection, RotateSkipSection, RotateSectionOpenFails,
      RotateSyncSection, RotateSectionFails, RotateSectionStays, RotateRename,
      RotateRenameFails, RotatePush, memory
<1>10. CASE TruncateStep
  BY <1>2, <1>4, <1>10 DEF TruncateStep, TruncateDelete, TruncateEnd, memory
<1>11. CASE CrashStep
  BY <1>6, <1>11 DEF CrashStep, ProcessCrash, PowerLoss, ForgetMemory
<1>12. CASE OpenStep
  BY <1>5, <1>6, <1>12 DEF OpenStep, RecoverSeal
<1> QED BY <1>7, <1>8, <1>9, <1>10, <1>11, <1>12 DEF Next, LockHolderStep


\* What can be read back after any crash of the next state
LEMMA DurableIsNext ==
  ASSUME TypeOK', Files', Tails'
  PROVE  \A e : e \in Durable' <=>
                  e \in active' \ unsynced' \/ \E g \in segments' : e \in g.entries
<1>1. tail' \notin {"buried", "buried_section", "partial"}
  BY DEF Tails
<1>2. \A g \in segments' : g.good
  BY DEF Files, FileOK
<1>3. \A e : e \in OnDisk' <=> e \in active' \/ \E g \in segments' : e \in g.entries
  BY <1>1, <1>2 DEF OnDisk
<1>4. ASSUME NEW g \in segments', NEW e \in g.entries PROVE e \notin unsynced'
  <2>1. g.entries \subseteq Entry /\ unsynced' \subseteq active'
    BY DEF TypeOK, Segment
  <2>2. e.seq \in Nat /\ unsynced' \subseteq active'
    BY <2>1, EntryFields
  <2> QED BY <2>2 DEF Files, Below
<1>5. unsynced' \subseteq active'
  BY DEF TypeOK
<1> QED BY <1>3, <1>4, <1>5 DEF Durable

\* What becomes durable is whole groups that were written and not synced; what
\* stops being so lies below the marker, and goes by a delete or at boot.
Gains(N) == /\ N \subseteq unsynced /\ Closed(N) /\ Uniq(N)
            /\ \A e : e \in Durable' <=> e \in Durable \/ e \in N
            /\ UNCHANGED <<acked, floor_marker>> /\ sealed' \subseteq sealed

Loses == /\ Durable' \subseteq Durable
         /\ \A e \in Durable : e \in Durable' \/ e.seq =< floor_marker
         /\ UNCHANGED <<acked, floor_marker>>
         /\ \E undeleted \in SUBSET segments : Open(undeleted)

Deletes == /\ Durable' \subseteq Durable
           /\ \A e \in Durable : \/ e \in Durable'
                                 \/ \E v \in victims : e \in v.entries
           /\ UNCHANGED <<acked, floor_marker, sealed, up>>
           /\ up /\ pc = "deleting"

\* A step keeps what is durable, adds whole groups, or forgets below the floor.
LEMMA DurableStep ==
  ASSUME NoneLeftBehind, Whole, IInv, Next, TypeOK', Files', Tails'
  PROVE  Durable' = Durable \/ (\E N : Gains(N)) \/ Loses \/ Deletes
<1>0. TypeOK /\ Files /\ Tails
  BY DEF IInv, TypeInv
<1>d. \A e : e \in Durable <=> e \in active \ unsynced \/ \E g \in segments : e \in g.entries
  BY <1>0, DurableIs
<1>e. \A e : e \in Durable' <=>
               e \in active' \ unsynced' \/ \E g \in segments' : e \in g.entries
  BY DurableIsNext
<1>1. ASSUME active' \ unsynced' = active \ unsynced, UNCHANGED segments
      PROVE  Durable' = Durable
  BY <1>1, <1>d, <1>e
<1>2. ASSUME NEW N, N \subseteq unsynced, Closed(N), active' = (active \ unsynced) \cup N,
             unsynced' = {}, UNCHANGED <<segments, acked, floor_marker>>,
             sealed' \subseteq sealed
      PROVE  Gains(N)
  <2>1. Uniq(N)
    BY <1>0, <1>2 DEF Files, Uniq
  <2> QED BY <1>2, <1>d, <1>e, <2>1 DEF Gains
<1>3. ASSUME up, pc = "append", NEW W, W \subseteq batch, active' = active \cup W,
             unsynced' = unsynced \cup W
      PROVE  active' \ unsynced' = active \ unsynced
  <2>1. \A e \in batch : e.seq > next_sequence
    BY <1>3 DEF IInv, BatchOK, Unpublished
  <2>2. \A e \in active : e.seq =< next_sequence
    BY <1>3 DEF IInv, Numbered, SummaryOK
  <2>3. next_sequence \in Nat /\ \A e \in active : e.seq \in Nat
    BY <1>0, Nats
  <2>4. \A e \in active : e \notin W
    BY <1>3, <2>1, <2>2, <2>3
  <2> QED BY <1>3, <2>4
<1>4. CASE AppendSync
  <2>1. active' = (active \ unsynced) \cup unsynced
    BY <1>0, <1>4 DEF AppendSync, TypeOK
  <2> QED BY <1>0, <1>2, <1>4, <2>1 DEF AppendSync, Files, memory
<1>5. CASE RollBack
  <2>1. Closed(active \ batch) /\ active \ batch = active_summary
    BY <1>5, RolledBackClosed DEF RollBack
  <2>2. \A e \in active \ unsynced : e \notin batch
    BY <1>5 DEF IInv, SummaryOK, RollBack
  <2>3. ASSUME NEW e \in unsynced \ batch, NEW n \in e.lo..e.hi
        PROVE  \E f \in unsynced \ batch : f.seq = n /\ f.lo = e.lo /\ f.hi = e.hi
    <3>1. PICK f \in unsynced : f.seq = n /\ f.lo = e.lo /\ f.hi = e.hi
      BY <1>0 DEF Files, Closed
    <3>2. e \in active /\ e.lo =< e.seq /\ e.seq =< next_sequence
      BY <1>0, <1>5, <2>1 DEF Files, RollBack, IInv, Numbered
    <3>3. \A x \in batch : x.lo > next_sequence
      BY <1>5 DEF IInv, BatchOK, RollBack, Unpublished
    <3>4. e.lo \in Nat /\ e.seq \in Nat /\ next_sequence \in Nat
      BY <1>0, <3>2, Nats
    <3> QED BY <3>1, <3>2, <3>3, <3>4
  <2>4. Closed(unsynced \ batch)
    BY <2>3 DEF Closed
  <2>5. active' = (active \ unsynced) \cup (unsynced \ batch)
    BY <1>0, <1>5, <2>2 DEF RollBack, TypeOK
  <2> QED BY <1>2, <1>5, <2>4, <2>5 DEF RollBack
<1>6. CASE RotateRename
  <2>1. PICK new : new.entries = active /\ segments' = segments \cup {new} /\ unsynced = {}
    BY <1>6, RenameFacts
  <2>2. active' = {} /\ unsynced' = {}
    BY <1>6, <2>1 DEF RotateRename
  <2>3. \A e : e \in Durable' <=> e \in Durable
    BY <1>d, <1>e, <2>1, <2>2
  <2> QED BY <2>3
<1>7. CASE RecoverSeal
  <2> DEFINE new == [first |-> Min(Seqs(active)), entries |-> active,
                     summary |-> active, good |-> tail = "section"]
  <2>1. /\ segments' = segments \cup {new} /\ active' = {} /\ unsynced' = {}
        /\ new.entries = active
    BY <1>7 DEF RecoverSeal
  <2>2. unsynced = {}
    BY <1>0, <1>7 DEF RecoverSeal, Tails
  <2> HIDE DEF new
  <2>3. \A e : e \in Durable' <=> e \in Durable
    BY <1>d, <1>e, <2>1, <2>2
  <2> QED BY <2>3
<1>8. ASSUME NEW k \in 0..MaxSeq, PowerLoss(k) PROVE Gains(WholeFrames(unsynced, k))
  <2>1. Closed(WholeFrames(unsynced, k)) /\ WholeFrames(unsynced, k) \subseteq unsynced
    BY <1>0, ClosedFrames, WholeFramesSub DEF Files
  <2> QED BY <1>2, <1>8, <2>1 DEF PowerLoss, ForgetMemory
<1>9. ASSUME NEW fails \in BOOLEAN, TruncateDelete(fails) PROVE Deletes
  <2>1. PICK v \in victims : \A g \in segments : g \notin segments' => g.first = v.first
    BY <1>9 DEF TruncateDelete
  <2>2. /\ up /\ pc = "deleting" /\ segments' \subseteq segments
        /\ UNCHANGED <<active, unsynced, acked, floor_marker, sealed, up>>
    BY <1>9 DEF TruncateDelete, memory
  <2>3. \A g \in segments : g \notin segments' => g.entries = v.entries
    BY <2>1, <2>2 DEF IInv, VictimsOK
  <2> QED BY <1>d, <1>e, <2>2, <2>3 DEF Deletes
<1>10. ASSUME NEW undeleted \in SUBSET segments, Open(undeleted) PROVE Loses
  <2>1. UNCHANGED <<active, unsynced, acked, floor_marker>>
    BY <1>10 DEF Open
  <2>2. /\ segments' \subseteq segments
        /\ \A g \in segments : g \in segments' \/ \A e \in g.entries : e.seq =< floor_marker
    BY <1>10, OpenFacts
  <2> QED BY <1>10, <1>d, <1>e, <2>1, <2>2 DEF Loses
<1>11. CASE CallStep
  <2>1. \A floor, outcome : TruncateStart(floor, outcome) =>
          UNCHANGED <<active, unsynced, segments>>
    BY DEF TruncateStart
  <2> QED BY <1>1, <1>11, <2>1
    DEF CallStep, AppendStart, PinHistory, DropPin, FenceBranches,
        AdvanceSequenceFloor, LoseOwnership, CancelAppend, disk
<1>12. CASE AppendStep
  <2>1. CASE AppendWrite
    BY <1>1, <1>3, <2>1 DEF AppendWrite
  <2>2. ASSUME NEW k \in 0..MaxSeq, AppendWriteFails(k) PROVE Durable' = Durable
    BY <1>1, <1>3, <2>2, WholeFramesSub DEF AppendWriteFails
  <2> QED BY <1>1, <1>4, <1>5, <1>12, <2>1, <2>2
    DEF AppendStep, AppendSyncFails, RollBackFails, PublishSequence, PublishHighWater,
        ObserveActive, disk
<1>13. CASE RotateStep
  <2>1. CASE RotateSyncSection
    <3>1. unsynced = {}
      BY <2>1 DEF IInv, SummaryOK, RotateSyncSection
    <3> QED BY <1>1, <2>1, <3>1 DEF RotateSyncSection
  <2> QED BY <1>1, <1>6, <1>13, <2>1
    DEF RotateStep, RotateWriteSection, RotateSkipSection, RotateSectionOpenFails,
        RotateSectionFails, RotateSectionStays, RotateRenameFails, RotatePush, RotateEnd,
        NoneLeftBehind, disk
<1>14. CASE TruncateStep
  BY <1>1, <1>9, <1>14 DEF TruncateStep, TruncateDrain, TruncateEnd, disk
<1>15. CASE CrashStep
  BY <1>1, <1>8, <1>15 DEF CrashStep, ProcessCrash, disk
<1>16. CASE OpenStep
  BY <1>7, <1>10, <1>16 DEF OpenStep
<1> QED BY <1>11, <1>12, <1>13, <1>14, <1>15, <1>16 DEF Next, LockHolderStep

\* Every step keeps acknowledged entries durable above the floor.
LEMMA AckedNext ==
  ASSUME NoneLeftBehind, Whole, IInv, Next, TypeOK', Files', Tails'
  PROVE  AckedOK'
<1>0. TypeOK /\ Files /\ Tails /\ AckedOK
  BY DEF IInv, TypeInv
<1>n. /\ floor_marker \in Nat
      /\ \A e \in acked : e.seq \in Nat
      /\ \A s \in sealed : \A e \in s.entries : e.seq \in Nat
  BY <1>0, Nats
<1>1. CASE acked' # acked
  <2>1. UNCHANGED <<active, unsynced, tail, segments, floor_marker, sealed>>
    BY <1>1, AckedBatch
  <2>2. Durable' = Durable
    BY <2>1 DEF Durable, OnDisk
  <2>3. ASSUME NEW e \in batch PROVE e \in Durable
    <3>1. unsynced = {} /\ up
      BY <1>1, AckedBatch
    <3>2. CASE batch \subseteq active
      BY <1>0, <3>1, <3>2, DurableIs
    <3>3. ASSUME NEW s \in sealed, batch \subseteq s.entries PROVE e \in Durable
      <4>1. PICK g \in segments : IsFile(s, g)
        BY <3>1 DEF IInv, ListOK
      <4> QED BY <1>0, <3>3, <4>1, DurableIs DEF IsFile
    <3> QED BY <1>1, <3>2, <3>3, AckedBatch
  <2>4. acked' = acked \cup batch
    BY <1>1, AckedBatch
  <2> QED BY <1>0, <2>1, <2>2, <2>3, <2>4 DEF AckedOK
<1>2. CASE Deletes
  <2>1. ASSUME NEW e \in acked, NEW v \in victims, e \in v.entries
        PROVE  e.seq =< floor_marker /\ \A s \in sealed : \A f \in s.entries : e.seq < f.seq
    <3>1. /\ \A s \in sealed : Below(v.entries, s.entries)
          /\ \A x \in v.entries : x.seq =< floor_marker
      BY <1>2 DEF IInv, VictimsOK, Deletes
    <3> QED BY <2>1, <3>1 DEF Below
  <2> QED BY <1>0, <1>2, <2>1 DEF AckedOK, Deletes
<1>3. CASE Loses
  <2>1. PICK undeleted \in SUBSET segments : Open(undeleted)
    BY <1>3 DEF Loses
  <2>2. /\ \A s \in sealed' : \A f \in s.entries : f.seq > floor_marker
        /\ \A s \in sealed' : \E g \in segments' : IsFile(s, g)
        /\ segments' \subseteq segments
    BY <2>1, OpenFacts
  <2>3. \A s \in sealed' : \A f \in s.entries : f.seq \in Nat
    BY <1>0, <2>2, Nats DEF IsFile
  <2>4. ASSUME NEW e \in acked, e.seq =< floor_marker
        PROVE  \A s \in sealed' : \A f \in s.entries : e.seq < f.seq
    BY <1>n, <2>2, <2>3, <2>4
  <2>5. \A e \in acked : e \in Durable' \/ e.seq =< floor_marker
    BY <1>0, <1>3 DEF AckedOK, Loses
  <2> QED BY <1>3, <2>4, <2>5 DEF AckedOK, Loses
<1>4. CASE \E N : Gains(N)
  BY <1>0, <1>4 DEF AckedOK, Gains
<1>5. ASSUME Durable' = Durable, UNCHANGED <<acked, floor_marker>>, sealed' \subseteq sealed
      PROVE  AckedOK'
  BY <1>0, <1>5 DEF AckedOK
<1>6. CASE RotatePush
  <2> DEFINE new == [first |-> Min(Seqs(active_summary)), entries |-> active_summary]
  <2>1. /\ up /\ sealed' = sealed \cup {new} /\ new.entries = active_summary
        /\ UNCHANGED <<active, unsynced, tail, segments, acked, floor_marker>>
    BY <1>6 DEF RotatePush, disk
  <2>2. Durable' = Durable
    BY <2>1 DEF Durable, OnDisk
  <2> HIDE DEF new
  <2>3. \A f \in active_summary : f.seq > floor_marker /\ f.seq \in Nat
    BY <1>0, <2>1, Nats DEF IInv, Numbered
  <2>4. \A e \in acked : e.seq =< floor_marker => \A f \in active_summary : e.seq < f.seq
    BY <1>n, <2>3
  <2> QED BY <1>0, <2>1, <2>2, <2>4 DEF AckedOK
<1>7. ASSUME NEW floor \in 1..(MaxSeq + 1), NEW outcome \in MarkerOutcomes,
             TruncateStart(floor, outcome)
      PROVE  AckedOK'
  <2>1. UNCHANGED <<active, unsynced, tail, segments, acked, sealed>>
    BY <1>7 DEF TruncateStart
  <2>2. Durable' = Durable
    BY <2>1 DEF Durable, OnDisk
  <2>3. ASSUME NEW doomed, Prefix(doomed, floor_marker') PROVE AckedOK'
    <3>1. PICK d \in doomed : \E f \in d.entries : f.seq = floor_marker'
      BY <2>3 DEF Prefix
    <3>2. PICK f \in d.entries : f.seq = floor_marker'
      BY <3>1
    <3>3. d \in sealed /\ f.seq \in Nat
      BY <1>n, <2>3 DEF Prefix
    <3>4. ASSUME NEW e \in acked, \A s \in sealed : \A x \in s.entries : e.seq < x.seq
          PROVE  e.seq =< floor_marker'
      BY <1>n, <3>2, <3>3, <3>4
    <3> QED BY <1>0, <2>1, <2>2, <3>4 DEF AckedOK
  <2> QED BY <1>5, <1>7, <2>1, <2>2, <2>3, TruncatePrefix
<1>8. CASE Durable' = Durable /\ UNCHANGED acked
  <2>1. CASE CallStep
    BY <1>5, <1>7, <1>8, <2>1
    DEF CallStep, AppendStart, PinHistory, DropPin, FenceBranches,
        AdvanceSequenceFloor, LoseOwnership, CancelAppend, disk, memory
  <2>2. CASE AppendStep
    BY <1>5, <1>8, <2>2
    DEF AppendStep, AppendWrite, AppendWriteFails, AppendSync, AppendSyncFails, RollBack,
        RollBackFails, PublishSequence, PublishHighWater, ObserveActive, disk, memory
  <2>3. CASE RotateStep
    BY <1>5, <1>6, <1>8, <2>3
    DEF RotateStep, RotateWriteSection, RotateSkipSection, RotateSectionOpenFails,
        RotateSyncSection, RotateSectionFails, RotateSectionStays, RotateRename,
        RotateRenameFails, RotateEnd, disk, memory
  <2>4. CASE TruncateStep
    BY <1>5, <1>8, <2>4
    DEF TruncateStep, TruncateDrain, TruncateDelete, TruncateEnd, disk, memory
  <2>5. CASE CrashStep
    BY <1>5, <1>8, <2>5 DEF CrashStep, ProcessCrash, PowerLoss, ForgetMemory, disk
  <2>6. CASE RecoverSeal
    BY <1>5, <1>8, <2>6 DEF RecoverSeal, memory
  <2>7. ASSUME NEW undeleted \in SUBSET segments, Open(undeleted) PROVE AckedOK'
    <3>1. Loses
      BY <1>8, <2>7 DEF Loses, Open
    <3> QED BY <1>3, <3>1
  <2> QED BY <2>1, <2>2, <2>3, <2>4, <2>5, <2>6, <2>7 DEF Next, LockHolderStep, OpenStep
<1> QED BY <1>1, <1>2, <1>3, <1>4, <1>8, DurableStep

(***************************************************************************)
(* The theorems about the log without the faults                           *)
(***************************************************************************)

\* The invariant holds of an empty directory.
LEMMA IInit == Init => IInv
<1> SUFFICES ASSUME Init PROVE IInv
  OBVIOUS
<1>1. TypeInv
  BY TypeInit
<1>2. Closed({}) /\ Uniq({}) /\ \A S : Below(S, {}) /\ Below({}, S)
  BY DEF Closed, Uniq, Below
<1>3. active \ unsynced = {}
  BY DEF Init
<1>4. Files
  BY <1>2, <1>3 DEF Init, Files
<1>5. Tails /\ Down /\ BatchOK /\ SummaryOK /\ Numbered
  BY <1>2 DEF Init, Tails, Down, BatchOK, SummaryOK, Numbered, Quiet, Unpublished, Published
<1>6. ListOK /\ VictimsOK /\ RetainedOK /\ AckedOK
  BY DEF Init, ListOK, VictimsOK, RetainedOK, AckedOK
<1> QED BY <1>1, <1>4, <1>5, <1>6 DEF IInv

\* Every step keeps the invariant.
LEMMA IStep ==
  ASSUME NoneLeftBehind
  PROVE  IInv /\ [Next]_walVars /\ Whole => IInv'
<1> SUFFICES ASSUME IInv, [Next]_walVars, Whole PROVE IInv'
  OBVIOUS
<1>1. CASE Next
  <2>1. TypeInv' /\ TypeOK'
    BY <1>1, TypeNext DEF IInv, TypeInv
  <2>2. Files' /\ Tails' /\ Down' /\ BatchOK' /\ SummaryOK'
    BY <1>1, FilesNext, TailsNext, DownNext, BatchNext, SummaryNext
  <2>3. Numbered' /\ ListOK' /\ VictimsOK' /\ RetainedOK'
    BY <1>1, NumberedNext, ListNext, VictimsNext, RetainedNext
  <2>4. AckedOK'
    BY <1>1, <2>1, <2>2, AckedNext
  <2> QED BY <2>1, <2>2, <2>3, <2>4 DEF IInv
<1>2. CASE UNCHANGED walVars
  <2>0. /\ UNCHANGED <<active, unsynced, tail, segments, floor_marker, up, next_sequence>>
        /\ UNCHANGED <<poisoned, sealed, active_summary, retained_from, acked>>
        /\ UNCHANGED <<pc, batch, pre_tail, victims>>
    BY <1>2 DEF walVars, disk, memory, lock
  <2>1. TypeInv'
    BY <1>2, TypeNext DEF IInv
  <2>2. Files' /\ Tails' /\ Down' /\ BatchOK' /\ SummaryOK'
    BY <2>0 DEF IInv, Files, Tails, Down, BatchOK, SummaryOK
  <2>3. Numbered' /\ ListOK' /\ VictimsOK' /\ RetainedOK'
    BY <2>0 DEF IInv, Numbered, ListOK, VictimsOK, RetainedOK
  <2>4. AckedOK'
    BY <2>0 DEF IInv, AckedOK, Durable, OnDisk
  <2> QED BY <2>1, <2>2, <2>3, <2>4 DEF IInv
<1> QED BY <1>1, <1>2

LEMMA INext ==
  ASSUME Faultless
  PROVE  IInv /\ [Next]_walVars => IInv'
  BY IStep DEF Faultless, Whole

\* The invariant holds in every reachable state.
LEMMA IInvariant ==
  ASSUME Faultless
  PROVE  Spec => []IInv
  BY IInit, INext, PTL DEF Spec

\* An append that returned Ok stays durable and decodable through every crash,
\* failed write, roll-back, rotation and truncation that follows, until a
\* recorded truncation covers its sequence (append_entries, rotate_active,
\* truncate_below, open).
THEOREM AckedStaysDurable ==
  ASSUME Faultless
  PROVE  Spec => []AckedDurable
<1>1. IInv => AckedDurable
  <2> SUFFICES ASSUME IInv, NEW e \in acked, e.seq > floor_marker PROVE e \in Durable
    BY DEF AckedDurable
  <2>1. e.seq \in Nat /\ floor_marker \in Nat
    BY Nats DEF IInv, TypeInv
  <2> QED BY <2>1 DEF IInv, AckedOK
<1> QED BY <1>1, IInvariant, PTL

\* No sequence is acknowledged twice, and an open log numbers above everything
\* acknowledged, after crashes, rolled-back appends and truncations that
\* emptied the log (append_entries, open, the floor marker).
THEOREM SequencesUnique ==
  ASSUME Faultless
  PROVE  Spec => []SequenceNeverReused
<1>1. IInv => SequenceNeverReused
  BY DEF IInv, BatchOK, Uniq, Numbered, SequenceNeverReused
<1> QED BY <1>1, IInvariant, PTL

\* Groups are all or nothing on disk, torn writes and power losses included, and
\* no truncation cuts one (encode_group_frame, decode_frame, truncate_below).
THEOREM GroupsWhole ==
  ASSUME Faultless
  PROVE  Spec => []GroupAllOrNothing
<1>1. IInv => GroupAllOrNothing
  <2> SUFFICES ASSUME IInv, NEW e \in OnDisk, e.seq > floor_marker, NEW n \in e.lo..e.hi
               PROVE  /\ n > floor_marker
                      /\ \E f \in OnDisk : f.seq = n /\ f.lo = e.lo /\ f.hi = e.hi
    BY DEF GroupAllOrNothing
  <2>0. TypeOK /\ Files /\ Tails
    BY DEF IInv, TypeInv
  <2>1. \A x : x \in OnDisk <=> x \in active \/ \E g \in segments : x \in g.entries
    BY <2>0 DEF OnDisk, Tails, Files, FileOK
  <2>2. CASE e \in active
    <3>1. \/ \E f \in active \ unsynced : f.seq = n /\ f.lo = e.lo /\ f.hi = e.hi
          \/ \E f \in unsynced : f.seq = n /\ f.lo = e.lo /\ f.hi = e.hi
      BY <2>0, <2>2 DEF Files, Closed
    <3>2. PICK f \in active : f.seq = n /\ f.lo = e.lo /\ f.hi = e.hi
      BY <2>0, <3>1 DEF TypeOK
    <3> QED BY <2>0, <2>1, <3>2 DEF Files
  <2>3. ASSUME NEW g \in segments, e \in g.entries
        PROVE  /\ n > floor_marker
               /\ \E f \in OnDisk : f.seq = n /\ f.lo = e.lo /\ f.hi = e.hi
    <3>1. PICK f \in g.entries : f.seq = n /\ f.lo = e.lo /\ f.hi = e.hi
      BY <2>0, <2>3 DEF Files, FileOK, Closed
    <3>2. floor_marker \in Nat /\ e.seq \in Nat
      BY <2>0, <2>3, Nats
    <3>3. ~ (\A x \in g.entries : x.seq =< floor_marker)
      BY <2>3, <3>2
    <3>4. f.seq > floor_marker
      BY <2>0, <3>3 DEF Files, WholeFloor
    <3> QED BY <2>1, <3>1, <3>4
  <2> QED BY <2>1, <2>2, <2>3
<1> QED BY <1>1, IInvariant, PTL

\* At an even generation the list names files that are there, with the entries
\* their summaries promise, and the active summary is the active file, but for
\* the append in progress and what a failed roll-back left: the lock-free
\* readers' contract (rotate_active, truncate_below, open).
THEOREM ListIsDisk ==
  ASSUME Faultless
  PROVE  Spec => []ListMatchesDisk
<1>1. IInv /\ ParityInv => ListMatchesDisk
  <2> SUFFICES ASSUME IInv, ParityInv, up, rotations % 2 = 0
               PROVE  /\ \A s \in sealed :
                           \E g \in segments : g.first = s.first /\ g.entries = s.entries
                      /\ active_summary \subseteq active
                      /\ active \ active_summary \subseteq batch \cup unsynced
    BY DEF ListMatchesDisk
  <2>1. pc \in Pc /\ pc \notin {"section_written", "section_synced", "renamed", "pushed"}
    BY ParityFlips DEF ParityInv, Parity
  <2>2. active_summary \subseteq active /\ active \ active_summary \subseteq batch \cup unsynced
    BY <2>1 DEF IInv, SummaryOK, Quiet, Pc
  <2> QED BY <2>2 DEF IInv, ListOK, IsFile
<1>2. ASSUME Faultless PROVE ~CallerMayCancel
  BY <1>2 DEF Faultless, NoneLeftBehind
<1> QED BY <1>1, <1>2, IInvariant, ParityInit, ParityNext, PTL DEF Spec

\* The retained history has no hole: an acknowledged entry is below the retained
\* floor, in the active summary or in a listed segment (truncate_below drains
\* only an oldest prefix; open rebuilds the list).
THEOREM HistoryGapFree ==
  ASSUME Faultless
  PROVE  Spec => []RetainedGapFree
<1>1. IInv => RetainedGapFree
  BY DEF IInv, RetainedOK, RetainedGapFree
<1> QED BY <1>1, IInvariant, PTL

\* In a state of the invariant open() accepts the files.
LEMMA InvIsRecoverable == IInv => Recoverable
<1> SUFFICES ASSUME IInv, ~Openable
             PROVE  /\ tail = "section"
                    /\ \A g \in segments : \A e \in active : g.first # e.seq
  BY DEF Recoverable
<1>0. TypeOK /\ Files /\ Tails
  BY DEF IInv, TypeInv
<1>1. tail = "section"
  BY <1>0 DEF Openable, Tails, Files, FileOK
<1>2. ASSUME NEW g \in segments, NEW e \in active PROVE g.first # e.seq
  <2>1. PICK f \in g.entries : f.seq = g.first
    BY <1>0 DEF Files, FileOK, FirstOf
  <2>2. f.seq < e.seq /\ f.seq \in Nat /\ e.seq \in Nat
    BY <1>0, <2>1, Nats DEF Files, Below
  <2> QED BY <2>1, <2>2
<1> QED BY <1>1, <1>2

\* Only a power failure behind an unsynced section leaves part of one.
LEMMA TornBy ==
  ASSUME NoneLeftBehind, IInv, [Next]_walVars, tail' = "partial"
  PROVE  ~up' /\ pc = "section_written"
<1>0. /\ tail \in {"clean", "torn", "section"}
      /\ pc \in Unpublished => pre_tail = "clean"
      /\ (up /\ pc \in {"append", "rotating"}) => tail = "clean"
  BY DEF IInv, Tails
<1>1. CASE UNCHANGED walVars
  BY <1>0, <1>1 DEF walVars, disk
<1>2. CASE CallStep
  BY <1>0, <1>2
  DEF CallStep, AppendStart, TruncateStart, PinHistory, DropPin, FenceBranches,
      AdvanceSequenceFloor, LoseOwnership, CancelAppend, disk
<1>3. CASE AppendStep
  BY <1>0, <1>3
  DEF AppendStep, AppendWrite, AppendWriteFails, AppendSync, AppendSyncFails, RollBack,
      RollBackFails, PublishSequence, PublishHighWater, ObserveActive, TailUnder,
      Unpublished, disk
<1>4. CASE RotateStep
  BY <1>0, <1>4
  DEF RotateStep, RotateWriteSection, RotateSkipSection, RotateSectionOpenFails,
      RotateSyncSection, RotateSectionFails, RotateSectionStays, RotateRename,
      RotateRenameFails, RotatePush, RotateEnd, TailUnder, NoneLeftBehind, disk
<1>5. CASE TruncateStep
  BY <1>0, <1>5 DEF TruncateStep, TruncateDrain, TruncateDelete, TruncateEnd, disk
<1>6. CASE ProcessCrash \/ OpenStep
  BY <1>0, <1>6 DEF ProcessCrash, OpenStep, RecoverSeal, Open, disk
<1>7. ASSUME NEW k \in 0..MaxSeq, PowerLoss(k) PROVE ~up' /\ pc = "section_written"
  BY <1>0, <1>7 DEF PowerLoss, TailsAfterPowerLoss, ForgetMemory
<1> QED BY <1>1, <1>2, <1>3, <1>4, <1>5, <1>6, <1>7 DEF Next, LockHolderStep, CrashStep

\* A directory that open() refuses for its torn section stays as it is.
LEMMA RefusedStays ==
  ASSUME ~up, tail = "partial", [Next]_walVars
  PROVE  ~up' /\ tail' = "partial"
<1>1. CASE UNCHANGED walVars
  BY <1>1 DEF walVars, disk
<1>2. CASE CallStep
  BY <1>2
  DEF CallStep, AppendStart, TruncateStart, PinHistory, DropPin, FenceBranches,
      AdvanceSequenceFloor, LoseOwnership, CancelAppend
<1>3. CASE AppendStep
  BY <1>3
  DEF AppendStep, AppendWrite, AppendWriteFails, AppendSync, AppendSyncFails, RollBack,
      RollBackFails, PublishSequence, PublishHighWater, ObserveActive
<1>4. CASE RotateStep
  BY <1>4
  DEF RotateStep, RotateWriteSection, RotateSkipSection, RotateSectionOpenFails,
      RotateSyncSection, RotateSectionFails, RotateSectionStays, RotateRename,
      RotateRenameFails, RotatePush, RotateEnd
<1>5. CASE TruncateStep
  BY <1>5 DEF TruncateStep, TruncateDrain, TruncateDelete, TruncateEnd
<1>6. CASE ProcessCrash \/ OpenStep
  BY <1>6 DEF ProcessCrash, OpenStep, RecoverSeal, Open, Openable
<1>7. ASSUME NEW k \in 0..MaxSeq, PowerLoss(k) PROVE ~up' /\ tail' = "partial"
  BY <1>7 DEF PowerLoss, TailsAfterPowerLoss, ForgetMemory
<1> QED BY <1>1, <1>2, <1>3, <1>4, <1>5, <1>6, <1>7 DEF Next, LockHolderStep, CrashStep

\* A crash at any point, one between section and rename included, leaves files
\* that open() accepts, unless it is a power failure that tears a section before
\* its sync_data, whether such failures happen or not (recover_interrupted_seal,
\* decode of the active file).
THEOREM CrashOpenable ==
  ASSUME NoneLeftBehind
  PROVE  Spec => CrashLeavesOpenable
<1> DEFINE Refused == ~up /\ tail = "partial"
           Known == IInv \/ Refused
<1>1. Init => Known
  BY IInit
<1>2. Known /\ [Next]_walVars => Known'
  <2> SUFFICES ASSUME Known, [Next]_walVars PROVE Known'
    OBVIOUS
  <2>1. CASE IInv /\ tail' # "partial"
    BY <2>1, IStep DEF Whole
  <2>2. CASE IInv /\ tail' = "partial"
    BY <2>2, TornBy
  <2>3. CASE Refused
    BY <2>3, RefusedStays
  <2> QED BY <2>1, <2>2, <2>3
<1>r. IInv' => Recoverable'
  BY InvIsRecoverable, PTL
<1>3. ASSUME Known, Known', [Next]_walVars, ~up', up \/ Recoverable
      PROVE  Recoverable' \/ TornSection
  <2>1. CASE IInv'
    BY <1>r, <2>1
  <2>2. CASE Refused' /\ IInv
    BY <1>3, <2>2, TornBy DEF TornSection
  <2>3. ~Refused
    BY <1>3 DEF Recoverable, Openable
  <2> QED BY <1>3, <2>1, <2>2, <2>3
<1>4. Known /\ Known' /\ [Next]_walVars
        => [(~up' /\ (up \/ Recoverable)) => (Recoverable' \/ TornSection)]_walVars
  BY <1>3
<1> HIDE DEF Known
<1> QED BY <1>1, <1>2, <1>4, PTL DEF Spec, CrashLeavesOpenable

(***************************************************************************)
(* The log implements DurableLog                                           *)
(***************************************************************************)

\* Only a truncation that records its marker moves the floor.
LEMMA FloorMoves ==
  ASSUME IInv, Next, floor_marker' # floor_marker
  PROVE  /\ UNCHANGED <<active, unsynced, tail, segments, acked>>
         /\ floor_marker' \in Nat
<1>1. PICK floor \in 1..(MaxSeq + 1), outcome \in MarkerOutcomes : TruncateStart(floor, outcome)
  <2>1. CASE CallStep
    BY <2>1
    DEF CallStep, AppendStart, PinHistory, DropPin, FenceBranches,
        AdvanceSequenceFloor, LoseOwnership, CancelAppend, disk
  <2>2. CASE AppendStep
    BY <2>2
    DEF AppendStep, AppendWrite, AppendWriteFails, AppendSync, AppendSyncFails, RollBack,
        RollBackFails, PublishSequence, PublishHighWater, ObserveActive, disk
  <2>3. CASE RotateStep
    BY <2>3
    DEF RotateStep, RotateWriteSection, RotateSkipSection, RotateSectionOpenFails,
        RotateSyncSection, RotateSectionFails, RotateSectionStays, RotateRename,
        RotateRenameFails, RotatePush, RotateEnd, disk
  <2>4. CASE TruncateStep
    BY <2>4 DEF TruncateStep, TruncateDrain, TruncateDelete, TruncateEnd, disk
  <2>5. CASE CrashStep \/ OpenStep
    BY <2>5 DEF CrashStep, ProcessCrash, PowerLoss, OpenStep, RecoverSeal, Open, disk
  <2> QED BY <2>1, <2>2, <2>3, <2>4, <2>5 DEF Next, LockHolderStep
<1>2. UNCHANGED <<active, unsynced, tail, segments, acked>> /\ up /\ pc = "idle"
  BY <1>1 DEF TruncateStart
<1>3. PICK doomed : Prefix(doomed, floor_marker')
  BY <1>1, TruncatePrefix
<1> QED BY <1>2, <1>3, PrefixFiles

\* An empty directory is an empty log.
LEMMA RefinesInit == Init => DL!Init
  BY DEF Init, DL!Init, Durable, OnDisk

\* A sync, a roll-back or a power loss stores what was written and not synced.
LEMMA RefinesStore ==
  ASSUME IInv, NEW N, Gains(N)
  PROVE  DL!Store
<1>0. TypeOK /\ Files /\ Tails
  BY DEF IInv, TypeInv
<1>d. \A e : e \in Durable <=> e \in active \ unsynced \/ \E g \in segments : e \in g.entries
  BY <1>0, DurableIs
<1>n. /\ floor_marker \in Nat
      /\ \A e \in acked : e.seq \in Nat
      /\ \A e \in active : e.seq \in Nat
      /\ N \subseteq active /\ unsynced \subseteq active
  BY <1>0, Nats DEF Gains
<1>1. Durable' \ Durable \subseteq N
  BY DEF Gains
<1>2. N \subseteq Durable' \ Durable
  <2>1. \A e \in N : e \notin Durable
    BY DEF Gains, Durable
  <2> QED BY <2>1 DEF Gains
<1>3. Durable' \ Durable = N
  BY <1>1, <1>2
<1>4. \A e \in N, f \in Durable : f.seq < e.seq
  BY <1>0, <1>d, <1>n DEF Gains, Files, Below
<1>5. \A e \in N : e.seq > floor_marker
  BY <1>0, <1>n DEF Files
<1>6. \A e \in N, f \in acked : f.seq < e.seq
  <2> SUFFICES ASSUME NEW e \in N, NEW f \in acked PROVE f.seq < e.seq
    OBVIOUS
  <2>1. f \in Durable \/ f.seq =< floor_marker
    BY DEF IInv, AckedOK
  <2>2. e.seq \in Nat /\ f.seq \in Nat /\ e.seq > floor_marker
    BY <1>n, <1>5
  <2> QED BY <1>n, <1>4, <2>1, <2>2
<1>7. \A e \in N : DL!WithGroup(e, N)
  BY DEF Gains, Closed, DL!WithGroup
<1>8. \A e, f \in N : f.seq = e.seq => f = e
  BY DEF Gains, Uniq
<1>9. Durable \subseteq Durable' /\ UNCHANGED <<acked, floor_marker>>
  BY DEF Gains
<1> QED BY <1>3, <1>4, <1>5, <1>6, <1>7, <1>8, <1>9 DEF DL!Store, DL!Known

\* Every step of the files is a step of the abstract log or none.
LEMMA RefinesNext ==
  ASSUME Faultless, IInv, IInv', Next
  PROVE  DL!Next \/ UNCHANGED DL!logVars
<1>w. NoneLeftBehind /\ Whole
  BY DEF Faultless, Whole
<1>0. TypeOK /\ Files /\ Tails /\ TypeOK' /\ Files' /\ Tails'
  BY DEF IInv, TypeInv
<1>1. CASE acked' # acked
  <2>1. UNCHANGED <<active, unsynced, tail, segments, floor_marker>> /\ acked' = acked \cup batch
    BY <1>1, AckedBatch
  <2>2. Durable' = Durable
    BY <2>1 DEF Durable, OnDisk
  <2>3. ASSUME NEW e \in batch PROVE e \in Durable
    <3>1. unsynced = {} /\ up
      BY <1>1, AckedBatch
    <3>2. CASE batch \subseteq active
      BY <1>0, <3>1, <3>2, DurableIs
    <3>3. ASSUME NEW s \in sealed, batch \subseteq s.entries PROVE e \in Durable
      <4>1. PICK g \in segments : IsFile(s, g)
        BY <3>1 DEF IInv, ListOK
      <4> QED BY <1>0, <3>3, <4>1, DurableIs DEF IsFile
    <3> QED BY <1>1, <3>2, <3>3, AckedBatch
  <2>4. DL!Acknowledge
    BY <2>1, <2>2, <2>3 DEF DL!Acknowledge
  <2> QED BY <2>4 DEF DL!Next
<1>2. CASE floor_marker' # floor_marker
  <2>1. /\ UNCHANGED <<active, unsynced, tail, segments, acked>>
        /\ floor_marker' \in Nat
    BY <1>2, FloorMoves
  <2>2. Durable' = Durable
    BY <2>1 DEF Durable, OnDisk
  <2>3. \A e \in acked : e.seq > floor_marker' => e \in Durable
    <3>1. \A e \in acked : e.seq \in Nat
      BY <1>0, Nats
    <3>2. \A e \in acked : e \in Durable \/ e.seq =< floor_marker'
      BY <2>1, <2>2 DEF IInv, AckedOK
    <3> QED BY <2>1, <3>1, <3>2
  <2>4. DL!RecordFloor
    BY <2>1, <2>2, <2>3 DEF DL!RecordFloor
  <2> QED BY <2>4 DEF DL!Next
<1>3. CASE UNCHANGED <<acked, floor_marker>>
  <2>1. CASE Durable' = Durable
    BY <1>3, <2>1 DEF DL!logVars
  <2>2. CASE \E N : Gains(N)
    BY <2>2, RefinesStore DEF DL!Next
  <2>3. CASE Loses
    <3>1. DL!Forget
      BY <2>3 DEF DL!Forget, Loses
    <3> QED BY <3>1 DEF DL!Next
  <2>4. CASE Deletes
    <3>1. \A v \in victims : \A e \in v.entries : e.seq =< floor_marker
      BY DEF IInv, VictimsOK
    <3>2. DL!Forget
      BY <2>4, <3>1 DEF DL!Forget, Deletes
    <3> QED BY <3>2 DEF DL!Next
  <2> QED BY <1>0, <1>w, <2>1, <2>2, <2>3, <2>4, DurableStep
<1> QED BY <1>1, <1>2, <1>3

\* The files, locks, crashes and boots of the canonical log implement
\* DurableLog: each step stores new whole groups numbered above all that is
\* known, acknowledges stored entries, records a floor that takes back no
\* promise, forgets entries up to the floor, or changes none of it.
THEOREM LogRefinement ==
  ASSUME Faultless
  PROVE  Spec => ImplementsDurableLog
<1>1. IInv /\ IInv' /\ [Next]_walVars => [DL!Next]_DL!logVars
  <2> SUFFICES ASSUME IInv, IInv', [Next]_walVars PROVE DL!Next \/ UNCHANGED DL!logVars
    OBVIOUS
  <2>1. CASE Next
    BY <2>1, RefinesNext
  <2>2. CASE UNCHANGED walVars
    BY <2>2 DEF walVars, disk, DL!logVars, Durable, OnDisk
  <2> QED BY <2>1, <2>2
<1> QED BY <1>1, IInvariant, RefinesInit, PTL DEF Spec, ImplementsDurableLog, DL!Spec
=============================================================================
