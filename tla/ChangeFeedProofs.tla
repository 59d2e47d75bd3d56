------------------------- MODULE ChangeFeedProofs -------------------------
(***************************************************************************)
(* Proofs about ChangeFeed: a read that answers is complete, delivers no   *)
(* row twice, and never fails, for any collections, operations, bounds and *)
(* number of rounds, while the log beside it appends, rotates, truncates,  *)
(* crashes and reopens.  They rest on the log's own invariant IInv, so on  *)
(* Faultless, and on the generation being odd whenever list and disk may   *)
(* disagree.                                                               *)
(***************************************************************************)
EXTENDS ChangeFeed, CanonicalWalProofs

\* The high-water marks cover what is acknowledged and retained, and the append
\* in progress once they were raised by it.
HighWater ==
  up =>
    /\ \A e \in acked : (e.seq >= retained_from /\ e.op.coll \in Coll) =>
         e.seq =< collection_max[e.op.coll]
    /\ pc \in {"high_water", "rotating", "section_written", "section_synced",
               "renamed", "pushed"} =>
         \A e \in batch : e.op.coll \in Coll => e.seq =< collection_max[e.op.coll]

\* What the read must deliver: expected rows that are still retained
Owed == {e \in expected : e.seq >= retained_from}

\* No entry is in two chunks.
Apart(chunks) == \A i, j \in DOMAIN chunks : i # j => chunks[i] \cap chunks[j] = {}

\* Where the reader is and what its registers hold there
ReaderOK ==
  /\ rpc \in {"idle", "gone", "retained", "poll", "list", "flag", "read", "done"}
  /\ rpc # "idle" => up /\ query.coll \in Coll /\ query.since \in Nat
  /\ out \in Seq(SUBSET Entry)
  /\ generation \in Nat /\ read_active \in BOOLEAN /\ failed \in BOOLEAN
  /\ rpc \notin {"read", "done"} => out = <<>> /\ ~failed
  /\ rpc \in {"list", "flag", "read"} => generation % 2 = 0 /\ generation =< rotations
  /\ expected \subseteq acked
  /\ \A e \in expected : e.op.coll = query.coll /\ e.seq > query.since

\* A round whose generation still stands has seen the list and the files as
\* they are: what it owes is in what it has read or in what it will read, and
\* what it has read lies in files it will not read again.
RoundOK ==
  /\ (rpc = "flag" /\ SameGeneration) => files = Listed
  /\ (rpc = "read" /\ SameGeneration) =>
       /\ ~failed /\ files \subseteq Listed /\ Apart(out)
       /\ \A e \in Owed :
            \/ e \in Rows(out)
            \/ \E s \in sealed : s.first \in files /\ e \in s.entries
            \/ read_active /\ e \in active
       /\ (files # {} \/ read_active) =>
            \A i \in DOMAIN out : \A e \in out[i] :
              \E g \in segments : g.first \notin files /\ e \in g.entries

\* The answer of a finished read
AnswerOK == rpc = "done" => Owed \subseteq Rows(out) /\ Apart(out)

(***************************************************************************)
(* The log under the reader                                                *)
(***************************************************************************)

\* Raising the marks lowers none and covers the new entries.
LEMMA RaisedIs ==
  ASSUME NEW marks \in [Coll -> 0..MaxSeq], NEW S \in SUBSET Entry, NEW c \in Coll
  PROVE  /\ marks[c] \in Nat /\ Raised(marks, S)[c] \in Nat
         /\ marks[c] =< Raised(marks, S)[c]
         /\ \A e \in S : e.op.coll = c => e.seq =< Raised(marks, S)[c]
<1> DEFINE T == {e \in S : e.op.coll = c}
           m == Max({marks[c]} \cup Seqs(T))
<1>1. T \in SUBSET Entry /\ marks[c] \in 0..MaxSeq /\ MaxSeq \in Nat
  BY EntryFields
<1>2. Raised(marks, S)[c] = m
  BY DEF Raised
<1>3. \A e \in S : e.op.coll = c => e \in T
  OBVIOUS
<1> HIDE DEF T
<1>4. m \in 0..MaxSeq /\ m >= marks[c] /\ \A e \in T : e.seq =< m
  BY <1>1, MaxSeqs
<1> HIDE DEF m
<1> QED BY <1>1, <1>2, <1>3, <1>4

\* The steps of a process that stays up
Living == CallStep \/ LockHolderStep

\* While the process lives the history only grows, the retained floor and the
\* generation only rise.
LEMMA LivingStep ==
  ASSUME TypeOK, up, Living
  PROVE  /\ up' /\ rotations' \in {rotations, rotations + 1}
         /\ acked' = acked \/ (/\ acked' = acked \cup batch
                               /\ pc \in {"high_water", "section_synced", "pushed"})
         /\ retained_from =< retained_from'
<1>0. /\ rotations \in Nat /\ retained_from \in Nat
  BY EntryFields DEF TypeOK
<1>1. ASSUME UNCHANGED <<up, rotations, acked, retained_from>>
      PROVE  /\ up' /\ rotations' \in {rotations, rotations + 1}
             /\ acked' = acked \/ (/\ acked' = acked \cup batch
                                   /\ pc \in {"high_water", "section_synced", "pushed"})
             /\ retained_from =< retained_from'
  BY <1>0, <1>1
<1>2. CASE CallStep
  <2>1. \A f, o : TruncateStart(f, o) => UNCHANGED <<up, rotations, acked, retained_from>>
    BY DEF TruncateStart
  <2>2. UNCHANGED <<up, rotations, acked, retained_from>>
    BY <1>2, <2>1
    DEF CallStep, AppendStart, PinHistory, DropPin, FenceBranches, AdvanceSequenceFloor,
        LoseOwnership, CancelAppend, memory, lock
  <2> QED BY <1>1, <2>2
<1>3. CASE AppendStep
  <2>1. CASE ObserveActive
    BY <1>0, <2>1 DEF ObserveActive, Acknowledge
  <2>2. CASE ~ObserveActive
    <3>1. UNCHANGED <<up, rotations, acked, retained_from>>
      BY <1>3, <2>2
      DEF AppendStep, AppendWrite, AppendWriteFails, AppendSync, AppendSyncFails,
          RollBack, RollBackFails, PublishSequence, PublishHighWater, memory
    <3> QED BY <1>1, <3>1
  <2> QED BY <2>1, <2>2
<1>4. CASE RotateStep
  <2>1. /\ UNCHANGED <<up, retained_from>> /\ (rotations' = rotations \/ rotations' = rotations + 1)
        /\ acked' = acked \/ RotateRenameFails \/ RotateEnd
    BY <1>4
    DEF RotateStep, RotateWriteSection, RotateSkipSection, RotateSectionOpenFails,
        RotateSyncSection, RotateSectionFails, RotateSectionStays, RotateRename,
        RotateRenameFails, RotatePush, RotateEnd, memory
  <2>2. ASSUME RotateRenameFails \/ RotateEnd
        PROVE  acked' = acked \cup batch /\ pc \in {"high_water", "section_synced", "pushed"}
    BY <2>2 DEF RotateRenameFails, RotateEnd, Acknowledge
  <2>3. retained_from =< retained_from'
    BY <1>0, <2>1
  <2> QED BY <2>1, <2>2, <2>3
<1>5. CASE TruncateDrain
  <2>1. RetainedAbove(floor_marker) \in Int /\ retained_from \in Int
    BY <1>0, EntryFields DEF RetainedAbove, TypeOK
  <2>2. Max({retained_from, RetainedAbove(floor_marker)}) >= retained_from
    <3> DEFINE a == RetainedAbove(floor_marker)
    <3> HIDE DEF a
    <3> QED BY <2>1 DEF Max, a
  <2> QED BY <1>0, <1>5, <2>1, <2>2 DEF TruncateDrain
<1>6. CASE (\E fails \in BOOLEAN : TruncateDelete(fails)) \/ TruncateEnd
  <2>1. UNCHANGED <<up, acked, retained_from>> /\ (rotations' = rotations \/ rotations' = rotations + 1)
    BY <1>6 DEF TruncateDelete, TruncateEnd, memory
  <2>2. retained_from =< retained_from'
    BY <1>0, <2>1
  <2> QED BY <2>1, <2>2
<1> QED BY <1>2, <1>3, <1>4, <1>5, <1>6 DEF Living, LockHolderStep, TruncateStep

\* While the generation is even and stays, the list and the sealed files stay,
\* and so does what is acknowledged in the active file.
LEMMA StableStep ==
  ASSUME Faultless, IInv, ParityInv, up, Living,
         rotations' = rotations, rotations % 2 = 0
  PROVE  /\ UNCHANGED <<sealed, segments, retained_from>>
         /\ \A e \in acked : e \in active => e \in active'
<1>0. rotations \in Nat /\ rotations + 1 # rotations
  BY DEF ParityInv
<1>1. pc \in Pc /\ pc \notin {"section_written", "section_synced", "renamed", "pushed", "deleting"}
  BY DEF ParityInv, Parity
<1>2. CASE CallStep
  <2>1. \A f, o : TruncateStart(f, o) => UNCHANGED <<sealed, segments, retained_from, active>>
    BY DEF TruncateStart
  <2>2. UNCHANGED <<sealed, segments, retained_from, active>>
    BY <1>2, <2>1
    DEF CallStep, AppendStart, PinHistory, DropPin, FenceBranches, AdvanceSequenceFloor,
        LoseOwnership, CancelAppend, disk, memory, lock
  <2> QED BY <2>2
<1>3. CASE AppendStep
  <2>1. CASE RollBack
    <3>1. active' = active \ batch /\ UNCHANGED <<sealed, segments, retained_from>>
      BY <2>1 DEF RollBack
    <3>2. pc \notin Quiet
      BY <2>1 DEF RollBack, Quiet
    <3>3. \A e \in acked : e \notin batch
      <4>1. ASSUME NEW e \in acked, e \in batch PROVE FALSE
        <5>1. e.seq < e.seq /\ e.seq \in Nat
          BY <3>2, <4>1, Nats DEF IInv, TypeInv, BatchOK, Below
        <5> QED BY <5>1
      <4> QED BY <4>1
    <3> QED BY <3>1, <3>3
  <2>2. CASE ~RollBack
    BY <1>3, <2>2
    DEF AppendStep, AppendWrite, AppendWriteFails, AppendSync, AppendSyncFails,
        RollBackFails, PublishSequence, PublishHighWater, ObserveActive, disk, memory
  <2> QED BY <2>1, <2>2
<1>4. CASE RotateStep
  BY <1>0, <1>1, <1>4
  DEF RotateStep, RotateWriteSection, RotateSkipSection, RotateSectionOpenFails,
      RotateSyncSection, RotateSectionFails, RotateSectionStays, RotateRename,
      RotateRenameFails, RotatePush, RotateEnd
<1>5. CASE TruncateStep
  BY <1>0, <1>1, <1>5 DEF TruncateStep, TruncateDrain, TruncateDelete, TruncateEnd
<1> QED BY <1>2, <1>3, <1>4, <1>5 DEF Living, LockHolderStep

\* Every step of the log keeps the marks above what is retained.
LEMMA HighWaterNext ==
  ASSUME IInv, IInv', HighWater, Next
  PROVE  HighWater'
<1> DEFINE Marked == {"high_water", "rotating", "section_written", "section_synced",
                      "renamed", "pushed"}
<1>0. /\ TypeOK /\ collection_max \in [Coll -> 0..MaxSeq] /\ MaxSeq \in Nat
      /\ batch \subseteq Entry /\ retained_from \in Nat /\ retained_from' \in Nat
      /\ \A e \in Entry : e.seq \in Nat
      /\ acked \subseteq Entry /\ acked' \subseteq Entry
  <2>1. TypeOK /\ TypeOK'
    BY DEF IInv, TypeInv
  <2>2. collection_max \in [Coll -> 0..MaxSeq]
    BY <2>1 DEF TypeOK
  <2>3. batch \subseteq Entry /\ acked \subseteq Entry /\ retained_from \in Nat
    BY <2>1, Nats
  <2>4. acked' \subseteq Entry
    BY <2>1 DEF TypeOK
  <2>5. retained_from' \in Nat
    BY <2>1, EntryFields DEF TypeOK
  <2> QED BY <2>1, <2>2, <2>3, <2>4, <2>5, EntryFields
<1>1. CASE CrashStep
  BY <1>1 DEF CrashStep, ProcessCrash, PowerLoss, ForgetMemory, HighWater
<1>2. CASE RecoverSeal
  BY <1>2 DEF RecoverSeal, HighWater
<1>3. ASSUME NEW undeleted \in SUBSET segments, Open(undeleted) PROVE HighWater'
  <2> DEFINE list == {BootSummary(g) : g \in Kept}
             seen == active \cup UNION {s.entries : s \in list}
  <2>1. /\ up' /\ sealed' = list /\ active_summary' = active
        /\ collection_max' = Raised([c \in Coll |-> 0], seen)
        /\ pc' = pc /\ ~up
    BY <1>3 DEF Open, lock
  <2>2. seen \in SUBSET Entry
    BY <1>0, BootTypes
  <2>3. pc = "idle"
    BY <2>1 DEF IInv, Down
  <2>4. [c \in Coll |-> 0] \in [Coll -> 0..MaxSeq]
    BY <1>0
  <2>5. \A e \in active_summary' : e \in seen
    BY <2>1
  <2>6. \A s \in sealed' : \A e \in s.entries : e \in seen
    BY <2>1
  <2> HIDE DEF list, seen
  <2>7. ASSUME NEW e \in acked', e.seq >= retained_from', e.op.coll \in Coll
        PROVE  e.seq =< collection_max'[e.op.coll]
    <3>1. e \in seen
      BY <1>0, <2>1, <2>5, <2>6, <2>7 DEF IInv, RetainedOK
    <3> QED BY <2>1, <2>2, <2>4, <2>7, <3>1, RaisedIs
  <2> QED BY <2>1, <2>3, <2>7 DEF HighWater
<1>4. CASE up /\ Living
  <2>1. /\ up' /\ retained_from =< retained_from'
        /\ acked' = acked \/ (acked' = acked \cup batch /\ pc \in Marked)
    BY <1>0, <1>4, LivingStep
  <2>2. collection_max' = collection_max \/ PublishHighWater
    <3>1. \A f, o : TruncateStart(f, o) => collection_max' = collection_max
      BY DEF TruncateStart
    <3>2. CallStep => collection_max' = collection_max
      BY <3>1 DEF CallStep, AppendStart, PinHistory, DropPin, FenceBranches,
        AdvanceSequenceFloor, LoseOwnership, CancelAppend, memory
    <3>3. AppendStep => collection_max' = collection_max \/ PublishHighWater
      BY DEF AppendStep, AppendWrite, AppendWriteFails, AppendSync, AppendSyncFails,
        RollBack, RollBackFails, PublishSequence, ObserveActive, memory
    <3>4. RotateStep => collection_max' = collection_max
      BY DEF RotateStep, RotateWriteSection, RotateSkipSection, RotateSectionOpenFails,
        RotateSyncSection, RotateSectionFails, RotateSectionStays, RotateRename,
        RotateRenameFails, RotatePush, RotateEnd, memory
    <3>5. TruncateStep => collection_max' = collection_max
      BY DEF TruncateStep, TruncateDrain, TruncateDelete, TruncateEnd, memory
    <3> QED BY <1>4, <3>2, <3>3, <3>4, <3>5 DEF Living, LockHolderStep
  <2>3. ASSUME NEW c \in Coll
        PROVE  /\ collection_max[c] \in Nat /\ collection_max'[c] \in Nat
               /\ collection_max[c] =< collection_max'[c]
    <3>1. CASE collection_max' = collection_max
      <4>1. collection_max[c] \in Nat
        BY <1>0
      <4> QED BY <3>1, <4>1
    <3>2. CASE PublishHighWater
      BY <1>0, <3>2, RaisedIs DEF PublishHighWater
    <3> QED BY <2>2, <3>1, <3>2
  <2>4. \/ pc' \notin Marked
        \/ PublishHighWater
        \/ pc \in Marked /\ batch' = batch
    <3>1. \A f, o : TruncateStart(f, o) => batch' = batch /\ pc' \in {pc, "floor_marked"}
      BY DEF TruncateStart
    <3>2. CASE CallStep
      BY <3>1, <3>2 DEF CallStep, AppendStart, PinHistory, DropPin, FenceBranches,
        AdvanceSequenceFloor, LoseOwnership, CancelAppend, lock
    <3>3. CASE AppendStep
      BY <3>3 DEF AppendStep, AppendWrite, AppendWriteFails, AppendSync, AppendSyncFails,
        RollBack, RollBackFails, PublishSequence, ObserveActive, Acknowledge
    <3>4. CASE RotateStep
      BY <3>4 DEF RotateStep, RotateWriteSection, RotateSkipSection, RotateSectionOpenFails,
        RotateSyncSection, RotateSectionFails, RotateSectionStays, RotateRename,
        RotateRenameFails, RotatePush, RotateEnd, Acknowledge
    <3>5. CASE TruncateStep
      BY <3>5 DEF TruncateStep, TruncateDrain, TruncateDelete, TruncateEnd
    <3> QED BY <1>4, <3>2, <3>3, <3>4, <3>5 DEF Living, LockHolderStep
  <2>5. ASSUME NEW e \in acked', e.seq >= retained_from', e.op.coll \in Coll
        PROVE  e.seq =< collection_max'[e.op.coll]
    <3>1. e.seq \in Nat /\ e.seq >= retained_from
      BY <1>0, <2>1, <2>5
    <3>2. e.seq =< collection_max[e.op.coll]
      BY <1>4, <2>1, <2>5, <3>1 DEF HighWater
    <3> QED BY <2>3, <2>5, <3>1, <3>2
  <2>6. ASSUME pc' \in Marked, NEW e \in batch', e.op.coll \in Coll
        PROVE  e.seq =< collection_max'[e.op.coll]
    <3>1. CASE PublishHighWater
      <4>1. collection_max' = Raised(collection_max, batch) /\ batch' = batch
        BY <3>1 DEF PublishHighWater
      <4> QED BY <1>0, <2>6, <4>1, RaisedIs
    <3>2. CASE pc \in Marked /\ batch' = batch
      <4>1. e.seq \in Nat /\ e.seq =< collection_max[e.op.coll]
        BY <1>0, <1>4, <2>6, <3>2 DEF HighWater
      <4> QED BY <2>3, <2>6, <4>1
    <3> QED BY <2>4, <2>6, <3>1, <3>2
  <2> QED BY <2>1, <2>5, <2>6 DEF HighWater
<1>5. CASE ~up /\ Living
  <2>1. \A f, o : ~TruncateStart(f, o)
    BY <1>5 DEF TruncateStart
  <2> QED BY <1>5, <2>1
    DEF Living, LockHolderStep, CallStep, AppendStart, PinHistory, DropPin, FenceBranches,
        AdvanceSequenceFloor, LoseOwnership, CancelAppend, AppendStep, AppendWrite,
        AppendWriteFails, AppendSync, AppendSyncFails, RollBack, RollBackFails,
        PublishSequence, PublishHighWater, ObserveActive, RotateStep, RotateWriteSection,
        RotateSkipSection, RotateSectionOpenFails, RotateSyncSection, RotateSectionFails,
        RotateSectionStays, RotateRename, RotateRenameFails, RotatePush, RotateEnd,
        TruncateStep, TruncateDrain, TruncateDelete, TruncateEnd
<1> QED BY <1>1, <1>2, <1>3, <1>4, <1>5 DEF Next, Living, OpenStep

(***************************************************************************)
(* The reader                                                              *)
(***************************************************************************)

\* What an even generation lets a reader without a lock rely on
LEMMA EvenFacts ==
  ASSUME IInv, ParityInv, up, rotations % 2 = 0
  PROVE  /\ \A s \in sealed :
              \E g \in segments : g.first = s.first /\ g.entries = s.entries /\ g.good
         /\ active_summary \subseteq active
         /\ \A e \in acked : e.seq >= retained_from =>
              e \in active_summary \/ \E s \in sealed : e \in s.entries
         /\ \A g, h \in segments : g.first = h.first => g = h
         /\ \A g, h \in segments : g = h \/ g.entries \cap h.entries = {}
         /\ \A g \in segments : g.good /\ g.entries \subseteq Entry /\ g.entries \cap active = {}
         /\ active \subseteq Entry /\ ActiveReadable
<1>0. TypeOK /\ Files
  BY DEF IInv, TypeInv
<1>1. pc \in Pc /\ pc \notin {"section_written", "section_synced", "renamed", "pushed"}
  BY ParityFlips DEF ParityInv, Parity
<1>2. active_summary \subseteq active
  BY <1>1 DEF IInv, SummaryOK, Quiet, Pc
<1>3. \A g \in segments : g.good
  BY <1>0 DEF Files, FileOK
<1>4. \A s \in sealed : \E g \in segments : g.first = s.first /\ g.entries = s.entries /\ g.good
  BY <1>3 DEF IInv, ListOK, IsFile
<1>5. ASSUME NEW e \in acked, e.seq >= retained_from
      PROVE  e \in active_summary \/ \E s \in sealed : e \in s.entries
  <2>1. e.seq \in Nat /\ retained_from \in Nat
    BY <1>0, Nats
  <2> QED BY <1>5, <2>1 DEF IInv, RetainedOK
<1>6. ASSUME NEW g \in segments, NEW x \in g.entries, x \in active PROVE FALSE
  <2>1. x.seq < x.seq /\ x.seq \in Nat
    BY <1>0, <1>6, Nats DEF Files, Below
  <2> QED BY <2>1
<1>7. ASSUME NEW g \in segments, NEW h \in segments
      PROVE  /\ g.first = h.first => g = h
             /\ g = h \/ g.entries \cap h.entries = {}
  BY <1>0, SameFile
<1>8. ActiveReadable
  BY DEF IInv, Tails, ActiveReadable
<1> QED BY <1>0, <1>2, <1>3, <1>4, <1>5, <1>6, <1>7, <1>8, Nats

\* The variables of the log the reader looks at
LEMMA WalUnchanged ==
  ASSUME UNCHANGED walVars
  PROVE  UNCHANGED <<active, tail, segments, up, sealed, active_summary, rotations,
                     retained_from, collection_max, pc, acked>>
  BY DEF walVars, disk, memory, lock

\* The reader's state is as the invariant says, all parts of it.
FeedOK == ReaderOK /\ RoundOK /\ AnswerOK

\* ensure_history_retained: the read starts with nothing.
LEMMA FeedStartOK ==
  ASSUME IInv, ParityInv, FeedOK, NEW c \in Coll, NEW since \in 0..MaxSeq, FeedStart(c, since)
  PROVE  FeedOK'
<1>1. /\ rpc = "idle" /\ up /\ query' = [coll |-> c, since |-> since]
      /\ expected' = {e \in acked : e.op.coll = c /\ e.seq > since}
      /\ rpc' \in {"gone", "retained"}
      /\ UNCHANGED walVars /\ UNCHANGED <<generation, read_active, out, failed>>
  BY DEF FeedStart
<1>2. UNCHANGED <<up, acked, rotations>>
  BY <1>1, WalUnchanged
<1>3. query'.coll \in Coll /\ query'.since \in Nat
  BY <1>1, EntryFields
<1>4. ReaderOK'
  BY <1>1, <1>2, <1>3 DEF FeedOK, ReaderOK
<1>5. RoundOK' /\ AnswerOK'
  BY <1>1 DEF RoundOK, AnswerOK
<1> QED BY <1>4, <1>5 DEF FeedOK

\* The fast path answers nothing only where nothing is owed.
LEMMA FeedFastPathOK ==
  ASSUME IInv, HighWater, FeedOK, FeedFastPath
  PROVE  FeedOK'
<1>1. /\ rpc = "retained" /\ up
      /\ rpc' = IF collection_max[query.coll] =< query.since THEN "done" ELSE "poll"
      /\ UNCHANGED walVars /\ UNCHANGED <<query, generation, read_active, out, failed, expected>>
  BY DEF FeedFastPath
<1>2. UNCHANGED <<up, acked, rotations, retained_from>>
  BY <1>1, WalUnchanged
<1>3. ReaderOK'
  BY <1>1, <1>2 DEF FeedOK, ReaderOK
<1>4. RoundOK'
  BY <1>1 DEF RoundOK
<1>5. AnswerOK'
  <2>1. CASE collection_max[query.coll] =< query.since
    <3>1. ASSUME NEW e \in expected, e.seq >= retained_from PROVE FALSE
      <4>1. e \in acked /\ e.op.coll = query.coll /\ e.seq > query.since /\ query.coll \in Coll
            /\ query.since \in Nat
        BY <1>1 DEF FeedOK, ReaderOK
      <4>2. e.seq =< collection_max[query.coll]
        BY <1>1, <3>1, <4>1 DEF HighWater
      <4>3. e.seq \in Nat /\ collection_max[query.coll] \in Nat
        BY <4>1, Nats, EntryFields DEF IInv, TypeInv, TypeOK
      <4> QED BY <2>1, <4>1, <4>2, <4>3
    <3>2. Owed' = {}
      BY <1>1, <1>2, <3>1 DEF Owed
    <3>3. out' = <<>>
      BY <1>1 DEF FeedOK, ReaderOK
    <3>4. Apart(out')
      BY <3>3 DEF Apart
    <3> QED BY <3>2, <3>4 DEF AnswerOK
  <2>2. CASE ~(collection_max[query.coll] =< query.since)
    BY <1>1, <2>2 DEF AnswerOK
  <2> QED BY <2>1, <2>2
<1> QED BY <1>3, <1>4, <1>5 DEF FeedOK

\* A round starts at an even generation.
LEMMA FeedPollOK ==
  ASSUME IInv, ParityInv, FeedOK, FeedPoll
  PROVE  FeedOK'
<1>1. /\ rpc = "poll" /\ UNCHANGED walVars /\ up
      /\ UNCHANGED <<query, read_active, out, failed, expected>>
      /\ \/ UNCHANGED <<rpc, generation>>
         \/ rotations % 2 # 1 /\ generation' = rotations /\ rpc' = "list"
  BY DEF FeedPoll
<1>2. UNCHANGED <<up, acked, rotations>> /\ rotations \in Nat /\ rotations % 2 \in {0, 1}
  BY <1>1, WalUnchanged, ParityFlips DEF ParityInv
<1>3. ReaderOK'
  BY <1>1, <1>2 DEF FeedOK, ReaderOK
<1>4. RoundOK' /\ AnswerOK'
  BY <1>1 DEF RoundOK, AnswerOK
<1> QED BY <1>3, <1>4 DEF FeedOK

\* The round's list is the list of that generation.
LEMMA FeedListOK ==
  ASSUME FeedOK, FeedList
  PROVE  FeedOK'
<1>1. /\ rpc = "list" /\ rpc' = "flag" /\ files' = Listed /\ UNCHANGED walVars
      /\ UNCHANGED <<query, generation, read_active, out, failed, expected>>
  BY DEF FeedList
<1>2. UNCHANGED <<up, acked, rotations, sealed>>
  BY <1>1, WalUnchanged
<1>3. ReaderOK'
  BY <1>1, <1>2 DEF FeedOK, ReaderOK
<1>4. Listed' = Listed
  BY <1>1, <1>2 DEF Listed, MayContain
<1>5. RoundOK' /\ AnswerOK'
  BY <1>1, <1>4 DEF RoundOK, AnswerOK
<1> QED BY <1>3, <1>5 DEF FeedOK

\* What the round owes is in the listed files or the active one.
LEMMA FeedFlagOK ==
  ASSUME IInv, ParityInv, FeedOK, FeedFlagActive
  PROVE  FeedOK'
<1>1. /\ rpc = "flag" /\ rpc' = "read" /\ read_active' = MayContain(active_summary)
      /\ UNCHANGED walVars /\ up
      /\ UNCHANGED <<query, generation, files, out, failed, expected>>
  BY DEF FeedFlagActive
<1>2. UNCHANGED <<up, acked, rotations, sealed, active, segments, retained_from>>
  BY <1>1, WalUnchanged
<1>3. out = <<>> /\ ~failed /\ generation % 2 = 0
  BY <1>1 DEF FeedOK, ReaderOK
<1>4. ReaderOK'
  <2>1. read_active' \in BOOLEAN
    BY <1>1 DEF MayContain
  <2> QED BY <1>1, <1>2, <2>1 DEF FeedOK, ReaderOK
<1>5. RoundOK'
  <2> SUFFICES ASSUME SameGeneration PROVE RoundOK'
    BY <1>1, <1>2 DEF RoundOK, SameGeneration
  <2>1. rotations % 2 = 0
    BY <1>3 DEF SameGeneration
  <2>2. files = Listed /\ Listed' = Listed
    BY <1>1, <1>2 DEF FeedOK, RoundOK, Listed, MayContain
  <2>3. ASSUME NEW e \in Owed
        PROVE  (\E s \in sealed : s.first \in files /\ e \in s.entries)
               \/ (MayContain(active_summary) /\ e \in active)
    <3>1. e \in acked /\ e.seq >= retained_from /\ e.op.coll = query.coll /\ e.seq > query.since
      BY <2>3 DEF Owed, FeedOK, ReaderOK
    <3>2. CASE e \in active_summary
      BY <1>1, <2>1, <3>1, <3>2, EvenFacts DEF MayContain
    <3>3. ASSUME NEW s \in sealed, e \in s.entries PROVE s.first \in files
      BY <2>2, <3>1, <3>3 DEF Listed, MayContain
    <3> QED BY <1>1, <2>1, <3>1, <3>2, <3>3, EvenFacts
  <2>4. Owed' = Owed
    BY <1>1, <1>2 DEF Owed
  <2>5. Apart(out') /\ DOMAIN out' = {}
    BY <1>1, <1>3 DEF Apart
  <2> QED BY <1>1, <1>2, <1>3, <2>2, <2>3, <2>4, <2>5 DEF RoundOK
<1>6. AnswerOK'
  BY <1>1 DEF AnswerOK
<1> QED BY <1>4, <1>5, <1>6 DEF FeedOK

\* One more chunk
LEMMA ChunkAppended ==
  ASSUME NEW o \in Seq(SUBSET Entry), NEW ch \in SUBSET Entry
  PROVE  /\ Append(o, ch) \in Seq(SUBSET Entry)
         /\ Rows(Append(o, ch)) = Rows(o) \cup {e \in ch : e.op.coll = query.coll}
         /\ (Apart(o) /\ \A i \in DOMAIN o : o[i] \cap ch = {}) => Apart(Append(o, ch))
         /\ \A i \in DOMAIN Append(o, ch) :
              (i \in DOMAIN o /\ Append(o, ch)[i] = o[i]) \/ Append(o, ch)[i] = ch
<1> DEFINE q == Append(o, ch)
<1>1. /\ q \in Seq(SUBSET Entry) /\ Len(q) = Len(o) + 1 /\ Len(o) \in Nat
      /\ \A i \in 1..Len(o) : q[i] = o[i]
      /\ q[Len(o) + 1] = ch
  BY AppendProperties, LenProperties
<1>2. DOMAIN q = 1..(Len(o) + 1) /\ DOMAIN o = 1..Len(o)
  BY <1>1, LenProperties
<1> HIDE DEF q
<1>3. \A i \in DOMAIN q : (i \in DOMAIN o /\ q[i] = o[i]) \/ (i = Len(o) + 1 /\ q[i] = ch)
  BY <1>1, <1>2
<1>4. \A i \in DOMAIN o : i \in DOMAIN q /\ q[i] = o[i]
  BY <1>1, <1>2
<1>5. Len(o) + 1 \in DOMAIN q
  BY <1>1, <1>2
<1>6. Rows(q) = Rows(o) \cup {e \in ch : e.op.coll = query.coll}
  <2>1. ASSUME NEW e, e \in Rows(q)
        PROVE  e \in Rows(o) \cup {x \in ch : x.op.coll = query.coll}
    BY <1>3, <2>1 DEF Rows
  <2>2. ASSUME NEW e, e \in Rows(o) \cup {x \in ch : x.op.coll = query.coll}
        PROVE  e \in Rows(q)
    BY <1>1, <1>4, <1>5, <2>2 DEF Rows
  <2> QED BY <2>1, <2>2
<1>7. ASSUME Apart(o), \A i \in DOMAIN o : o[i] \cap ch = {} PROVE Apart(q)
  BY <1>3, <1>7 DEF Apart
<1> QED BY <1>1, <1>3, <1>6, <1>7 DEF q

\* A listed file holds its rows or the generation has moved.
LEMMA FeedReadSegmentOK ==
  ASSUME IInv, ParityInv, FeedOK, FeedReadSegment
  PROVE  FeedOK'
<1> DEFINE first == Min(files)
           there == {g \in segments : g.first = first /\ g.good}
           chunk == After(UNION {g.entries : g \in there})
<1>1. /\ rpc = "read" /\ rpc' = "read" /\ up /\ ~failed /\ files # {} /\ UNCHANGED walVars
      /\ UNCHANGED <<query, generation, read_active, expected>>
      /\ failed' = (there = {}) /\ files' = files \ {first}
      /\ out' = IF there = {} THEN out ELSE Append(out, chunk)
  BY DEF FeedReadSegment
<1>2. UNCHANGED <<up, acked, rotations, sealed, active, segments, retained_from>>
  BY <1>1, WalUnchanged
<1>3. out \in Seq(SUBSET Entry) /\ generation % 2 = 0
  BY <1>1 DEF FeedOK, ReaderOK
<1>4. chunk \in SUBSET Entry
  <2>1. \A g \in segments : g.entries \subseteq Entry
    BY Nats DEF IInv, TypeInv
  <2> QED BY <2>1 DEF After
<1>5. \A x : x \in chunk <=> x.seq > query.since /\ \E g \in there : x \in g.entries
  BY DEF After
<1>6. \A g \in there : g \in segments /\ g.first = first /\ g.good
  OBVIOUS
<1>7. \A g \in segments : g.first = first /\ g.good => g \in there
  OBVIOUS
<1> HIDE DEF first, there, chunk
<1>8. ReaderOK'
  <2>1. out' \in Seq(SUBSET Entry)
    BY <1>1, <1>3, <1>4, ChunkAppended
  <2>2. failed' \in BOOLEAN
    BY <1>1
  <2> QED BY <1>1, <1>2, <2>1, <2>2 DEF FeedOK, ReaderOK
<1>9. AnswerOK'
  BY <1>1 DEF AnswerOK
<1>10. RoundOK'
  <2> SUFFICES ASSUME SameGeneration PROVE RoundOK'
    BY <1>1, <1>2 DEF RoundOK, SameGeneration
  <2>0. rotations % 2 = 0
    BY <1>3 DEF SameGeneration
  <2>1. /\ files \subseteq Listed /\ Apart(out)
        /\ \A e \in Owed :
             \/ e \in Rows(out)
             \/ \E s \in sealed : s.first \in files /\ e \in s.entries
             \/ read_active /\ e \in active
        /\ \A i \in DOMAIN out : \A e \in out[i] :
             \E g \in segments : g.first \notin files /\ e \in g.entries
    BY <1>1 DEF FeedOK, RoundOK
  <2>2. Listed' = Listed /\ Owed' = Owed
    BY <1>1, <1>2 DEF Listed, MayContain, Owed
  <2>3. Listed \in SUBSET Nat
    BY Nats DEF Listed, IInv, TypeInv
  <2>4. first \in files
    BY <1>1, <2>1, <2>3, MinOfNats DEF first
  <2>5. PICK s \in sealed : s.first = first
    BY <2>1, <2>4 DEF Listed
  <2>6. PICK g \in segments : g.first = first /\ g.entries = s.entries /\ g.good
    BY <1>1, <2>0, <2>5, EvenFacts
  <2>7. there = {g}
    BY <1>1, <1>6, <1>7, <2>0, <2>6, EvenFacts
  <2>8. \A x : x \in chunk <=> x.seq > query.since /\ x \in g.entries
    BY <1>5, <2>7
  <2>9. ~failed' /\ out' = Append(out, chunk)
    BY <1>1, <2>7
  <2>10. \A i \in DOMAIN out : out[i] \cap chunk = {}
    <3>1. ASSUME NEW i \in DOMAIN out, NEW x \in out[i], x \in chunk PROVE FALSE
      <4>1. PICK h \in segments : h.first \notin files /\ x \in h.entries
        BY <2>1, <3>1
      <4>2. x \in g.entries
        BY <2>8, <3>1
      <4>3. g = h
        BY <1>1, <2>0, <4>1, <4>2, EvenFacts
      <4> QED BY <2>4, <2>6, <4>1, <4>3
    <3> QED BY <3>1
  <2>11. Apart(out') /\ Rows(out') = Rows(out) \cup {e \in chunk : e.op.coll = query.coll}
    BY <1>3, <1>4, <2>1, <2>9, <2>10, ChunkAppended
  <2>12. Rows(out)' = Rows(out')
    BY <1>1 DEF Rows
  <2>13. ASSUME NEW e \in Owed
         PROVE  \/ e \in Rows(out')
                \/ \E t \in sealed : t.first \in files' /\ e \in t.entries
                \/ read_active /\ e \in active
    <3>1. e.op.coll = query.coll /\ e.seq > query.since
      BY DEF Owed, FeedOK, ReaderOK
    <3>2. ASSUME NEW t \in sealed, t.first = first, e \in t.entries PROVE e \in Rows(out')
      <4>1. PICK h \in segments : h.first = first /\ h.entries = t.entries
        BY <1>1, <2>0, <3>2, EvenFacts
      <4>2. h = g
        BY <1>1, <2>0, <2>6, <4>1, EvenFacts
      <4> QED BY <2>8, <2>11, <3>1, <3>2, <4>1, <4>2
    <3> QED BY <1>1, <2>1, <2>11, <3>2
  <2>14. ASSUME NEW i \in DOMAIN out', NEW e \in out'[i]
         PROVE  \E h \in segments : h.first \notin files' /\ e \in h.entries
    <3>1. (i \in DOMAIN out /\ out'[i] = out[i]) \/ out'[i] = chunk
      BY <1>3, <1>4, <2>9, ChunkAppended
    <3>2. CASE i \in DOMAIN out /\ out'[i] = out[i]
      BY <1>1, <2>1, <2>14, <3>2
    <3>3. CASE out'[i] = chunk
      BY <1>1, <2>6, <2>8, <2>14, <3>3
    <3> QED BY <3>1, <3>2, <3>3
  <2>15. files' \subseteq Listed
    BY <1>1, <2>1
  <2> QED BY <1>1, <1>2, <2>2, <2>9, <2>11, <2>12, <2>13, <2>14, <2>15 DEF RoundOK
<1> QED BY <1>8, <1>9, <1>10 DEF FeedOK

\* The active file holds the rest, none of it read before.
LEMMA FeedReadActiveOK ==
  ASSUME IInv, ParityInv, FeedOK, FeedReadActive
  PROVE  FeedOK'
<1> DEFINE chunk == After(active)
<1>1. /\ rpc = "read" /\ rpc' = "read" /\ up /\ ~failed /\ files = {} /\ read_active
      /\ UNCHANGED walVars /\ UNCHANGED <<query, generation, files, expected>>
      /\ failed' = ~ActiveReadable /\ read_active' = FALSE
      /\ out' = IF ActiveReadable THEN Append(out, chunk) ELSE out
  BY DEF FeedReadActive
<1>2. UNCHANGED <<up, acked, rotations, sealed, active, segments, retained_from>>
  BY <1>1, WalUnchanged
<1>3. out \in Seq(SUBSET Entry) /\ generation % 2 = 0
  BY <1>1 DEF FeedOK, ReaderOK
<1>4. chunk \in SUBSET Entry /\ \A x : x \in chunk <=> x \in active /\ x.seq > query.since
  BY Nats DEF IInv, TypeInv, After
<1> HIDE DEF chunk
<1>5. ReaderOK'
  <2>1. out' \in Seq(SUBSET Entry)
    BY <1>1, <1>3, <1>4, ChunkAppended
  <2>2. failed' \in BOOLEAN /\ read_active' \in BOOLEAN
    BY <1>1 DEF ActiveReadable
  <2> QED BY <1>1, <1>2, <2>1, <2>2 DEF FeedOK, ReaderOK
<1>6. AnswerOK'
  BY <1>1 DEF AnswerOK
<1>7. RoundOK'
  <2> SUFFICES ASSUME SameGeneration PROVE RoundOK'
    BY <1>1, <1>2 DEF RoundOK, SameGeneration
  <2>0. rotations % 2 = 0
    BY <1>3 DEF SameGeneration
  <2>1. /\ Apart(out)
        /\ \A e \in Owed : e \in Rows(out) \/ e \in active
        /\ \A i \in DOMAIN out : \A e \in out[i] : \E g \in segments : e \in g.entries
    BY <1>1 DEF FeedOK, RoundOK
  <2>2. Owed' = Owed
    BY <1>1, <1>2 DEF Owed
  <2>3. ~failed' /\ out' = Append(out, chunk)
    BY <1>1, <2>0, EvenFacts
  <2>4. \A i \in DOMAIN out : out[i] \cap chunk = {}
    BY <1>1, <1>4, <2>0, <2>1, EvenFacts
  <2>5. Apart(out') /\ Rows(out') = Rows(out) \cup {e \in chunk : e.op.coll = query.coll}
    BY <1>3, <1>4, <2>1, <2>3, <2>4, ChunkAppended
  <2>6. Rows(out)' = Rows(out')
    BY <1>1 DEF Rows
  <2>7. ASSUME NEW e \in Owed PROVE e \in Rows(out')
    <3>1. e.op.coll = query.coll /\ e.seq > query.since
      BY DEF Owed, FeedOK, ReaderOK
    <3> QED BY <1>4, <2>1, <2>5, <3>1
  <2> QED BY <1>1, <2>2, <2>3, <2>5, <2>6, <2>7 DEF RoundOK
<1> QED BY <1>5, <1>6, <1>7 DEF FeedOK

\* A round with the same generation at its end is the answer.
LEMMA FeedRecheckOK ==
  ASSUME IInv, ParityInv, FeedOK, FeedRecheck
  PROVE  FeedOK'
<1>1. /\ rpc = "read" /\ up
      /\ failed \/ (files = {} /\ ~read_active)
      /\ UNCHANGED walVars /\ UNCHANGED <<query, generation, expected>>
      /\ files' = {} /\ read_active' = FALSE
  BY DEF FeedRecheck
<1>2. UNCHANGED <<up, acked, rotations, retained_from>>
  BY <1>1, WalUnchanged
<1>3. CASE SameGeneration
  <2>1. /\ ~failed /\ Apart(out)
        /\ files = {} /\ ~read_active
        /\ \A e \in Owed : e \in Rows(out)
    BY <1>1, <1>3 DEF FeedOK, RoundOK
  <2>2. rpc' = "done" /\ UNCHANGED <<out, failed>>
    BY <1>3, <2>1 DEF FeedRecheck
  <2>3. Owed' = Owed /\ Rows(out)' = Rows(out)
    BY <1>1, <1>2, <2>2 DEF Owed, Rows
  <2>4. ReaderOK'
    BY <1>1, <1>2, <2>1, <2>2 DEF FeedOK, ReaderOK
  <2>5. RoundOK' /\ AnswerOK'
    BY <2>1, <2>2, <2>3 DEF RoundOK, AnswerOK
  <2> QED BY <2>4, <2>5 DEF FeedOK
<1>4. CASE ~SameGeneration
  <2>1. rpc' = "poll" /\ failed' = FALSE /\ out' = <<>>
    BY <1>4 DEF FeedRecheck, FeedRetry
  <2>2. out' \in Seq(SUBSET Entry)
    BY <2>1
  <2>3. ReaderOK'
    BY <1>1, <1>2, <2>1, <2>2 DEF FeedOK, ReaderOK
  <2>4. RoundOK' /\ AnswerOK'
    BY <2>1 DEF RoundOK, AnswerOK
  <2> QED BY <2>3, <2>4 DEF FeedOK
<1> QED BY <1>3, <1>4

\* Under the lock list and disk agree, and the answer is whole.
LEMMA FeedReadLockedOK ==
  ASSUME IInv, ParityInv, FeedOK, FeedReadLocked
  PROVE  FeedOK'
<1> DEFINE there == {g \in segments : g.first \in Listed}
           fromActive == MayContain(active_summary)
           ok == /\ \A n \in Listed : \E g \in there : g.first = n /\ g.good
                 /\ fromActive => ActiveReadable
           sealedChunk == After(UNION {g.entries : g \in there})
           activeChunk == IF fromActive THEN After(active) ELSE {}
<1>1. /\ rpc = "poll" /\ up /\ pc = "idle" /\ UNCHANGED walVars
      /\ UNCHANGED <<query, generation, files, read_active, failed, expected>>
      /\ rpc' = IF ok THEN "done" ELSE "error"
      /\ out' = <<sealedChunk, activeChunk>>
  BY DEF FeedReadLocked
<1>2. UNCHANGED <<up, acked, rotations, retained_from>>
  BY <1>1, WalUnchanged
<1>3. rotations % 2 = 0
  BY <1>1 DEF ParityInv, Parity
<1>4. \A g \in segments : g.first \in Listed => g \in there
  OBVIOUS
<1>5. \A x : x \in sealedChunk <=> x.seq > query.since /\ \E g \in there : x \in g.entries
  BY DEF After
<1>6. \A x : x \in activeChunk <=> fromActive /\ x \in active /\ x.seq > query.since
  BY DEF After
<1>7. \A g \in there : g \in segments
  OBVIOUS
<1>8. ok
  <2>1. ASSUME NEW n \in Listed PROVE \E g \in there : g.first = n /\ g.good
    <3>1. PICK s \in sealed : s.first = n
      BY DEF Listed
    <3>2. PICK g \in segments : g.first = n /\ g.good
      BY <1>1, <1>3, <3>1, EvenFacts
    <3> QED BY <3>2
  <2>2. ActiveReadable
    BY <1>1, <1>3, EvenFacts
  <2> QED BY <2>1, <2>2
<1>9. sealedChunk \in SUBSET Entry /\ activeChunk \in SUBSET Entry
  BY <1>1, <1>3, <1>5, <1>6, <1>7, EvenFacts
<1> HIDE DEF there, fromActive, ok, sealedChunk, activeChunk
<1>10. rpc' = "done"
  BY <1>1, <1>8
<1>11. out' \in Seq(SUBSET Entry) /\ DOMAIN out' = {1, 2} /\ out'[1] = sealedChunk /\ out'[2] = activeChunk
  BY <1>1, <1>9
<1>12. ReaderOK'
  BY <1>1, <1>2, <1>10, <1>11 DEF FeedOK, ReaderOK
<1>13. sealedChunk \cap activeChunk = {}
  <2>1. ASSUME NEW x \in sealedChunk, x \in activeChunk PROVE FALSE
    <3>1. PICK g \in segments : x \in g.entries
      BY <1>5, <1>7, <2>1
    <3>2. x \in active
      BY <1>6, <2>1
    <3> QED BY <1>1, <1>3, <3>1, <3>2, EvenFacts
  <2> QED BY <2>1
<1>14. Apart(out')
  BY <1>11, <1>13 DEF Apart
<1>15. ASSUME NEW e \in Owed PROVE e \in Rows(out)'
  <2>1. e \in acked /\ e.seq >= retained_from /\ e.op.coll = query.coll /\ e.seq > query.since
    BY DEF Owed, FeedOK, ReaderOK
  <2>2. CASE e \in active_summary
    <3>1. fromActive
      BY <2>1, <2>2 DEF fromActive, MayContain
    <3>2. e \in activeChunk
      BY <1>1, <1>3, <1>6, <2>1, <2>2, <3>1, EvenFacts
    <3> QED BY <1>1, <1>11, <2>1, <3>2 DEF Rows
  <2>3. ASSUME NEW s \in sealed, e \in s.entries PROVE e \in Rows(out)'
    <3>1. s.first \in Listed
      BY <2>1, <2>3 DEF Listed, MayContain
    <3>2. PICK g \in segments : g.first = s.first /\ g.entries = s.entries
      BY <1>1, <1>3, EvenFacts
    <3>3. e \in sealedChunk
      BY <1>4, <1>5, <2>1, <2>3, <3>1, <3>2
    <3> QED BY <1>1, <1>11, <2>1, <3>3 DEF Rows
  <2> QED BY <1>1, <1>3, <2>1, <2>2, <2>3, EvenFacts
<1>16. Owed' = Owed
  BY <1>1, <1>2 DEF Owed
<1>17. RoundOK' /\ AnswerOK'
  BY <1>10, <1>14, <1>15, <1>16 DEF RoundOK, AnswerOK
<1> QED BY <1>12, <1>17 DEF FeedOK

\* A reader that is not there is in order.
LEMMA FeedResetOK ==
  ASSUME ReaderReset
  PROVE  FeedOK'
<1>1. /\ rpc' = "idle" /\ generation' = 0 /\ read_active' = FALSE /\ out' = <<>>
      /\ failed' = FALSE /\ expected' = {}
  BY DEF ReaderReset
<1>2. out' \in Seq(SUBSET Entry')
  BY <1>1
<1> QED BY <1>1, <1>2 DEF FeedOK, ReaderOK, RoundOK, AnswerOK

\* The log's own steps, while the process lives, leave a round whose generation
\* still stands in order, and an answer as it is.
LEMMA FeedLivingOK ==
  ASSUME Faultless, IInv, ParityInv, FeedOK, up, Living, UNCHANGED readerVars
  PROVE  FeedOK'
<1>1. UNCHANGED <<rpc, query, generation, files, read_active, out, failed, expected>>
  BY DEF readerVars
<1>2. /\ up' /\ rotations' \in {rotations, rotations + 1} /\ acked \subseteq acked'
      /\ retained_from =< retained_from'
  BY LivingStep DEF IInv, TypeInv
<1>3. /\ rotations \in Nat /\ retained_from \in Nat /\ retained_from' \in Nat
      /\ \A e \in acked : e.seq \in Nat
  <2>1. retained_from' \in Nat
    <3>1. Next
      BY DEF Living, Next
    <3>2. TypeOK'
      BY <3>1, TypeNext DEF IInv, TypeInv
    <3> QED BY <3>2, EntryFields DEF TypeOK
  <2> QED BY <2>1, Nats DEF IInv, TypeInv, ParityInv
<1>4. ReaderOK'
  <2>1. rpc \in {"list", "flag", "read"} => generation % 2 = 0 /\ generation =< rotations'
    BY <1>2, <1>3 DEF FeedOK, ReaderOK
  <2>2. expected \subseteq acked'
    BY <1>2 DEF FeedOK, ReaderOK
  <2> QED BY <1>1, <1>2, <2>1, <2>2 DEF FeedOK, ReaderOK
<1>5. Owed' \subseteq Owed /\ Rows(out)' = Rows(out)
  <2>1. \A e \in expected : e.seq \in Nat
    BY <1>3 DEF FeedOK, ReaderOK
  <2> QED BY <1>1, <1>2, <1>3, <2>1 DEF Owed, Rows
<1>6. AnswerOK'
  BY <1>1, <1>5 DEF FeedOK, AnswerOK
<1>7. RoundOK'
  <2> SUFFICES ASSUME rpc \in {"flag", "read"}, SameGeneration' PROVE RoundOK'
    BY <1>1 DEF RoundOK
  <2>1. rotations' = generation /\ generation =< rotations /\ generation % 2 = 0
        /\ generation \in Nat
    BY <1>1 DEF FeedOK, ReaderOK, SameGeneration
  <2>2. rotations' = rotations /\ SameGeneration /\ rotations % 2 = 0
    BY <1>2, <1>3, <2>1 DEF SameGeneration
  <2>3. /\ UNCHANGED <<sealed, segments, retained_from>>
        /\ \A e \in acked : e \in active => e \in active'
    BY <2>2, StableStep
  <2>4. Listed' = Listed
    BY <1>1, <2>3 DEF Listed, MayContain
  <2>5. CASE rpc = "flag"
    BY <1>1, <2>2, <2>4, <2>5 DEF FeedOK, RoundOK
  <2>6. CASE rpc = "read"
    <3>1. /\ ~failed /\ files \subseteq Listed /\ Apart(out)
          /\ \A e \in Owed :
               \/ e \in Rows(out)
               \/ \E s \in sealed : s.first \in files /\ e \in s.entries
               \/ read_active /\ e \in active
          /\ (files # {} \/ read_active) =>
               \A i \in DOMAIN out : \A e \in out[i] :
                 \E g \in segments : g.first \notin files /\ e \in g.entries
      BY <2>2, <2>6 DEF FeedOK, RoundOK
    <3>2. ASSUME NEW e \in Owed, e \in active PROVE e \in active'
      BY <2>3, <3>2 DEF Owed, FeedOK, ReaderOK
    <3>3. \A e \in Owed' :
            \/ e \in Rows(out)'
            \/ \E s \in sealed' : s.first \in files' /\ e \in s.entries
            \/ read_active' /\ e \in active'
      BY <1>1, <1>5, <2>3, <3>1, <3>2
    <3> QED BY <1>1, <2>3, <2>4, <2>6, <3>1, <3>3 DEF RoundOK
  <2> QED BY <2>5, <2>6
<1> QED BY <1>4, <1>6, <1>7 DEF FeedOK

(***************************************************************************)
(* The theorems                                                            *)
(***************************************************************************)

\* The log's invariant, the parity of its generation, and the reader's
FeedInv == IInv /\ ParityInv /\ HighWater /\ FeedOK

\* No read has begun.
LEMMA FeedInvInit == FeedInit => FeedInv
<1> SUFFICES ASSUME FeedInit PROVE FeedInv
  OBVIOUS
<1>1. IInv /\ ParityInv
  BY IInit, ParityInit DEF FeedInit
<1>2. HighWater
  BY DEF FeedInit, Init, HighWater
<1>3. out \in Seq(SUBSET Entry)
  BY DEF FeedInit
<1>4. FeedOK
  BY <1>3 DEF FeedInit, FeedOK, ReaderOK, RoundOK, AnswerOK
<1> QED BY <1>1, <1>2, <1>4 DEF FeedInv

\* A step of the whole is a step of the log or leaves it alone.
LEMMA FeedIsWalStep == [FeedNext]_feedVars => [Next]_walVars
  BY DEF FeedNext, ReaderStep, FeedStart, FeedFastPath, FeedPoll, FeedList, FeedFlagActive,
    FeedReadSegment, FeedReadActive, FeedRecheck, FeedReadLocked, FeedReturn, Next, feedVars

\* Every step of log and reader keeps the invariant.
LEMMA FeedInvNext ==
  ASSUME Faultless
  PROVE  FeedInv /\ [FeedNext]_feedVars => FeedInv'
<1> SUFFICES ASSUME FeedInv, [FeedNext]_feedVars PROVE FeedInv'
  OBVIOUS
<1>0. IInv /\ ParityInv /\ HighWater /\ FeedOK /\ [Next]_walVars /\ ~CallerMayCancel
  BY FeedIsWalStep DEF FeedInv, Faultless, NoneLeftBehind
<1>1. IInv' /\ ParityInv'
  BY <1>0, INext, ParityNext
<1>2. HighWater'
  <2>1. CASE UNCHANGED walVars
    BY <1>0, <2>1, WalUnchanged DEF HighWater, walVars, lock
  <2> QED BY <1>0, <1>1, <2>1, HighWaterNext
<1>3. FeedOK'
  <2>1. CASE ReaderStep
    <3>1. FeedReturn => FeedOK'
      BY FeedResetOK DEF FeedReturn
    <3> QED BY <1>0, <2>1, <3>1, FeedFastPathOK, FeedPollOK, FeedListOK, FeedFlagOK,
      FeedReadSegmentOK, FeedReadActiveOK, FeedRecheckOK, FeedReadLockedOK DEF ReaderStep
  <2>2. CASE \E c \in Coll, since \in 0..MaxSeq : FeedStart(c, since)
    BY <1>0, <2>2, FeedStartOK
  <2>3. CASE CrashStep /\ ReaderReset
    BY <2>3, FeedResetOK
  <2>4. CASE Living /\ up /\ UNCHANGED readerVars
    BY <1>0, <2>4, FeedLivingOK
  <2>5. CASE ~up /\ Next /\ UNCHANGED readerVars
    <3>1. rpc = "idle" /\ rpc' = "idle"
      BY <1>0, <2>5 DEF FeedOK, ReaderOK, readerVars
    <3>2. acked' = acked
      BY <1>0, <2>5, AckedBatch
    <3> QED BY <1>0, <2>5, <3>1, <3>2 DEF FeedOK, ReaderOK, RoundOK, AnswerOK, readerVars
  <2>6. CASE up /\ OpenStep
    BY <2>6 DEF OpenStep, RecoverSeal, Open
  <2>7. CASE UNCHANGED feedVars
    <3>1. UNCHANGED walVars /\ UNCHANGED readerVars
      BY <2>7 DEF feedVars
    <3>2. UNCHANGED <<active, segments, up, sealed, rotations, retained_from, acked>>
      BY <3>1, WalUnchanged
    <3> QED BY <1>0, <3>1, <3>2
      DEF readerVars, FeedOK, ReaderOK, RoundOK, AnswerOK, Owed, Rows, Listed, MayContain,
          SameGeneration
  <2> QED BY <2>1, <2>2, <2>3, <2>4, <2>5, <2>6, <2>7 DEF FeedNext, Living, Next
<1> QED BY <1>1, <1>2, <1>3 DEF FeedInv

\* The invariant holds in every reachable state.
LEMMA FeedInvariant ==
  ASSUME Faultless
  PROVE  FeedSpec => []FeedInv
  BY FeedInvInit, FeedInvNext, PTL DEF FeedSpec

\* A read that answers returns every row that was acknowledged before it began
\* and is still retained, whatever appends, rotations and truncations ran while
\* it read without a lock (read_entries_since, change_feed_is_empty).
THEOREM FeedIsComplete ==
  ASSUME Faultless
  PROVE  FeedSpec => []FeedComplete
<1>1. FeedInv => FeedComplete
  BY DEF FeedInv, FeedOK, AnswerOK, Owed, FeedComplete
<1> QED BY <1>1, FeedInvariant, PTL

\* No row is delivered twice, rotations between listing and reading included.
THEOREM FeedHasNoDuplicates ==
  ASSUME Faultless
  PROVE  FeedSpec => []FeedNoDuplicates
<1>1. FeedInv => FeedNoDuplicates
  BY DEF FeedInv, FeedOK, AnswerOK, Apart, FeedNoDuplicates
<1> QED BY <1>1, FeedInvariant, PTL

\* A read never fails: a file that a rotation or a truncation took away has
\* moved the generation, so the round is retried.
THEOREM FeedDoesNotFail ==
  ASSUME Faultless
  PROVE  FeedSpec => []FeedNeverFails
<1>1. FeedInv => FeedNeverFails
  BY DEF FeedInv, FeedOK, ReaderOK, FeedNeverFails
<1> QED BY <1>1, FeedInvariant, PTL
============================================================================
