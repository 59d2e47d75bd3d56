------------------------- MODULE WalTruncatorProofs -------------------------
(***************************************************************************)
(* Proofs about WalTruncator for any number of writers, any function       *)
(* versions, any retention and any flush lag: type correctness; that the   *)
(* history a captured snapshot pins is kept; that no row's entry is        *)
(* removed before the row is in a durable segment; that the function       *)
(* store's live definition stays in the retained log and replay yields it; *)
(* and that a published snapshot covers its LSN.                           *)
(***************************************************************************)
EXTENDS WalTruncator, MinMaxLemmas, SequenceTheorems, TLAPS

\* The step relation with one disjunct per action.
LEMMA NextCases ==
  ASSUME Next
  PROVE  \/ \E w \in Writers : ReadLast(w)
         \/ \E w \in Writers : Reserve(w)
         \/ \E w \in Writers : AppendRow(w)
         \/ \E w \in Writers : AppendRowFails(w)
         \/ \E w \in Writers : ApplyRow(w)
         \/ \E w \in Writers : ApplyRowFails(w)
         \/ \E w \in Writers : ReleaseFailed(w)
         \/ \E w \in Writers : CancelWrite(w)
         \/ FlushRows
         \/ \E d \in Defs \cup {NoDef} : PutFunction(d)
         \/ ApplyFunction
         \/ CancelFunction
         \/ Capture
         \/ Scan
         \/ Publish
         \/ DropSnapshotPin
         \/ ReadHead
         \/ FlushLagging
         \/ AskInflight
         \/ AskUnflushed
         \/ AskRetention
         \/ AskSnapshots
         \/ SourceRefuses
         \/ AskCheckpoint
         \/ Truncate
         \/ Restart
  BY DEF Next, WriterStep, TruncatorStep

\* What an append does to the log: one more entry, a new row at most.
LEMMA LogGrows ==
  ASSUME log \in Seq({"row", NoDef} \cup Defs),
         NEW x \in {"row", NoDef} \cup Defs, log' = Append(log, x)
  PROVE  /\ log' \in Seq({"row", NoDef} \cup Defs)
         /\ LastSeq \in Nat /\ LastSeq' = LastSeq + 1
         /\ RowLsns' = RowLsns \cup (IF x = "row" THEN {LastSeq + 1} ELSE {})
  <1>1. /\ log' \in Seq({"row", NoDef} \cup Defs)
        /\ Len(log') = Len(log) + 1
        /\ \A i \in 1..Len(log) : log'[i] = log[i]
        /\ log'[Len(log) + 1] = x
    BY AppendProperties
  <1>2. Len(log) \in Nat
    BY LenProperties
  <1> QED
    BY <1>1, <1>2 DEF LastSeq, RowLsns

\* Initially everything has its type.
LEMMA TypeInit == Init => TypeOK
  <1> SUFFICES ASSUME Init PROVE TypeOK
    OBVIOUS
  <1>1. log \in Seq({"row", NoDef} \cup Defs) /\ LastSeq = 0
    BY EmptySeq DEF Init, LastSeq
  <1>2. /\ wpc \in [Writers -> {"idle", "read", "reserved", "appended", "failing"}]
        /\ wlast \in [Writers -> 0..LastSeq] /\ wlsn \in [Writers -> 0..LastSeq]
    BY <1>1 DEF Init
  <1>3. poisoned \in BOOLEAN
    BY Zenon DEF Init
  <1> QED
    BY <1>1, <1>2, <1>3, TruncatorBounds DEF Init, TypeOK

\* The larger and the smaller of two.
LEMMA MaxMinPair ==
  ASSUME NEW a \in Int, NEW b \in Int
  PROVE  /\ Max({a, b}) = IF a >= b THEN a ELSE b
         /\ Min({a, b}) = IF a =< b THEN a ELSE b
  BY DEF Max, Min

\* The in-flight floors are sequences up to the one after the head.
LEMMA InflightType == TypeOK => Inflight \subseteq 1..(LastSeq + 1)
  BY LenProperties DEF TypeOK, Inflight, LastSeq

\* A captured snapshot LSN is no higher than the head.
LEMMA SnapshotType ==
  ASSUME TypeOK
  PROVE  SnapshotLsn \in 0..LastSeq
  <1> DEFINE S == {LastSeq} \cup {f - 1 : f \in Inflight}
  <1>0. LastSeq \in Nat
    BY LenProperties DEF TypeOK, LastSeq
  <1>1. S \subseteq 0..LastSeq
    BY <1>0, InflightType
  <1>2. Min(S) \in S
    BY <1>0, <1>1, MinOfNats
  <1> QED
    BY <1>1, <1>2 DEF SnapshotLsn

\* truncate_below lowers the floor to the lowest pin.
LEMMA FloorBound ==
  ASSUME TypeOK
  PROVE  /\ TruncationFloor \in Nat /\ TruncationFloor =< tfloor
         /\ \A f \in pins : TruncationFloor =< f
  <1>1. {tfloor} \cup pins \in SUBSET Nat
    BY DEF TypeOK
  <1> QED
    BY <1>1, MinOfNats DEF TruncationFloor

\* Replay yields a definition or none.
LEMMA ReplayedType ==
  ASSUME TypeOK
  PROVE  Replayed \in {NoDef} \cup Defs
  <1> DEFINE mine == {n \in (gone + 1)..LastSeq : log[n] # "row"}
  <1>1. LastSeq \in Nat /\ gone \in Nat
    BY LenProperties DEF TypeOK, LastSeq
  <1>2. CASE mine = {}
    BY <1>2 DEF Replayed
  <1>3. CASE mine # {}
    <2>1. mine \subseteq 1..LastSeq /\ mine \in SUBSET (0..LastSeq)
      BY <1>1
    <2>2. Max(mine) \in mine
      <3> HIDE DEF mine
      <3> QED BY <1>1, <1>3, <2>1, MaxOfNats
    <2>3. Max(mine) \in 1..LastSeq /\ log[Max(mine)] # "row"
      BY <2>1, <2>2
    <2>4. log[Max(mine)] \in {"row", NoDef} \cup Defs
      BY <2>3, ElementOfSeq DEF TypeOK, LastSeq
    <2> QED
      BY <1>3, <2>3, <2>4 DEF Replayed
  <1> QED
    BY <1>2, <1>3

\* Every step preserves the types.
LEMMA TypeNext ==
  ASSUME TypeOK, WritesInOrder, [Next]_vars
  PROVE  TypeOK'
  <1>len. LastSeq \in Nat
    BY LenProperties DEF TypeOK, LastSeq
  <1>same. log' = log => LastSeq' = LastSeq
    BY DEF LastSeq
  <1>floor. tfloor \in Int /\ thead \in Int
    BY <1>len DEF TypeOK
  <1>grown. \A x : log' = Append(log, x) /\ x \in {"row", NoDef} \cup Defs => log' # log
    <2> SUFFICES ASSUME NEW x, log' = Append(log, x), x \in {"row", NoDef} \cup Defs
                 PROVE  log' # log
      OBVIOUS
    <2>1. LastSeq' = LastSeq + 1
      BY LogGrows DEF TypeOK
    <2> QED
      BY <1>len, <1>same, <2>1
  <1> USE <1>len, TruncatorBounds DEF wal, writer, function, publisher, truncator
  <1>1. ASSUME NEW w \in Writers, ReadLast(w) PROVE TypeOK'
    BY <1>1, <1>same DEF ReadLast, TypeOK
  <1>2. ASSUME NEW w \in Writers, Reserve(w) PROVE TypeOK'
    BY <1>2, <1>same DEF Reserve, TypeOK
  <1>3. ASSUME NEW w \in Writers, AppendRow(w) PROVE TypeOK'
    <2>1. log' = Append(log, "row") /\ "row" \in {"row", NoDef} \cup Defs
      BY <1>3 DEF AppendRow
    <2>2. log' \in Seq({"row", NoDef} \cup Defs) /\ LastSeq' = LastSeq + 1
      BY <2>1, LogGrows DEF TypeOK
    <2> QED
      BY <1>3, <2>2 DEF AppendRow, TypeOK, CanAppend
  <1>4. ASSUME NEW w \in Writers, AppendRowFails(w) PROVE TypeOK'
    BY <1>4, <1>same DEF AppendRowFails, ToIdle, TypeOK
  <1>5. ASSUME NEW w \in Writers, ApplyRow(w) PROVE TypeOK'
    <2>1. wlsn[w] \in 1..LastSeq
      BY <1>5 DEF ApplyRow, TypeOK, WritesInOrder
    <2>2. resident' \subseteq 1..LastSeq /\ acked' \subseteq 1..LastSeq
      BY <1>5, <2>1 DEF ApplyRow, TypeOK
    <2>3. /\ wpc' \in [Writers -> {"idle", "read", "reserved", "appended", "failing"}]
          /\ wlast' \in [Writers -> 0..LastSeq] /\ wlsn' \in [Writers -> 0..LastSeq]
      BY <1>5 DEF ApplyRow, ToIdle, TypeOK
    <2> QED
      BY <1>5, <2>2, <2>3, <1>same DEF ApplyRow, TypeOK
  <1>6. ASSUME NEW w \in Writers, ApplyRowFails(w) PROVE TypeOK'
    BY <1>6, <1>same DEF ApplyRowFails, TypeOK
  <1>7. ASSUME NEW w \in Writers, ReleaseFailed(w) PROVE TypeOK'
    BY <1>7, <1>same DEF ReleaseFailed, ToIdle, TypeOK
  <1>8. ASSUME NEW w \in Writers, CancelWrite(w) PROVE TypeOK'
    BY <1>8, <1>same DEF CancelWrite, ToIdle, TypeOK
  <1>9. ASSUME FlushRows PROVE TypeOK'
    BY <1>9, <1>same DEF FlushRows, TypeOK
  <1>10. ASSUME NEW d \in Defs \cup {NoDef}, PutFunction(d) PROVE TypeOK'
    <2>1. log' = Append(log, d) /\ d \in {"row", NoDef} \cup Defs
      BY <1>10 DEF PutFunction
    <2>2. log' \in Seq({"row", NoDef} \cup Defs) /\ LastSeq' = LastSeq + 1
      BY <2>1, LogGrows DEF TypeOK
    <2> QED
      BY <1>10, <2>2 DEF PutFunction, TypeOK, CanAppend
  <1>11. ASSUME ApplyFunction PROVE TypeOK'
    BY <1>11, <1>same DEF ApplyFunction, TypeOK
  <1>12. ASSUME CancelFunction PROVE TypeOK'
    BY <1>12, <1>same DEF CancelFunction, TypeOK
  <1>13. ASSUME Capture PROVE TypeOK'
    <2>1. SnapshotLsn \in 0..LastSeq
      BY SnapshotType
    <2> QED
      BY <1>13, <2>1, <1>same DEF Capture, TypeOK
  <1>14. ASSUME Scan PROVE TypeOK'
    BY <1>14, <1>same DEF Scan, TypeOK
  <1>15. ASSUME Publish PROVE TypeOK'
    BY <1>15, <1>same DEF Publish, TypeOK
  <1>16. ASSUME DropSnapshotPin PROVE TypeOK'
    BY <1>16, <1>same DEF DropSnapshotPin, TypeOK
  <1>17. ASSUME ReadHead PROVE TypeOK'
    BY <1>17, <1>same DEF ReadHead, TypeOK
  <1>18. ASSUME FlushLagging PROVE TypeOK'
    BY <1>18, <1>same DEF FlushLagging, TypeOK
  <1>19. ASSUME AskInflight PROVE TypeOK'
    BY <1>19, <1>same, InflightType DEF AskInflight, TypeOK
  <1>20. ASSUME AskUnflushed PROVE TypeOK'
    <2> DEFINE S == {tfloor} \cup tinflight \cup resident
    <2>1. S \in SUBSET Nat
      BY DEF TypeOK
    <2>2. Min(S) \in Nat /\ Min(S) =< tfloor
      BY <2>1, MinOfNats
    <2> HIDE DEF S
    <2>3. tfloor' \in 0..(thead' + 1) /\ thead' \in 0..LastSeq
      BY <1>20, <2>2 DEF AskUnflushed, EndRun, TypeOK, S
    <2> QED
      BY <1>20, <2>3, <1>same DEF AskUnflushed, EndRun, TypeOK
  <1>21. ASSUME AskRetention PROVE TypeOK'
    <2> DEFINE m == Max({0, thead + 1 - Retain})
    <2>1. m \in Nat
      <3>1. thead + 1 - Retain \in Int
        BY DEF TypeOK
      <3> QED
        BY <3>1, MaxMinPair
    <2> HIDE DEF m
    <2>2. Min({tfloor, m}) = IF tfloor =< m THEN tfloor ELSE m
      BY <1>floor, <2>1 DEF Min
    <2>3. tfloor' = Min({tfloor, m})
      BY <1>21 DEF AskRetention, m
    <2>4. tfloor' \in 0..(thead + 1)
      BY <2>1, <2>2, <2>3 DEF TypeOK
    <2> QED
      BY <1>21, <2>4, <1>same DEF AskRetention, TypeOK
  <1>22. ASSUME AskSnapshots PROVE TypeOK'
    <2>1. CASE published = NoLsn
      BY <1>22, <2>1, <1>same DEF AskSnapshots, TypeOK
    <2>2. CASE published # NoLsn
      <3>1. published + 1 \in Nat
        BY <2>2 DEF TypeOK
      <3>2. Min({tfloor, published + 1})
              = IF tfloor =< published + 1 THEN tfloor ELSE published + 1
        BY <1>floor, <3>1 DEF Min
      <3>3. tfloor' \in 0..(thead + 1)
        BY <1>22, <2>2, <3>1, <3>2 DEF AskSnapshots, TypeOK
      <3> QED
        BY <1>22, <3>3, <1>same DEF AskSnapshots, TypeOK
    <2> QED
      BY <2>1, <2>2
  <1>23. ASSUME SourceRefuses PROVE TypeOK'
    BY <1>23, <1>same DEF SourceRefuses, EndRun, TypeOK
  <1>24. ASSUME AskCheckpoint PROVE TypeOK'
    <2>1. CASE log' = log
      <3>1. tfloor' \in 0..(thead' + 1) /\ thead' \in 0..LastSeq
        BY <1>24, <2>1, <1>grown DEF AskCheckpoint, EndRun, TypeOK
      <3> QED
        BY <1>24, <2>1, <3>1, <1>same DEF AskCheckpoint, EndRun, TypeOK
    <2>2. CASE log' # log
      <3>1. /\ log' = Append(log, fstate) /\ CanAppend
            /\ tfloor' = Min({tfloor, LastSeq + 1})
            /\ tpc' = "truncate" /\ thead' = thead
        BY <1>24, <2>2 DEF AskCheckpoint
      <3>2. log' \in Seq({"row", NoDef} \cup Defs) /\ LastSeq' = LastSeq + 1
        BY <3>1, LogGrows DEF TypeOK
      <3>3. Min({tfloor, LastSeq + 1})
              = IF tfloor =< LastSeq + 1 THEN tfloor ELSE LastSeq + 1
        BY <1>floor DEF Min
      <3>4. tfloor' \in 0..(thead + 1)
        BY <3>1, <3>3 DEF TypeOK
      <3> QED
        BY <1>24, <3>1, <3>2, <3>4 DEF AskCheckpoint, TypeOK, CanAppend
    <2> QED
      BY <2>1, <2>2
  <1>25. ASSUME Truncate PROVE TypeOK'
    <2>1. TruncationFloor \in Nat /\ TruncationFloor =< tfloor
      BY FloorBound
    <2>2. gone' \in 0..LastSeq
      BY <1>25, <2>1 DEF Truncate, TypeOK
    <2> QED
      BY <1>25, <2>2, <1>same DEF Truncate, EndRun, TypeOK
  <1>26. ASSUME Restart PROVE TypeOK'
    <2>1. resident' \subseteq 1..LastSeq
      BY <1>26 DEF Restart, RowLsns
    <2>2. fstate' \in {NoDef} \cup Defs
      BY <1>26, ReplayedType DEF Restart
    <2>3. poisoned' \in BOOLEAN
      BY <1>26, Zenon DEF Restart
    <2>4. /\ wpc' \in [Writers -> {"idle", "read", "reserved", "appended", "failing"}]
          /\ wlast' \in [Writers -> 0..LastSeq] /\ wlsn' \in [Writers -> 0..LastSeq]
      BY <1>26 DEF Restart
    <2> QED
      BY <1>26, <2>1, <2>2, <2>3, <2>4, <1>same DEF Restart, EndRun, TypeOK
  <1>27. ASSUME UNCHANGED vars PROVE TypeOK'
    BY <1>27, <1>same DEF vars, TypeOK
  <1> QED
    BY NextCases, <1>1, <1>2, <1>3, <1>4, <1>5, <1>6, <1>7, <1>8, <1>9,
       <1>10, <1>11, <1>12, <1>13, <1>14, <1>15, <1>16, <1>17, <1>18,
       <1>19, <1>20, <1>21, <1>22, <1>23, <1>24, <1>25, <1>26, <1>27

\* A write's entry lies above the head it reserved from, on every path.
LEMMA OrderNext ==
  ASSUME TypeOK, WritesInOrder, [Next]_vars
  PROVE  WritesInOrder'
  <1>len. LastSeq \in Nat
    BY LenProperties DEF TypeOK, LastSeq
  <1> USE <1>len DEF wal, writer, function, publisher, truncator, TypeOK,
          WritesInOrder
  <1>1. ASSUME NEW w \in Writers, ReadLast(w) PROVE WritesInOrder'
    BY <1>1 DEF ReadLast
  <1>2. ASSUME NEW w \in Writers, Reserve(w) PROVE WritesInOrder'
    BY <1>2 DEF Reserve
  <1>3. ASSUME NEW w \in Writers, AppendRow(w) PROVE WritesInOrder'
    <2>1. LastSeq' = LastSeq + 1
      BY <1>3, LogGrows DEF AppendRow, TypeOK
    <2> QED
      BY <1>3 DEF AppendRow, WritesInOrder, TypeOK
  <1>4. ASSUME NEW w \in Writers, AppendRowFails(w) PROVE WritesInOrder'
    BY <1>4 DEF AppendRowFails, ToIdle
  <1>5. ASSUME NEW w \in Writers, ApplyRow(w) PROVE WritesInOrder'
    BY <1>5 DEF ApplyRow, ToIdle
  <1>6. ASSUME NEW w \in Writers, ApplyRowFails(w) PROVE WritesInOrder'
    BY <1>6 DEF ApplyRowFails
  <1>7. ASSUME NEW w \in Writers, ReleaseFailed(w) PROVE WritesInOrder'
    BY <1>7 DEF ReleaseFailed, ToIdle
  <1>8. ASSUME NEW w \in Writers, CancelWrite(w) PROVE WritesInOrder'
    BY <1>8 DEF CancelWrite, ToIdle
  <1>9. ASSUME FlushRows PROVE WritesInOrder'
    BY <1>9 DEF FlushRows
  <1>10. ASSUME NEW d \in Defs \cup {NoDef}, PutFunction(d) PROVE WritesInOrder'
    BY <1>10 DEF PutFunction
  <1>11. ASSUME ApplyFunction PROVE WritesInOrder'
    BY <1>11 DEF ApplyFunction
  <1>12. ASSUME CancelFunction PROVE WritesInOrder'
    BY <1>12 DEF CancelFunction
  <1>13. ASSUME Capture PROVE WritesInOrder'
    BY <1>13 DEF Capture
  <1>14. ASSUME Scan PROVE WritesInOrder'
    BY <1>14 DEF Scan
  <1>15. ASSUME Publish PROVE WritesInOrder'
    BY <1>15 DEF Publish
  <1>16. ASSUME DropSnapshotPin PROVE WritesInOrder'
    BY <1>16 DEF DropSnapshotPin
  <1>17. ASSUME ReadHead PROVE WritesInOrder'
    BY <1>17 DEF ReadHead
  <1>18. ASSUME FlushLagging PROVE WritesInOrder'
    BY <1>18 DEF FlushLagging
  <1>19. ASSUME AskInflight PROVE WritesInOrder'
    BY <1>19 DEF AskInflight
  <1>20. ASSUME AskUnflushed PROVE WritesInOrder'
    BY <1>20 DEF AskUnflushed
  <1>21. ASSUME AskRetention PROVE WritesInOrder'
    BY <1>21 DEF AskRetention
  <1>22. ASSUME AskSnapshots PROVE WritesInOrder'
    BY <1>22 DEF AskSnapshots
  <1>23. ASSUME SourceRefuses PROVE WritesInOrder'
    BY <1>23 DEF SourceRefuses
  <1>24. ASSUME AskCheckpoint PROVE WritesInOrder'
    BY <1>24 DEF AskCheckpoint
  <1>25. ASSUME Truncate PROVE WritesInOrder'
    BY <1>25 DEF Truncate
  <1>26. ASSUME Restart PROVE WritesInOrder'
    BY <1>26 DEF Restart
  <1>27. ASSUME UNCHANGED vars PROVE WritesInOrder'
    BY <1>27 DEF vars
  <1> QED
    BY NextCases, <1>1, <1>2, <1>3, <1>4, <1>5, <1>6, <1>7, <1>8, <1>9,
       <1>10, <1>11, <1>12, <1>13, <1>14, <1>15, <1>16, <1>17, <1>18,
       <1>19, <1>20, <1>21, <1>22, <1>23, <1>24, <1>25, <1>26, <1>27

\* Every reachable state of the truncator and its consumers has the declared
\* types; in particular nothing past the head is ever removed.
THEOREM TypeCorrect == Spec => []TypeOK
  <1>1. Init => TypeOK /\ WritesInOrder
    BY TypeInit DEF Init, WritesInOrder
  <1>2. TypeOK /\ WritesInOrder /\ [Next]_vars => (TypeOK /\ WritesInOrder)'
    BY TypeNext, OrderNext
  <1> QED
    BY <1>1, <1>2, PTL DEF Spec

\* The strengthening of CapturedDeltaKept: a captured snapshot holds its pin.
PinHeld ==
  spc \in {"captured", "scanned", "published"} => slsn + 1 \in pins

\* No step removes what a captured snapshot's pin holds.
LEMMA DeltaNext ==
  ASSUME TypeOK, PinHeld, CapturedDeltaKept, [Next]_vars
  PROVE  PinHeld' /\ CapturedDeltaKept'
  <1>len. LastSeq \in Nat
    BY LenProperties DEF TypeOK, LastSeq
  <1> USE <1>len DEF wal, writer, function, publisher, truncator, TypeOK,
          PinHeld, CapturedDeltaKept
  <1>1. ASSUME NEW w \in Writers, ReadLast(w) PROVE PinHeld' /\ CapturedDeltaKept'
    BY <1>1 DEF ReadLast
  <1>2. ASSUME NEW w \in Writers, Reserve(w) PROVE PinHeld' /\ CapturedDeltaKept'
    BY <1>2 DEF Reserve
  <1>3. ASSUME NEW w \in Writers, AppendRow(w) PROVE PinHeld' /\ CapturedDeltaKept'
    BY <1>3 DEF AppendRow
  <1>4. ASSUME NEW w \in Writers, AppendRowFails(w) PROVE PinHeld' /\ CapturedDeltaKept'
    BY <1>4 DEF AppendRowFails
  <1>5. ASSUME NEW w \in Writers, ApplyRow(w) PROVE PinHeld' /\ CapturedDeltaKept'
    BY <1>5 DEF ApplyRow
  <1>6. ASSUME NEW w \in Writers, ApplyRowFails(w) PROVE PinHeld' /\ CapturedDeltaKept'
    BY <1>6 DEF ApplyRowFails
  <1>7. ASSUME NEW w \in Writers, ReleaseFailed(w) PROVE PinHeld' /\ CapturedDeltaKept'
    BY <1>7 DEF ReleaseFailed
  <1>8. ASSUME NEW w \in Writers, CancelWrite(w) PROVE PinHeld' /\ CapturedDeltaKept'
    BY <1>8 DEF CancelWrite
  <1>9. ASSUME FlushRows PROVE PinHeld' /\ CapturedDeltaKept'
    BY <1>9 DEF FlushRows
  <1>10. ASSUME NEW d \in Defs \cup {NoDef}, PutFunction(d) PROVE PinHeld' /\ CapturedDeltaKept'
    BY <1>10 DEF PutFunction
  <1>11. ASSUME ApplyFunction PROVE PinHeld' /\ CapturedDeltaKept'
    BY <1>11 DEF ApplyFunction
  <1>12. ASSUME CancelFunction PROVE PinHeld' /\ CapturedDeltaKept'
    BY <1>12 DEF CancelFunction
  <1>13. ASSUME Capture PROVE PinHeld' /\ CapturedDeltaKept'
    <2>1. gone =< SnapshotLsn
      <3>1. SnapshotLsn \in Nat
        BY SnapshotType
      <3> QED
        BY <1>13, <3>1 DEF Capture, RetainedFrom, TypeOK
    <2> QED
      BY <1>13, <2>1 DEF Capture
  <1>14. ASSUME Scan PROVE PinHeld' /\ CapturedDeltaKept'
    BY <1>14 DEF Scan
  <1>15. ASSUME Publish PROVE PinHeld' /\ CapturedDeltaKept'
    BY <1>15 DEF Publish
  <1>16. ASSUME DropSnapshotPin PROVE PinHeld' /\ CapturedDeltaKept'
    BY <1>16 DEF DropSnapshotPin
  <1>17. ASSUME ReadHead PROVE PinHeld' /\ CapturedDeltaKept'
    BY <1>17 DEF ReadHead
  <1>18. ASSUME FlushLagging PROVE PinHeld' /\ CapturedDeltaKept'
    BY <1>18 DEF FlushLagging
  <1>19. ASSUME AskInflight PROVE PinHeld' /\ CapturedDeltaKept'
    BY <1>19 DEF AskInflight
  <1>20. ASSUME AskUnflushed PROVE PinHeld' /\ CapturedDeltaKept'
    BY <1>20 DEF AskUnflushed
  <1>21. ASSUME AskRetention PROVE PinHeld' /\ CapturedDeltaKept'
    BY <1>21 DEF AskRetention
  <1>22. ASSUME AskSnapshots PROVE PinHeld' /\ CapturedDeltaKept'
    BY <1>22 DEF AskSnapshots
  <1>23. ASSUME SourceRefuses PROVE PinHeld' /\ CapturedDeltaKept'
    BY <1>23 DEF SourceRefuses
  <1>24. ASSUME AskCheckpoint PROVE PinHeld' /\ CapturedDeltaKept'
    BY <1>24 DEF AskCheckpoint
  <1>25. ASSUME Truncate PROVE PinHeld' /\ CapturedDeltaKept'
    <2>1. /\ TruncationFloor \in Nat
          /\ \A f \in pins : TruncationFloor =< f
      BY FloorBound
    <2> QED
      BY <1>25, <2>1 DEF Truncate
  <1>26. ASSUME Restart PROVE PinHeld' /\ CapturedDeltaKept'
    BY <1>26 DEF Restart
  <1>27. ASSUME UNCHANGED vars PROVE PinHeld' /\ CapturedDeltaKept'
    BY <1>27 DEF vars
  <1> QED
    BY NextCases, <1>1, <1>2, <1>3, <1>4, <1>5, <1>6, <1>7, <1>8, <1>9,
       <1>10, <1>11, <1>12, <1>13, <1>14, <1>15, <1>16, <1>17, <1>18,
       <1>19, <1>20, <1>21, <1>22, <1>23, <1>24, <1>25, <1>26, <1>27

\* While a snapshot's publication holds its pin, no truncation removes an entry
\* after its LSN, whatever runs were already under way when it was captured.
THEOREM CapturedDeltaIsKept == Spec => []CapturedDeltaKept
  <1> DEFINE Inv == TypeOK /\ WritesInOrder /\ PinHeld /\ CapturedDeltaKept
  <1>1. Init => Inv
    BY TypeInit DEF Init, WritesInOrder, PinHeld, CapturedDeltaKept
  <1>2. Inv /\ [Next]_vars => Inv'
    BY TypeNext, OrderNext, DeltaNext
  <1>3. Inv => CapturedDeltaKept
    OBVIOUS
  <1> QED
    BY <1>1, <1>2, <1>3, PTL DEF Spec

\* No step loses a row, while no write is cancelled.
LEMMA RowsNext ==
  ASSUME ~CallerMayCancel, RowsInv, [Next]_vars
  PROVE  RowsLocated' /\ FloorKnown' /\ RowsNeverLost'
  <1>len. LastSeq \in Nat
    BY LenProperties DEF RowsInv, TypeOK, LastSeq
  <1>type. TypeOK /\ TypeOK'
    BY TypeNext DEF RowsInv
  <1>inv. WritesInOrder /\ RowsLocated /\ FloorKnown /\ RowsNeverLost
    BY DEF RowsInv
  <1>rows. log' = log => RowLsns' = RowLsns
    BY DEF RowLsns, LastSeq
  <1>seqs. RowLsns \subseteq 1..LastSeq
    BY DEF RowLsns
  <1> USE <1>len, <1>type, <1>inv, <1>seqs DEF wal, writer, function, publisher, truncator
  <1>1. ASSUME NEW w \in Writers, ReadLast(w) PROVE RowsLocated' /\ FloorKnown' /\ RowsNeverLost'
    <2>1. RowsLocated'
      BY <1>1, <1>rows DEF ReadLast, RowsLocated, TypeOK
    <2>2. FloorKnown'
      BY <1>1, <1>rows DEF ReadLast, FloorKnown
    <2>3. RowsNeverLost'
      BY <1>1, <1>rows DEF ReadLast, RowsNeverLost
    <2> QED
      BY <2>1, <2>2, <2>3
  <1>2. ASSUME NEW w \in Writers, Reserve(w) PROVE RowsLocated' /\ FloorKnown' /\ RowsNeverLost'
    <2>1. RowsLocated'
      BY <1>2, <1>rows DEF Reserve, RowsLocated, TypeOK
    <2>2. FloorKnown'
      BY <1>2, <1>rows DEF Reserve, FloorKnown
    <2>3. RowsNeverLost'
      BY <1>2, <1>rows DEF Reserve, RowsNeverLost
    <2> QED
      BY <2>1, <2>2, <2>3
  <1>3. ASSUME NEW w \in Writers, AppendRow(w) PROVE RowsLocated' /\ FloorKnown' /\ RowsNeverLost'
    <2>1. LastSeq' = LastSeq + 1 /\ RowLsns' = RowLsns \cup {LastSeq + 1}
      BY <1>3, LogGrows DEF AppendRow, TypeOK
    <2>2. RowsLocated'
      BY <1>3, <2>1, SMTT(30) DEF AppendRow, RowsLocated, TypeOK
    <2>3. FloorKnown'
      BY <1>3, <2>1 DEF AppendRow, FloorKnown, TypeOK
    <2>4. RowsNeverLost'
      BY <1>3, <2>1 DEF AppendRow, RowsNeverLost, TypeOK
    <2> QED
      BY <2>2, <2>3, <2>4
  <1>4. ASSUME NEW w \in Writers, AppendRowFails(w) PROVE RowsLocated' /\ FloorKnown' /\ RowsNeverLost'
    <2>1. RowsLocated'
      BY <1>4, <1>rows DEF AppendRowFails, ToIdle, RowsLocated, TypeOK
    <2>2. FloorKnown'
      BY <1>4, <1>rows DEF AppendRowFails, ToIdle, FloorKnown
    <2>3. RowsNeverLost'
      BY <1>4, <1>rows DEF AppendRowFails, ToIdle, RowsNeverLost
    <2> QED
      BY <2>1, <2>2, <2>3
  <1>5. ASSUME NEW w \in Writers, ApplyRow(w) PROVE RowsLocated' /\ FloorKnown' /\ RowsNeverLost'
    <2>1. RowsLocated'
      <3> SUFFICES ASSUME NEW n \in RowLsns
                   PROVE  \/ n \in flushed' \cup resident' \/ poisoned'
                          \/ \E v \in Writers : wpc'[v] \in {"appended", "failing"} /\ wlsn'[v] = n
        BY <1>5, <1>rows DEF ApplyRow, RowsLocated
      <3>1. CASE n \in flushed \cup resident \/ poisoned \/ n = wlsn[w]
        BY <1>5, <3>1 DEF ApplyRow
      <3>2. CASE \E v \in Writers : v # w /\ wpc[v] \in {"appended", "failing"} /\ wlsn[v] = n
        BY <1>5, <3>2 DEF ApplyRow, ToIdle, TypeOK
      <3> QED
        BY <3>1, <3>2 DEF RowsLocated
    <2>2. FloorKnown'
      BY <1>5, <1>rows DEF ApplyRow, FloorKnown
    <2>3. RowsNeverLost'
      BY <1>5, <1>rows DEF ApplyRow, RowsNeverLost
    <2> QED
      BY <2>1, <2>2, <2>3
  <1>6. ASSUME NEW w \in Writers, ApplyRowFails(w) PROVE RowsLocated' /\ FloorKnown' /\ RowsNeverLost'
    <2>1. RowsLocated'
      BY <1>6, <1>rows DEF ApplyRowFails, RowsLocated
    <2>2. FloorKnown'
      BY <1>6, <1>rows DEF ApplyRowFails, FloorKnown
    <2>3. RowsNeverLost'
      BY <1>6, <1>rows DEF ApplyRowFails, RowsNeverLost
    <2> QED
      BY <2>1, <2>2, <2>3
  <1>7. ASSUME NEW w \in Writers, ReleaseFailed(w) PROVE RowsLocated' /\ FloorKnown' /\ RowsNeverLost'
    <2>1. RowsLocated'
      BY <1>7, <1>rows DEF ReleaseFailed, ToIdle, RowsLocated, WritesInOrder, TypeOK
    <2>2. FloorKnown'
      BY <1>7, <1>rows DEF ReleaseFailed, ToIdle, FloorKnown
    <2>3. RowsNeverLost'
      BY <1>7, <1>rows DEF ReleaseFailed, ToIdle, RowsNeverLost
    <2> QED
      BY <2>1, <2>2, <2>3
  <1>8. ASSUME NEW w \in Writers, CancelWrite(w) PROVE RowsLocated' /\ FloorKnown' /\ RowsNeverLost'
    BY <1>8, TruncatorBounds DEF CancelWrite
  <1>9. ASSUME FlushRows PROVE RowsLocated' /\ FloorKnown' /\ RowsNeverLost'
    <2>1. RowsLocated'
      BY <1>9, <1>rows DEF FlushRows, RowsLocated
    <2>2. FloorKnown'
      BY <1>9, <1>rows DEF FlushRows, FloorKnown
    <2>3. RowsNeverLost'
      BY <1>9, <1>rows DEF FlushRows, RowsNeverLost
    <2> QED
      BY <2>1, <2>2, <2>3
  <1>10. ASSUME NEW d \in Defs \cup {NoDef}, PutFunction(d) PROVE RowsLocated' /\ FloorKnown' /\ RowsNeverLost'
    <2>1. RowLsns' = RowLsns
      BY <1>10, LogGrows, TruncatorBounds DEF PutFunction, TypeOK
    <2>2. RowsLocated'
      BY <1>10, <1>rows, <2>1 DEF PutFunction, RowsLocated
    <2>3. FloorKnown'
      BY <1>10, <1>rows, <2>1 DEF PutFunction, FloorKnown
    <2>4. RowsNeverLost'
      BY <1>10, <1>rows, <2>1 DEF PutFunction, RowsNeverLost
    <2> QED
      BY <2>2, <2>3, <2>4
  <1>11. ASSUME ApplyFunction PROVE RowsLocated' /\ FloorKnown' /\ RowsNeverLost'
    <2>1. RowsLocated'
      BY <1>11, <1>rows DEF ApplyFunction, RowsLocated
    <2>2. FloorKnown'
      BY <1>11, <1>rows DEF ApplyFunction, FloorKnown
    <2>3. RowsNeverLost'
      BY <1>11, <1>rows DEF ApplyFunction, RowsNeverLost
    <2> QED
      BY <2>1, <2>2, <2>3
  <1>12. ASSUME CancelFunction PROVE RowsLocated' /\ FloorKnown' /\ RowsNeverLost'
    <2>1. RowsLocated'
      BY <1>12, <1>rows DEF CancelFunction, RowsLocated
    <2>2. FloorKnown'
      BY <1>12, <1>rows DEF CancelFunction, FloorKnown
    <2>3. RowsNeverLost'
      BY <1>12, <1>rows DEF CancelFunction, RowsNeverLost
    <2> QED
      BY <2>1, <2>2, <2>3
  <1>13. ASSUME Capture PROVE RowsLocated' /\ FloorKnown' /\ RowsNeverLost'
    <2>1. RowsLocated'
      BY <1>13, <1>rows DEF Capture, RowsLocated
    <2>2. FloorKnown'
      BY <1>13, <1>rows DEF Capture, FloorKnown
    <2>3. RowsNeverLost'
      BY <1>13, <1>rows DEF Capture, RowsNeverLost
    <2> QED
      BY <2>1, <2>2, <2>3
  <1>14. ASSUME Scan PROVE RowsLocated' /\ FloorKnown' /\ RowsNeverLost'
    <2>1. RowsLocated'
      BY <1>14, <1>rows DEF Scan, RowsLocated
    <2>2. FloorKnown'
      BY <1>14, <1>rows DEF Scan, FloorKnown
    <2>3. RowsNeverLost'
      BY <1>14, <1>rows DEF Scan, RowsNeverLost
    <2> QED
      BY <2>1, <2>2, <2>3
  <1>15. ASSUME Publish PROVE RowsLocated' /\ FloorKnown' /\ RowsNeverLost'
    <2>1. RowsLocated'
      BY <1>15, <1>rows DEF Publish, RowsLocated
    <2>2. FloorKnown'
      BY <1>15, <1>rows DEF Publish, FloorKnown
    <2>3. RowsNeverLost'
      BY <1>15, <1>rows DEF Publish, RowsNeverLost
    <2> QED
      BY <2>1, <2>2, <2>3
  <1>16. ASSUME DropSnapshotPin PROVE RowsLocated' /\ FloorKnown' /\ RowsNeverLost'
    <2>1. RowsLocated'
      BY <1>16, <1>rows DEF DropSnapshotPin, RowsLocated
    <2>2. FloorKnown'
      BY <1>16, <1>rows DEF DropSnapshotPin, FloorKnown
    <2>3. RowsNeverLost'
      BY <1>16, <1>rows DEF DropSnapshotPin, RowsNeverLost
    <2> QED
      BY <2>1, <2>2, <2>3
  <1>17. ASSUME ReadHead PROVE RowsLocated' /\ FloorKnown' /\ RowsNeverLost'
    <2>1. RowsLocated'
      BY <1>17, <1>rows DEF ReadHead, RowsLocated
    <2>2. FloorKnown'
      BY <1>17, <1>rows DEF ReadHead, FloorKnown
    <2>3. RowsNeverLost'
      BY <1>17, <1>rows DEF ReadHead, RowsNeverLost
    <2> QED
      BY <2>1, <2>2, <2>3
  <1>18. ASSUME FlushLagging PROVE RowsLocated' /\ FloorKnown' /\ RowsNeverLost'
    <2>1. RowsLocated'
      BY <1>18, <1>rows DEF FlushLagging, RowsLocated
    <2>2. FloorKnown'
      BY <1>18, <1>rows DEF FlushLagging, FloorKnown
    <2>3. RowsNeverLost'
      BY <1>18, <1>rows DEF FlushLagging, RowsNeverLost
    <2> QED
      BY <2>1, <2>2, <2>3
  <1>19. ASSUME AskInflight PROVE RowsLocated' /\ FloorKnown' /\ RowsNeverLost'
    <2>1. RowsLocated'
      BY <1>19, <1>rows DEF AskInflight, RowsLocated
    <2>2. ASSUME NEW n \in RowLsns, n \notin flushed \cup resident, ~poisoned
          PROVE  \E f \in Inflight : f =< n
      <3>1. PICK w \in Writers : wpc[w] \in {"appended", "failing"} /\ wlsn[w] = n
        BY <2>2 DEF RowsLocated
      <3>2. wlast[w] + 1 \in Inflight /\ wlast[w] + 1 =< n
        BY <3>1 DEF Inflight, WritesInOrder, TypeOK
      <3> QED
        BY <3>2
    <2>3. FloorKnown'
      BY <1>19, <1>rows, <2>2 DEF AskInflight, FloorKnown
    <2>4. RowsNeverLost'
      BY <1>19, <1>rows DEF AskInflight, RowsNeverLost
    <2> QED
      BY <2>1, <2>3, <2>4
  <1>20. ASSUME AskUnflushed PROVE RowsLocated' /\ FloorKnown' /\ RowsNeverLost'
    <2>1. RowsLocated'
      BY <1>20, <1>rows DEF AskUnflushed, RowsLocated
    <2>2. FloorKnown'
      <3>1. CASE poisoned
        BY <1>20, <3>1 DEF AskUnflushed, EndRun, FloorKnown
      <3>2. CASE ~poisoned
        <4> DEFINE S == {tfloor} \cup tinflight \cup resident
        <4>1. S \in SUBSET Nat
          BY DEF TypeOK
        <4>2. tfloor \in S /\ tinflight \subseteq S /\ resident \subseteq S /\ S # {}
          OBVIOUS
        <4>3. tfloor' = Min(S) /\ tpc' = "retention"
          BY <1>20, <3>2 DEF AskUnflushed
        <4> HIDE DEF S
        <4>4. Min(S) \in S /\ \A y \in S : Min(S) =< y
          BY <4>1, <4>2, MinOfNats
        <4>5. ASSUME NEW n \in RowLsns, n < Min(S) PROVE n \in flushed
          <5>1. n \in Nat /\ tfloor \in Nat /\ thead \in Nat /\ tfloor =< thead + 1
            BY DEF TypeOK
          <5>min. Min(S) \in Nat
            BY <4>1, <4>4
          <5>2. ASSUME NEW y \in S, y =< n PROVE FALSE
            <6>1. y \in Nat /\ Min(S) =< y
              BY <4>1, <4>4
            <6> QED
              BY <4>5, <5>min, <5>1, <5>2, <6>1
          <5>3. n =< thead
            BY <4>2, <5>1, <5>2
          <5>4. n \notin resident /\ \A f \in tinflight : ~(f =< n)
            BY <4>2, <5>1, <5>2
          <5> QED
            BY <1>20, <3>2, <5>3, <5>4 DEF AskUnflushed, FloorKnown
        <4> QED
          BY <1>20, <1>rows, <4>3, <4>5 DEF AskUnflushed, FloorKnown
      <3> QED
        BY <3>1, <3>2
    <2>3. RowsNeverLost'
      BY <1>20, <1>rows DEF AskUnflushed, RowsNeverLost
    <2> QED
      BY <2>1, <2>2, <2>3
  <1>21. ASSUME AskRetention PROVE RowsLocated' /\ FloorKnown' /\ RowsNeverLost'
    <2>1. RowsLocated'
      BY <1>21, <1>rows DEF AskRetention, RowsLocated
    <2>2. tfloor' =< tfloor
      <3> DEFINE m == Max({0, thead + 1 - Retain})
      <3>1. thead + 1 - Retain \in Int /\ tfloor \in Int
        BY TruncatorBounds DEF TypeOK
      <3>2. m \in Int
        BY <3>1, MaxMinPair
      <3>3. tfloor' = Min({tfloor, m})
        BY <1>21 DEF AskRetention
      <3> HIDE DEF m
      <3>4. Min({tfloor, m}) = IF tfloor =< m THEN tfloor ELSE m
        BY <3>1, <3>2 DEF Min
      <3> QED
        BY <3>1, <3>2, <3>3, <3>4
    <2>3. tfloor \in Int /\ tfloor' \in Int
      BY <1>type DEF TypeOK
    <2>4. FloorKnown'
      BY <1>21, <1>rows, <2>2, <2>3 DEF AskRetention, FloorKnown, RowLsns
    <2>5. RowsNeverLost'
      BY <1>21, <1>rows DEF AskRetention, RowsNeverLost
    <2> QED
      BY <2>1, <2>4, <2>5
  <1>22. ASSUME AskSnapshots PROVE RowsLocated' /\ FloorKnown' /\ RowsNeverLost'
    <2>1. RowsLocated'
      BY <1>22, <1>rows DEF AskSnapshots, RowsLocated
    <2>2. tfloor' =< tfloor
      <3>1. tfloor \in Int
        BY DEF TypeOK
      <3>2. CASE published = NoLsn
        BY <1>22, <3>1, <3>2 DEF AskSnapshots
      <3>3. CASE published # NoLsn
        <4>1. published + 1 \in Int
          BY <3>3 DEF TypeOK
        <4>2. Min({tfloor, published + 1})
                = IF tfloor =< published + 1 THEN tfloor ELSE published + 1
          BY <3>1, <4>1 DEF Min
        <4> QED
          BY <1>22, <3>1, <3>3, <4>1, <4>2 DEF AskSnapshots
      <3> QED
        BY <3>2, <3>3
    <2>3. tfloor \in Int /\ tfloor' \in Int
      BY <1>type DEF TypeOK
    <2>4. FloorKnown'
      BY <1>22, <1>rows, <2>2, <2>3 DEF AskSnapshots, FloorKnown, RowLsns
    <2>5. RowsNeverLost'
      BY <1>22, <1>rows DEF AskSnapshots, RowsNeverLost
    <2> QED
      BY <2>1, <2>4, <2>5
  <1>23. ASSUME SourceRefuses PROVE RowsLocated' /\ FloorKnown' /\ RowsNeverLost'
    <2>1. RowsLocated'
      BY <1>23, <1>rows DEF SourceRefuses, EndRun, RowsLocated
    <2>2. FloorKnown'
      BY <1>23, <1>rows DEF SourceRefuses, EndRun, FloorKnown
    <2>3. RowsNeverLost'
      BY <1>23, <1>rows DEF SourceRefuses, EndRun, RowsNeverLost
    <2> QED
      BY <2>1, <2>2, <2>3
  <1>24. ASSUME AskCheckpoint PROVE RowsLocated' /\ FloorKnown' /\ RowsNeverLost'
    <2>1. RowLsns' = RowLsns
      <3>1. CASE log' = log
        BY <3>1, <1>rows
      <3>2. CASE log' = Append(log, fstate)
        BY <3>2, LogGrows, TruncatorBounds DEF TypeOK
      <3> QED
        BY <1>24, <3>1, <3>2 DEF AskCheckpoint
    <2>2. RowsLocated'
      BY <1>24, <2>1 DEF AskCheckpoint, RowsLocated
    <2>3. tfloor' =< tfloor
      <3>1. tfloor \in Nat
        BY DEF TypeOK
      <3>2. Min({tfloor, LastSeq + 1}) =< tfloor
        BY <3>1 DEF Min
      <3> QED
        BY <1>24, <3>1, <3>2 DEF AskCheckpoint, EndRun
    <2>4. tfloor' \in Int
      BY <1>type DEF TypeOK
    <2>5. FloorKnown'
      BY <1>24, <2>1, <2>3, <2>4 DEF AskCheckpoint, EndRun, FloorKnown, TypeOK
    <2>6. RowsNeverLost'
      BY <1>24, <2>1 DEF AskCheckpoint, RowsNeverLost
    <2> QED
      BY <2>2, <2>5, <2>6
  <1>25. ASSUME Truncate PROVE RowsLocated' /\ FloorKnown' /\ RowsNeverLost'
    <2>1. RowsLocated'
      BY <1>25, <1>rows DEF Truncate, RowsLocated
    <2>2. FloorKnown'
      BY <1>25 DEF Truncate, EndRun, FloorKnown
    <2>3. TruncationFloor \in Nat /\ TruncationFloor =< tfloor
      BY FloorBound
    <2>4. gone' = gone \/ (gone' \in Nat /\ gone' < tfloor)
      BY <1>25, <2>3 DEF Truncate, TypeOK
    <2>5. RowsNeverLost'
      BY <1>25, <1>rows, <2>4 DEF Truncate, FloorKnown, RowsNeverLost, RowLsns, TypeOK
    <2> QED
      BY <2>1, <2>2, <2>5
  <1>26. ASSUME Restart PROVE RowsLocated' /\ FloorKnown' /\ RowsNeverLost'
    <2>1. RowsLocated'
      BY <1>26, <1>rows, SMTT(30) DEF Restart, RowsLocated, RowsNeverLost, RowLsns, TypeOK
    <2>2. FloorKnown'
      BY <1>26 DEF Restart, EndRun, FloorKnown
    <2>3. RowsNeverLost'
      BY <1>26, <1>rows DEF Restart, RowsNeverLost
    <2> QED
      BY <2>1, <2>2, <2>3
  <1>27. ASSUME UNCHANGED vars PROVE RowsLocated' /\ FloorKnown' /\ RowsNeverLost'
    BY <1>27, <1>rows DEF vars, RowsLocated, FloorKnown, RowsNeverLost
  <1> QED
    BY NextCases, <1>1, <1>2, <1>3, <1>4, <1>5, <1>6, <1>7, <1>8, <1>9,
       <1>10, <1>11, <1>12, <1>13, <1>14, <1>15, <1>16, <1>17, <1>18,
       <1>19, <1>20, <1>21, <1>22, <1>23, <1>24, <1>25, <1>26, <1>27

\* As long as no caller drops the future of a write, the truncator never removes
\* a row's entry before the row is in a durable segment: for any number of
\* writers, with in-flight and failed writes, flushes, publications, restarts
\* and function checkpoints in any order.
THEOREM RowsAreNeverLost ==
  ASSUME ~CallerMayCancel
  PROVE  Spec => []RowsNeverLost
  <1>1. Init => RowsInv
    <2> SUFFICES ASSUME Init PROVE RowsInv
      OBVIOUS
    <2>1. RowLsns = {}
      BY DEF Init, RowLsns, LastSeq
    <2> QED
      BY <2>1, TypeInit DEF Init, RowsInv, WritesInOrder, RowsLocated, FloorKnown,
                            RowsNeverLost
  <1>2. RowsInv /\ [Next]_vars => RowsInv'
    BY TypeNext, OrderNext, RowsNext DEF RowsInv
  <1>3. RowsInv => RowsNeverLost
    BY DEF RowsInv
  <1> QED
    BY <1>1, <1>2, <1>3, PTL DEF Spec

(***************************************************************************)
(* The function store                                                      *)
(***************************************************************************)

\* The retained log holds x at or above a sequence.
Held(x, from) == \E n \in 1..LastSeq : n >= from /\ log[n] = x

\* The live definition, and the one being put, have an entry in the retained
\* log, and above the floor of a truncation that is past its checkpoint.
LiveInv ==
  /\ fstate # NoDef => Held(fstate, gone + 1)
  /\ gate # "free" => Held(gate, gone + 1)
  /\ tpc = "truncate" => /\ fstate # NoDef => Held(fstate, tfloor)
                         /\ gate # "free" => Held(gate, tfloor)

\* What is left besides the steps that touch neither the function store nor the
\* log, and leave a truncation past its checkpoint alone.
LEMMA FunctionFrame ==
  ASSUME [Next]_vars
  PROVE  \/ /\ UNCHANGED <<log, gone, gate, fstate>>
            /\ tpc' = "truncate" => UNCHANGED <<tpc, tfloor>>
         \/ \E w \in Writers : AppendRow(w)
         \/ \E d \in Defs \cup {NoDef} : PutFunction(d)
         \/ ApplyFunction \/ CancelFunction \/ AskCheckpoint \/ Truncate \/ Restart
  <1> USE DEF wal, writer, function, publisher, truncator
  <1>1. ASSUME NEW w \in Writers, WriterStep(w)
        PROVE  AppendRow(w) \/ UNCHANGED <<log, gone, gate, fstate, tpc, tfloor>>
    BY <1>1 DEF WriterStep, ReadLast, Reserve, AppendRowFails, ApplyRow, ApplyRowFails,
      ReleaseFailed, CancelWrite
  <1>2. CASE FlushRows \/ Capture \/ Scan \/ Publish \/ DropSnapshotPin
    BY <1>2 DEF FlushRows, Capture, Scan, Publish, DropSnapshotPin
  <1>3. CASE \/ ReadHead \/ FlushLagging \/ AskInflight \/ AskUnflushed
             \/ AskRetention \/ AskSnapshots \/ SourceRefuses
    BY <1>3 DEF ReadHead, FlushLagging, AskInflight, AskUnflushed, AskRetention,
      AskSnapshots, SourceRefuses, EndRun
  <1>4. CASE UNCHANGED vars
    BY <1>4 DEF vars
  <1> QED
    BY <1>1, <1>2, <1>3, <1>4 DEF Next, TruncatorStep

\* An append keeps every entry and adds its own at the new head.
LEMMA EntriesKept ==
  ASSUME TypeOK, NEW x \in {"row", NoDef} \cup Defs, log' = Append(log, x)
  PROVE  /\ LastSeq \in Nat /\ LastSeq' = LastSeq + 1
         /\ \A i \in 1..LastSeq : log'[i] = log[i]
         /\ log'[LastSeq + 1] = x
  BY AppendProperties, LenProperties DEF TypeOK, LastSeq

\* So what the log holds it still holds, and the new entry is above every floor.
LEMMA HeldGrows ==
  ASSUME TypeOK, NEW x \in {"row", NoDef} \cup Defs, log' = Append(log, x)
  PROVE  /\ \A y, from : Held(y, from) => \E n \in 1..LastSeq' : n >= from /\ log'[n] = y
         /\ \A from \in Nat : from =< LastSeq + 1 =>
              \E n \in 1..LastSeq' : n >= from /\ log'[n] = x
  <1>1. /\ LastSeq \in Nat /\ LastSeq' = LastSeq + 1
        /\ \A i \in 1..LastSeq : log'[i] = log[i]
        /\ log'[LastSeq + 1] = x
    BY EntriesKept
  <1>2. ASSUME NEW y, NEW from, Held(y, from)
        PROVE  \E n \in 1..LastSeq' : n >= from /\ log'[n] = y
    <2>1. PICK n \in 1..LastSeq : n >= from /\ log[n] = y
      BY <1>2 DEF Held
    <2>2. log'[n] = y
      BY <1>1, <2>1
    <2>3. n \in 1..LastSeq'
      BY <1>1
    <2> QED
      BY <2>1, <2>2, <2>3
  <1>3. ASSUME NEW from \in Nat, from =< LastSeq + 1
        PROVE  \E n \in 1..LastSeq' : n >= from /\ log'[n] = x
    <2>1. LastSeq + 1 \in 1..LastSeq' /\ LastSeq + 1 >= from
      BY <1>1, <1>3
    <2> QED
      BY <1>1, <2>1
  <1> QED
    BY <1>2, <1>3

\* The floor of a run is at most one above the head.
LEMMA FloorBelowAppend ==
  ASSUME TypeOK
  PROVE  /\ tfloor \in Nat /\ tfloor =< LastSeq + 1
         /\ gone \in Nat /\ gone + 1 \in Nat /\ gone + 1 =< LastSeq + 1
         /\ LastSeq \in Nat
  BY LenProperties DEF TypeOK, LastSeq

\* Truncation keeps everything at or above the run's floor.
LEMMA TruncateKeeps ==
  ASSUME TypeOK, Truncate
  PROVE  gone' = gone \/ (gone' \in Nat /\ gone' < tfloor)
  <1>1. TruncationFloor \in Nat /\ TruncationFloor =< tfloor
    BY FloorBound
  <1> QED
    BY <1>1 DEF Truncate, TypeOK

\* Every step keeps the live definition in the retained log.
LEMMA LiveNext ==
  ASSUME TypeOK, LiveInv, [Next]_vars
  PROVE  LiveInv'
  <1> USE FloorBelowAppend DEF wal, writer, function, publisher, truncator
  <1>1. CASE UNCHANGED <<log, gone, gate, fstate>> /\ (tpc' = "truncate" => UNCHANGED <<tpc, tfloor>>)
    BY <1>1 DEF LiveInv, Held, LastSeq
  <1>2. ASSUME NEW w \in Writers, AppendRow(w) PROVE LiveInv'
    <2>1. log' = Append(log, "row") /\ UNCHANGED <<gone, gate, fstate, tpc, tfloor>>
      BY <1>2 DEF AppendRow
    <2> QED
      BY <2>1, HeldGrows, ZenonT(40) DEF LiveInv, Held
  <1>3. ASSUME NEW d \in Defs \cup {NoDef}, PutFunction(d) PROVE LiveInv'
    <2>1. /\ log' = Append(log, d) /\ gate' = d /\ d \in {"row", NoDef} \cup Defs
          /\ UNCHANGED <<gone, fstate, tpc, tfloor>>
      BY <1>3 DEF PutFunction
    <2> QED
      BY <2>1, HeldGrows, ZenonT(40) DEF LiveInv, Held
  <1>4. CASE ApplyFunction
    <2>1. gate # "free"
      BY <1>4, TruncatorBounds DEF ApplyFunction
    <2> QED
      BY <1>4, <2>1 DEF ApplyFunction, LiveInv, Held, LastSeq
  <1>5. CASE CancelFunction
    BY <1>5 DEF CancelFunction, LiveInv, Held, LastSeq
  <1>6. CASE AskCheckpoint
    <2>0. UNCHANGED <<gone, gate, fstate>>
      BY <1>6 DEF AskCheckpoint
    <2>1. CASE log' = log /\ tpc' # "truncate"
      BY <2>0, <2>1 DEF LiveInv, Held, LastSeq
    <2>2. CASE log' = log /\ tpc' = "truncate" /\ fstate = NoDef /\ gate = "free"
      BY <2>0, <2>2 DEF LiveInv, Held, LastSeq
    <2>3. CASE /\ log' = Append(log, fstate) /\ fstate # NoDef /\ gate = "free"
               /\ tfloor' = Min({tfloor, LastSeq + 1}) /\ tpc' = "truncate"
      <3>1. fstate \in {"row", NoDef} \cup Defs
        BY DEF TypeOK
      <3>2. tfloor' \in Nat /\ tfloor' =< LastSeq + 1
        <4>1. LastSeq + 1 \in Int /\ tfloor \in Int
          OBVIOUS
        <4> QED
          BY <2>3, <4>1, MaxMinPair
      <3> QED
        BY <2>0, <2>3, <3>1, <3>2, HeldGrows, ZenonT(40) DEF LiveInv, Held
    <2> QED
      BY <1>6, <2>1, <2>2, <2>3 DEF AskCheckpoint, EndRun
  <1>7. CASE Truncate
    <2>1. /\ UNCHANGED <<log, gate, fstate>> /\ tpc' = "idle" /\ tpc = "truncate"
      BY <1>7 DEF Truncate, EndRun
    <2>2. ASSUME NEW x, Held(x, gone + 1), Held(x, tfloor) PROVE Held(x, gone + 1)'
      BY <1>7, <2>1, <2>2, TruncateKeeps DEF Held, LastSeq
    <2> QED
      BY <2>1, <2>2 DEF LiveInv
  <1>8. CASE Restart
    <2>1. UNCHANGED <<log, gone>> /\ gate' = "free" /\ fstate' = Replayed /\ tpc' = "idle"
      BY <1>8 DEF Restart, EndRun
    <2>2. ASSUME Replayed # NoDef PROVE Held(Replayed, gone + 1)
      <3> DEFINE mine == {n \in (gone + 1)..LastSeq : log[n] # "row"}
      <3>1. mine # {} /\ Replayed = log[Max(mine)]
        BY <2>2 DEF Replayed
      <3>2. LastSeq \in Nat /\ mine \in SUBSET (0..LastSeq)
        BY LenProperties DEF TypeOK, LastSeq
      <3>3. Max(mine) \in mine
        <4> HIDE DEF mine
        <4> QED BY <3>1, <3>2, MaxOfNats
      <3>4. Max(mine) \in 1..LastSeq /\ Max(mine) >= gone + 1
        <4>1. \A n \in mine : n \in 1..LastSeq /\ n >= gone + 1
          OBVIOUS
        <4> HIDE DEF mine
        <4> QED BY <3>3, <4>1
      <3> QED
        BY <3>1, <3>4 DEF Held
    <2> QED
      BY <2>1, <2>2 DEF LiveInv, Held, LastSeq
  <1> QED
    BY FunctionFrame, <1>1, <1>2, <1>3, <1>4, <1>5, <1>6, <1>7, <1>8

\* For any number of writers and versions, with cancelled calls, restarts and
\* truncations in any order, the definition the function store serves has an
\* entry in the retained log: checkpoint re-appends it under the write gate
\* before the entries below the floor are removed.
THEOREM LiveDefinitionIsKept == Spec => []LiveDefinitionKept
  <1> DEFINE Inv == TypeOK /\ WritesInOrder /\ LiveInv
  <1>1. Init => Inv
    BY TypeInit DEF Init, WritesInOrder, LiveInv
  <1>2. Inv /\ [Next]_vars => Inv'
    BY TypeNext, OrderNext, LiveNext
  <1>3. Inv => LiveDefinitionKept
    BY FloorBelowAppend, LenProperties DEF LiveInv, Held, LiveDefinitionKept, LastSeq, TypeOK
  <1> QED
    BY <1>1, <1>2, <1>3, PTL DEF Spec

\* x is what replaying the entries of l above g leaves: its last definition.
IsReplay(l, g, x) ==
  LET mine == {n \in (g + 1)..Len(l) : l[n] # "row"}
  IN \/ mine = {} /\ x = NoDef
     \/ \E n \in mine : (\A m \in mine : m =< n) /\ x = l[n]

\* What the log says the store holds: the definition being put, once appended.
Current == IF gate = "free" THEN fstate ELSE gate

\* Replay yields the current definition, and a truncation past its checkpoint
\* keeps some definition entry, unless there is nothing to keep.
SurviveInv ==
  /\ IsReplay(log, gone, Current)
  /\ tpc = "truncate" =>
       Current = NoDef \/ \E n \in 1..LastSeq : n >= tfloor /\ log[n] # "row"

\* Replayed is the value IsReplay describes.
LEMMA ReplayIs ==
  ASSUME TypeOK
  PROVE  IsReplay(log, gone, Replayed) /\ \A x : IsReplay(log, gone, x) => x = Replayed
  <1> DEFINE mine == {n \in (gone + 1)..LastSeq : log[n] # "row"}
  <1>1. LastSeq \in Nat /\ mine \in SUBSET (0..LastSeq) /\ mine \in SUBSET Nat
    BY LenProperties DEF TypeOK, LastSeq
  <1>2. CASE mine = {}
    BY <1>2 DEF IsReplay, Replayed, LastSeq
  <1>3. CASE mine # {}
    <2>1. Max(mine) \in mine /\ \A m \in mine : m =< Max(mine)
      <3> HIDE DEF mine
      <3> QED BY <1>1, <1>3, MaxOfNats
    <2>2. Replayed = log[Max(mine)]
      BY <1>3 DEF Replayed
    <2>3. ASSUME NEW n \in mine, \A m \in mine : m =< n PROVE n = Max(mine)
      <3> HIDE DEF mine
      <3>1. n \in Nat /\ Max(mine) \in Nat
        BY <1>1, <2>1, <2>3
      <3> QED
        BY <2>1, <2>3, <3>1
    <2>4. IsReplay(log, gone, Replayed)
      BY <2>1, <2>2 DEF IsReplay, LastSeq
    <2>5. ASSUME NEW x, IsReplay(log, gone, x) PROVE x = Replayed
      <3>1. PICK n \in mine : (\A m \in mine : m =< n) /\ x = log[n]
        BY <1>3, <2>5 DEF IsReplay, LastSeq
      <3> QED
        BY <2>2, <2>3, <3>1
    <2> QED
      BY <2>4, <2>5
  <1> QED
    BY <1>2, <1>3

\* A row leaves the replayed definition alone; a definition entry replaces it.
LEMMA ReplayGrows ==
  ASSUME TypeOK, NEW x \in {"row", NoDef} \cup Defs, log' = Append(log, x)
  PROVE  /\ x = "row" => \A y : IsReplay(log, gone, y) => IsReplay(log', gone, y)
         /\ x # "row" => IsReplay(log', gone, x)
  <1> DEFINE old == {n \in (gone + 1)..Len(log) : log[n] # "row"}
             new == {n \in (gone + 1)..Len(log') : log'[n] # "row"}
  <1>1. /\ LastSeq = Len(log) /\ Len(log) \in Nat /\ Len(log') = Len(log) + 1
        /\ \A i \in 1..Len(log) : log'[i] = log[i]
        /\ log'[Len(log) + 1] = x
        /\ gone \in Nat /\ gone =< Len(log)
    BY EntriesKept DEF LastSeq, TypeOK
  <1>2. ASSUME x = "row" PROVE \A y : IsReplay(log, gone, y) => IsReplay(log', gone, y)
    <2>1. new = old /\ \A n \in old : log'[n] = log[n]
      BY <1>1, <1>2
    <2> QED
      BY <2>1 DEF IsReplay
  <1>3. ASSUME x # "row" PROVE IsReplay(log', gone, x)
    <2>1. Len(log) + 1 \in new /\ \A m \in new : m =< Len(log) + 1
      BY <1>1, <1>3
    <2> QED
      BY <1>1, <2>1 DEF IsReplay
  <1> QED
    BY <1>2, <1>3

\* Removing a prefix changes nothing if a definition entry stays, or if there
\* was no definition.
LEMMA ReplayTruncated ==
  ASSUME NEW l, Len(l) \in Nat, NEW g \in Nat, NEW h \in Nat, g < h, NEW x,
         IsReplay(l, g, x),
         x = NoDef \/ \E n \in 1..Len(l) : n > h /\ l[n] # "row"
  PROVE  IsReplay(l, h, x)
  <1> DEFINE old == {i \in (g + 1)..Len(l) : l[i] # "row"}
             new == {i \in (h + 1)..Len(l) : l[i] # "row"}
  <1>1. new \subseteq old /\ old \in SUBSET Nat
    OBVIOUS
  <1>2. CASE new = {}
    <2>1. x = NoDef
      BY <1>2
    <2> QED
      BY <1>2, <2>1 DEF IsReplay
  <1>3. CASE new # {}
    <2>1. PICK n \in old : (\A m \in old : m =< n) /\ x = l[n]
      BY <1>1, <1>3 DEF IsReplay
    <2>2. n \in new
      BY <1>1, <1>3, <2>1
    <2> QED
      BY <1>1, <2>1, <2>2 DEF IsReplay
  <1> QED
    BY <1>2, <1>3

\* While no caller drops its future, every step keeps replay and store in step.
LEMMA SurviveNext ==
  ASSUME ~CallerMayCancel, TypeOK, SurviveInv, [Next]_vars
  PROVE  SurviveInv'
  <1> USE FloorBelowAppend DEF wal, writer, function, publisher, truncator
  <1>1. CASE UNCHANGED <<log, gone, gate, fstate>> /\ (tpc' = "truncate" => UNCHANGED <<tpc, tfloor>>)
    BY <1>1 DEF SurviveInv, Current, LastSeq
  <1>2. ASSUME NEW w \in Writers, AppendRow(w) PROVE SurviveInv'
    <2>1. log' = Append(log, "row") /\ UNCHANGED <<gone, gate, fstate, tpc, tfloor>>
      BY <1>2 DEF AppendRow
    <2>2. Current' = Current
      BY <2>1 DEF Current
    <2>3. IsReplay(log', gone', Current')
      BY <2>1, <2>2, ReplayGrows DEF SurviveInv
    <2>4. /\ LastSeq \in Nat /\ LastSeq' = LastSeq + 1
          /\ \A i \in 1..LastSeq : log'[i] = log[i]
      BY <2>1, EntriesKept
    <2>5. ASSUME tpc = "truncate", Current # NoDef
          PROVE  \E n \in 1..LastSeq' : n >= tfloor /\ log'[n] # "row"
      BY <2>4, <2>5 DEF SurviveInv
    <2> QED
      BY <2>1, <2>2, <2>3, <2>5 DEF SurviveInv
  <1>3. ASSUME NEW d \in Defs \cup {NoDef}, PutFunction(d) PROVE SurviveInv'
    <2>1. /\ log' = Append(log, d) /\ gate' = d /\ d \in {"row", NoDef} \cup Defs
          /\ UNCHANGED <<gone, fstate, tpc, tfloor>> /\ d # "row" /\ d # "free"
      BY <1>3, TruncatorBounds DEF PutFunction
    <2>2. IsReplay(log', gone', d) /\ Current' = d
      BY <2>1, ReplayGrows DEF Current
    <2>3. \E n \in 1..LastSeq' : n >= tfloor' /\ log'[n] # "row"
      BY <2>1, HeldGrows
    <2> QED
      BY <2>2, <2>3 DEF SurviveInv
  <1>4. CASE ApplyFunction
    <2>1. Current' = Current /\ UNCHANGED <<log, gone, tpc, tfloor>>
      BY <1>4, TruncatorBounds DEF ApplyFunction, Current
    <2> QED
      BY <2>1 DEF SurviveInv, LastSeq
  <1>5. CASE CancelFunction
    BY <1>5 DEF CancelFunction
  <1>6. CASE AskCheckpoint
    <2>0. UNCHANGED <<gone, gate, fstate>> /\ Current' = Current
      BY <1>6 DEF AskCheckpoint, Current
    <2>1. CASE log' = log /\ tpc' # "truncate"
      BY <2>0, <2>1 DEF SurviveInv
    <2>2. CASE log' = log /\ tpc' = "truncate" /\ fstate = NoDef /\ gate = "free"
      BY <2>0, <2>2 DEF SurviveInv, Current
    <2>3. CASE /\ log' = Append(log, fstate) /\ fstate # NoDef /\ gate = "free"
               /\ tfloor' = Min({tfloor, LastSeq + 1}) /\ tpc' = "truncate"
      <3>1. fstate \in {"row", NoDef} \cup Defs /\ fstate # "row" /\ Current' = fstate
        BY <2>0, <2>3, TruncatorBounds DEF TypeOK, Current
      <3>2. tfloor' \in Nat /\ tfloor' =< LastSeq + 1
        <4>1. LastSeq + 1 \in Int /\ tfloor \in Int
          OBVIOUS
        <4> QED
          BY <2>3, <4>1, MaxMinPair
      <3>3. \E n \in 1..LastSeq' : n >= tfloor' /\ log'[n] # "row"
        BY <2>3, <3>1, <3>2, HeldGrows
      <3>4. IsReplay(log', gone', Current')
        BY <2>0, <2>3, <3>1, ReplayGrows
      <3> QED
        BY <3>3, <3>4 DEF SurviveInv
    <2> QED
      BY <1>6, <2>1, <2>2, <2>3 DEF AskCheckpoint, EndRun
  <1>7. CASE Truncate
    <2>1. /\ UNCHANGED <<log, gate, fstate>> /\ tpc' = "idle" /\ tpc = "truncate"
          /\ Current' = Current
      BY <1>7 DEF Truncate, EndRun, Current
    <2>2. CASE gone' = gone
      BY <2>1, <2>2 DEF SurviveInv
    <2>3. CASE gone' \in Nat /\ gone' > gone /\ gone' < tfloor
      <3>1. Len(log) \in Nat /\ LastSeq = Len(log) /\ gone \in Nat
        BY LenProperties DEF TypeOK, LastSeq
      <3>2. \/ Current = NoDef
            \/ \E n \in 1..Len(log) : n > gone' /\ log[n] # "row"
        BY <2>1, <2>3, <3>1 DEF SurviveInv
      <3>3. IsReplay(log, gone', Current)
        BY <2>3, <3>1, <3>2, ReplayTruncated DEF SurviveInv
      <3> QED
        BY <2>1, <3>3 DEF SurviveInv
    <2> QED
      BY <1>7, <2>2, <2>3, TruncateKeeps DEF Truncate
  <1>8. CASE Restart
    <2>1. UNCHANGED <<log, gone>> /\ gate' = "free" /\ fstate' = Replayed /\ tpc' = "idle"
      BY <1>8 DEF Restart, EndRun
    <2> QED
      BY <2>1, ReplayIs DEF SurviveInv, Current
  <1> QED
    BY FunctionFrame, <1>1, <1>2, <1>3, <1>4, <1>5, <1>6, <1>7, <1>8

\* While no caller drops the future of a put or a remove, replaying the retained
\* log gives exactly the definition callers were acknowledged, removals included,
\* whatever was truncated and however often the process restarted.
THEOREM FunctionsDoSurvive ==
  ASSUME ~CallerMayCancel
  PROVE  Spec => []FunctionsSurvive
  <1> DEFINE Inv == TypeOK /\ WritesInOrder /\ SurviveInv
  <1>1. Init => Inv
    <2> SUFFICES ASSUME Init PROVE Inv
      OBVIOUS
    <2>1. {n \in (gone + 1)..Len(log) : log[n] # "row"} = {}
      BY DEF Init
    <2>2. SurviveInv
      BY <2>1 DEF Init, SurviveInv, IsReplay, Current
    <2> QED
      BY <2>2, TypeInit DEF Init, WritesInOrder
  <1>2. Inv /\ [Next]_vars => Inv'
    BY TypeNext, OrderNext, SurviveNext
  <1>3. Inv => FunctionsSurvive
    BY ReplayIs DEF SurviveInv, Current, FunctionsSurvive
  <1> QED
    BY <1>1, <1>2, <1>3, PTL DEF Spec

(***************************************************************************)
(* The snapshot publisher                                                  *)
(***************************************************************************)

\* The rows whose write returned Ok or still may.
Settling == acked \cup {wlsn[w] : w \in {v \in Writers : wpc[v] = "appended"}}

\* An acknowledged row is in a partition or a segment, and a truncation run
\* knows of these rows what FloorKnown says of all rows while none is cancelled.
SettlingKnown ==
  /\ Settling \subseteq RowLsns
  /\ acked \subseteq resident \cup flushed
  /\ \A n \in Settling : n =< gone => n \in flushed
  /\ tpc = "unflushed" =>
       \A n \in Settling : n =< thead =>
         n \in flushed \cup resident \/ \E f \in tinflight : f =< n
  /\ tpc \in {"retention", "snapshots", "readers", "truncate"} =>
       \A n \in Settling : n < tfloor => n \in flushed

\* The rows hold every acknowledged one up to lsn, and no write still to be
\* acknowledged lies there.
Covers(lsn, rows) ==
  /\ \A n \in acked : n =< lsn => n \in rows
  /\ \A w \in Writers : wpc[w] = "appended" => lsn < wlsn[w]

\* What the publisher knows at each of its steps.
CoverInv ==
  /\ spc # "idle" => \A w \in Writers : wpc[w] = "appended" => slsn < wlsn[w]
  /\ spc \in {"scanned", "published"} => Covers(slsn, scanned)
  /\ published # NoLsn => Covers(published, base)

\* The steps of a write: only AppendRow puts an entry into its hands, and only
\* ApplyRow acknowledges one.
LEMMA WriteStep ==
  ASSUME TypeOK, [Next]_vars
  PROVE  /\ \A w \in Writers : wpc'[w] = "appended" =>
              \/ AppendRow(w) /\ wlsn'[w] = LastSeq + 1
              \/ wpc[w] = "appended" /\ wlsn'[w] = wlsn[w]
         /\ \/ acked' = acked
            \/ \E w \in Writers : /\ wpc[w] = "appended" /\ acked' = acked \cup {wlsn[w]}
                                  /\ wlsn[w] \in resident'
  <1> USE DEF wal, writer, function, publisher, truncator
  <1>1. ASSUME NEW v \in Writers, WriterStep(v), NEW w \in Writers, wpc'[w] = "appended"
        PROVE  \/ AppendRow(w) /\ wlsn'[w] = LastSeq + 1
               \/ wpc[w] = "appended" /\ wlsn'[w] = wlsn[w]
    <2> USE <1>1 DEF TypeOK, ToIdle
    <2>1. CASE AppendRow(v)
      BY <2>1 DEF AppendRow
    <2>2. CASE ReadLast(v) \/ Reserve(v)
      BY <2>2 DEF ReadLast, Reserve
    <2>3. CASE AppendRowFails(v)
      BY <2>3 DEF AppendRowFails
    <2>4. CASE ApplyRow(v)
      BY <2>4 DEF ApplyRow
    <2>5. CASE ApplyRowFails(v)
      BY <2>5 DEF ApplyRowFails
    <2>6. CASE ReleaseFailed(v)
      BY <2>6 DEF ReleaseFailed
    <2>7. CASE CancelWrite(v)
      BY <2>7 DEF CancelWrite
    <2> QED
      BY <2>1, <2>2, <2>3, <2>4, <2>5, <2>6, <2>7 DEF WriterStep
  <1>2. ASSUME NEW v \in Writers, WriterStep(v)
        PROVE  acked' = acked \/ (/\ wpc[v] = "appended" /\ acked' = acked \cup {wlsn[v]}
                                  /\ wlsn[v] \in resident')
    BY <1>2 DEF WriterStep, ReadLast, Reserve, AppendRow, AppendRowFails, ApplyRow,
      ApplyRowFails, ReleaseFailed, CancelWrite
  <1>3. CASE Restart
    BY <1>3 DEF Restart
  <1>4. CASE \/ FlushRows \/ \E d \in Defs \cup {NoDef} : PutFunction(d)
             \/ ApplyFunction \/ CancelFunction
             \/ Capture \/ Scan \/ Publish \/ DropSnapshotPin
    BY <1>4 DEF FlushRows, PutFunction, ApplyFunction, CancelFunction, Capture, Scan,
      Publish, DropSnapshotPin
  <1>5. CASE TruncatorStep
    BY <1>5 DEF TruncatorStep, ReadHead, FlushLagging, AskInflight, AskUnflushed,
      AskRetention, AskSnapshots, SourceRefuses, AskCheckpoint, Truncate
  <1>6. CASE UNCHANGED vars
    BY <1>6 DEF vars
  <1> QED
    BY <1>1, <1>2, <1>3, <1>4, <1>5, <1>6 DEF Next

\* Rows and segments only grow, and a partition loses a row only to a segment,
\* except at a restart.
LEMMA RowsStep ==
  ASSUME TypeOK, [Next]_vars
  PROVE  /\ flushed \subseteq flushed'
         /\ RowLsns \subseteq RowLsns'
         /\ Restart \/ resident \cup flushed \subseteq resident' \cup flushed'
  <1> USE DEF wal, writer, function, publisher, truncator
  <1>1. /\ flushed \subseteq flushed'
        /\ Restart \/ resident \cup flushed \subseteq resident' \cup flushed'
    <2>1. ASSUME NEW v \in Writers, WriterStep(v)
          PROVE  flushed' = flushed /\ resident \subseteq resident'
      BY <2>1 DEF WriterStep, ReadLast, Reserve, AppendRow, AppendRowFails, ApplyRow,
        ApplyRowFails, ReleaseFailed, CancelWrite
    <2>2. CASE Restart
      BY <2>2 DEF Restart
    <2>3. CASE FlushRows \/ FlushLagging
      BY <2>3 DEF FlushRows, FlushLagging
    <2>4. CASE \/ \E d \in Defs \cup {NoDef} : PutFunction(d)
               \/ ApplyFunction \/ CancelFunction
               \/ Capture \/ Scan \/ Publish \/ DropSnapshotPin
      BY <2>4 DEF PutFunction, ApplyFunction, CancelFunction, Capture, Scan,
        Publish, DropSnapshotPin
    <2>5. CASE \/ ReadHead \/ AskInflight \/ AskUnflushed \/ AskRetention
               \/ AskSnapshots \/ SourceRefuses \/ AskCheckpoint \/ Truncate
      BY <2>5 DEF ReadHead, AskInflight, AskUnflushed, AskRetention, AskSnapshots,
        SourceRefuses, AskCheckpoint, Truncate
    <2>6. CASE UNCHANGED vars
      BY <2>6 DEF vars
    <2> QED
      BY <2>1, <2>2, <2>3, <2>4, <2>5, <2>6 DEF Next, TruncatorStep
  <1>2. RowLsns \subseteq RowLsns'
    <2>1. CASE log' = log
      BY <2>1 DEF RowLsns, LastSeq
    <2>2. ASSUME NEW x \in {"row", NoDef} \cup Defs, log' = Append(log, x)
          PROVE  RowLsns \subseteq RowLsns'
      BY <2>2, LogGrows DEF TypeOK
    <2>3. ASSUME NEW w \in Writers, AppendRow(w) PROVE log' = Append(log, "row")
      BY <2>3 DEF AppendRow
    <2>4. ASSUME NEW d \in Defs \cup {NoDef}, PutFunction(d) PROVE log' = Append(log, d)
      BY <2>4 DEF PutFunction
    <2>5. ASSUME AskCheckpoint PROVE log' = log \/ log' = Append(log, fstate)
      BY <2>5 DEF AskCheckpoint
    <2>6. ASSUME ApplyFunction \/ CancelFunction \/ Truncate \/ Restart PROVE log' = log
      BY <2>6 DEF ApplyFunction, CancelFunction, Truncate, Restart
    <2>7. fstate \in {"row", NoDef} \cup Defs /\ Defs \cup {NoDef} \subseteq {"row", NoDef} \cup Defs
      BY DEF TypeOK
    <2> QED
      BY FunctionFrame, <2>1, <2>2, <2>3, <2>4, <2>5, <2>6, <2>7
  <1> QED
    BY <1>1, <1>2

\* How a run's knowledge arises and how its floor moves: down only.
LEMMA FloorStep ==
  ASSUME TypeOK, [Next]_vars
  PROVE  /\ gone' = gone \/ Truncate
         /\ tpc' = "unflushed" => AskInflight \/ UNCHANGED <<tpc, thead, tinflight>>
         /\ tpc' \in {"retention", "snapshots", "readers", "truncate"} =>
              \/ AskUnflushed
              \/ /\ tpc \in {"retention", "snapshots", "readers", "truncate"}
                 /\ tfloor' \in Int /\ tfloor' =< tfloor
  <1> USE DEF wal, writer, function, publisher, truncator
  <1>0. tfloor \in Int /\ thead \in Int /\ LastSeq \in Int
    BY LenProperties DEF TypeOK, LastSeq
  <1>1. ASSUME NEW v \in Writers, WriterStep(v)
        PROVE  UNCHANGED <<gone, tpc, thead, tfloor, tinflight>>
    BY <1>1 DEF WriterStep, ReadLast, Reserve, AppendRow, AppendRowFails, ApplyRow,
      ApplyRowFails, ReleaseFailed, CancelWrite
  <1>2. CASE \/ FlushRows \/ \E d \in Defs \cup {NoDef} : PutFunction(d)
             \/ ApplyFunction \/ CancelFunction
             \/ Capture \/ Scan \/ Publish \/ DropSnapshotPin
    <2>1. UNCHANGED <<gone, tpc, thead, tfloor, tinflight>>
      BY <1>2 DEF FlushRows, PutFunction, ApplyFunction, CancelFunction, Capture, Scan,
        Publish, DropSnapshotPin
    <2> QED
      BY <1>0, <2>1
  <1>3. CASE Restart \/ SourceRefuses
    BY <1>3 DEF Restart, SourceRefuses, EndRun
  <1>4. CASE ReadHead \/ FlushLagging \/ AskInflight
    BY <1>4 DEF ReadHead, FlushLagging, AskInflight
  <1>5. CASE AskUnflushed
    BY <1>5 DEF AskUnflushed, EndRun
  <1>6. CASE AskRetention
    <2> DEFINE m == Max({0, thead + 1 - Retain})
    <2>1. thead + 1 - Retain \in Int
      BY <1>0, TruncatorBounds
    <2>2. m \in Int
      BY <2>1, MaxMinPair
    <2>3. tfloor' = Min({tfloor, m})
      BY <1>6 DEF AskRetention
    <2> HIDE DEF m
    <2>4. tfloor' \in Int /\ tfloor' =< tfloor
      BY <1>0, <2>2, <2>3, MaxMinPair
    <2> QED
      BY <1>6, <2>4 DEF AskRetention
  <1>7. CASE AskSnapshots
    <2>1. tfloor' \in Int /\ tfloor' =< tfloor
      <3>1. CASE published = NoLsn
        BY <1>0, <1>7, <3>1 DEF AskSnapshots
      <3>2. CASE published # NoLsn
        <4>1. published + 1 \in Int
          BY <3>2 DEF TypeOK
        <4>2. Min({tfloor, published + 1})
                = IF tfloor =< published + 1 THEN tfloor ELSE published + 1
          BY <1>0, <4>1 DEF Min
        <4> QED
          BY <1>0, <1>7, <3>2, <4>1, <4>2 DEF AskSnapshots
      <3> QED
        BY <3>1, <3>2
    <2> QED
      BY <1>7, <2>1 DEF AskSnapshots
  <1>8. CASE AskCheckpoint
    <2>1. LastSeq + 1 \in Int
      BY <1>0
    <2>2. Min({tfloor, LastSeq + 1}) \in Int /\ Min({tfloor, LastSeq + 1}) =< tfloor
      BY <1>0, <2>1 DEF Min
    <2> QED
      BY <1>0, <1>8, <2>2 DEF AskCheckpoint, EndRun
  <1>9. CASE Truncate
    BY <1>9 DEF Truncate, EndRun
  <1>10. CASE UNCHANGED vars
    BY <1>0, <1>10 DEF vars
  <1> QED
    BY <1>0, <1>1, <1>2, <1>3, <1>4, <1>5, <1>6, <1>7, <1>8, <1>9, <1>10
    DEF Next, TruncatorStep

\* Every step keeps what a truncation run knows of acknowledged rows.
LEMMA SettlingNext ==
  ASSUME TypeOK, WritesInOrder, SettlingKnown, [Next]_vars
  PROVE  SettlingKnown'
  <1>0. /\ LastSeq \in Nat /\ gone \in Nat /\ gone =< LastSeq /\ RowLsns \subseteq Nat
        /\ thead \in Nat /\ thead =< LastSeq /\ tfloor \in Nat /\ tfloor =< thead + 1
    BY LenProperties DEF TypeOK, LastSeq, RowLsns
  <1>rows. /\ flushed \subseteq flushed' /\ RowLsns \subseteq RowLsns'
           /\ Restart \/ resident \cup flushed \subseteq resident' \cup flushed'
    BY RowsStep
  <1>new. ASSUME NEW n \in Settling'
          PROVE  n \in Settling \/ (n = LastSeq + 1 /\ n \in RowLsns')
    <2>1. CASE n \in acked'
      BY <2>1, WriteStep DEF Settling
    <2>2. ASSUME NEW w \in Writers, wpc'[w] = "appended", n = wlsn'[w]
          PROVE  n \in Settling \/ (n = LastSeq + 1 /\ n \in RowLsns')
      <3>1. CASE wpc[w] = "appended" /\ wlsn'[w] = wlsn[w]
        BY <2>2, <3>1 DEF Settling
      <3>2. CASE AppendRow(w) /\ wlsn'[w] = LastSeq + 1
        <4>1. log' = Append(log, "row")
          BY <3>2 DEF AppendRow
        <4>2. LastSeq + 1 \in RowLsns'
          BY <4>1, LogGrows DEF TypeOK
        <4> QED
          BY <2>2, <3>2, <4>2
      <3> QED
        BY <2>2, <3>1, <3>2, WriteStep
    <2> QED
      BY <2>1, <2>2 DEF Settling
  <1>old. ASSUME NEW n \in Settling PROVE n \in RowLsns /\ n \in Nat
    BY <1>0 DEF SettlingKnown
  <1>1. Settling' \subseteq RowLsns'
    BY <1>rows, <1>new, <1>old
  <1>2. acked' \subseteq resident' \cup flushed'
    <2>1. CASE Restart
      <3>1. acked' = acked /\ flushed' = flushed /\ resident' = {n \in RowLsns : n > gone}
        BY <2>1 DEF Restart
      <3>2. ASSUME NEW n \in acked PROVE n \in resident' \cup flushed'
        <4>1. n \in Settling /\ n \in RowLsns /\ n \in Nat
          BY <1>old DEF Settling
        <4> QED
          BY <1>0, <3>1, <4>1 DEF SettlingKnown
      <3> QED
        BY <3>1, <3>2
    <2>2. CASE resident \cup flushed \subseteq resident' \cup flushed'
      <3>1. acked \subseteq resident' \cup flushed'
        BY <2>2 DEF SettlingKnown
      <3> QED
        BY <3>1, WriteStep
    <2> QED
      BY <1>rows, <2>1, <2>2
  <1>3. ASSUME NEW n \in Settling', n =< gone' PROVE n \in flushed'
    <2>1. gone' = gone \/ (Truncate /\ gone' \in Nat /\ gone' < tfloor)
      BY FloorStep, TruncateKeeps
    <2>2. CASE gone' = gone
      <3>1. n \in Settling /\ n =< gone
        BY <1>0, <1>3, <1>new, <2>2
      <3> QED
        BY <1>rows, <3>1 DEF SettlingKnown
    <2>3. CASE Truncate /\ gone' \in Nat /\ gone' < tfloor
      <3>1. tpc = "truncate"
        BY <2>3 DEF Truncate
      <3>2. n \in Settling /\ n < tfloor
        BY <1>0, <1>3, <1>new, <1>old, <2>3
      <3> QED
        BY <1>rows, <3>1, <3>2 DEF SettlingKnown
    <2> QED
      BY <2>1, <2>2, <2>3
  <1>4. ASSUME tpc' = "unflushed", NEW n \in Settling', n =< thead'
        PROVE  n \in flushed' \cup resident' \/ \E f \in tinflight' : f =< n
    <2>0. ~Restart
      BY <1>4 DEF Restart, EndRun
    <2>1. CASE AskInflight
      <3>1. /\ thead' = thead /\ tinflight' = Inflight
            /\ UNCHANGED <<wpc, wlsn, acked, resident, flushed>>
        BY <2>1 DEF AskInflight, writer
      <3>2. CASE n \in acked
        BY <3>1, <3>2 DEF SettlingKnown
      <3>3. ASSUME NEW w \in Writers, wpc[w] = "appended", n = wlsn[w]
            PROVE  \E f \in Inflight : f =< n
        <4>1. wlast[w] + 1 \in Inflight /\ wlast[w] + 1 =< n
          BY <3>3 DEF Inflight, WritesInOrder, TypeOK
        <4> QED
          BY <4>1
      <3> QED
        BY <1>4, <3>1, <3>2, <3>3 DEF Settling
    <2>2. CASE UNCHANGED <<tpc, thead, tinflight>>
      <3>1. n \in Settling /\ n =< thead
        BY <1>0, <1>4, <1>new, <2>2
      <3> QED
        BY <1>4, <1>rows, <2>0, <2>2, <3>1 DEF SettlingKnown
    <2> QED
      BY <1>4, <2>1, <2>2, FloorStep
  <1>5. ASSUME tpc' \in {"retention", "snapshots", "readers", "truncate"},
               NEW n \in Settling', n < tfloor'
        PROVE  n \in flushed'
    <2>1. CASE AskUnflushed
      <3> DEFINE S == {tfloor} \cup tinflight \cup resident
      <3>1. S \in SUBSET Nat /\ tfloor \in S /\ tinflight \subseteq S /\ resident \subseteq S
        BY DEF TypeOK
      <3>2. /\ tpc = "unflushed" /\ tfloor' = Min(S) /\ UNCHANGED <<wpc, wlsn, acked, flushed>>
        BY <1>5, <2>1 DEF AskUnflushed, EndRun, writer
      <3> HIDE DEF S
      <3>3. Min(S) \in Nat /\ \A y \in S : Min(S) =< y
        BY <3>1, MinOfNats
      <3>4. n \in Settling /\ n \in Nat /\ n < Min(S)
        BY <1>5, <1>old, <3>2 DEF Settling
      <3>5. \A y \in S : y \in Nat /\ ~(y =< n)
        BY <3>1, <3>3, <3>4
      <3>6. n =< thead /\ n \notin resident /\ \A f \in tinflight : ~(f =< n)
        BY <1>0, <3>1, <3>4, <3>5
      <3> QED
        BY <3>2, <3>4, <3>6 DEF SettlingKnown
    <2>2. CASE /\ tpc \in {"retention", "snapshots", "readers", "truncate"}
               /\ tfloor' \in Int /\ tfloor' =< tfloor
      <3>1. n \in Settling /\ n < tfloor
        BY <1>0, <1>5, <1>new, <1>old, <2>2
      <3> QED
        BY <1>rows, <2>2, <3>1 DEF SettlingKnown
    <2> QED
      BY <1>5, <2>1, <2>2, FloorStep
  <1> QED
    BY <1>1, <1>2, <1>3, <1>4, <1>5 DEF SettlingKnown

\* The captured LSN lies below every entry whose write is not applied.
LEMMA SnapshotBelow ==
  ASSUME TypeOK, WritesInOrder
  PROVE  \A w \in Writers : wpc[w] = "appended" => SnapshotLsn < wlsn[w]
  <1> DEFINE S == {LastSeq} \cup {f - 1 : f \in Inflight}
  <1>0. LastSeq \in Nat /\ S \in SUBSET Nat
    BY InflightType, LenProperties DEF TypeOK, LastSeq
  <1>1. ASSUME NEW w \in Writers, wpc[w] = "appended" PROVE SnapshotLsn < wlsn[w]
    <2>1. wlast[w] \in Nat /\ wlsn[w] \in Nat /\ wlast[w] < wlsn[w]
      BY <1>1 DEF TypeOK, WritesInOrder
    <2>2. wlast[w] + 1 \in Inflight
      BY <1>1 DEF Inflight
    <2>3. (wlast[w] + 1) - 1 = wlast[w]
      BY <2>1
    <2>4. wlast[w] \in S
      BY <2>2, <2>3
    <2>5. SnapshotLsn = Min(S)
      BY DEF SnapshotLsn
    <2> HIDE DEF S
    <2>6. Min(S) \in Nat /\ Min(S) =< wlast[w]
      BY <1>0, <2>4, MinOfNats
    <2> QED
      BY <2>1, <2>5, <2>6
  <1> QED
    BY <1>1

\* Rows that cover an LSN of the log keep covering it.
LEMMA CoversKept ==
  ASSUME TypeOK, [Next]_vars, NEW lsn \in 0..LastSeq
  PROVE  /\ (\A w \in Writers : wpc[w] = "appended" => lsn < wlsn[w]) =>
              \A w \in Writers : wpc'[w] = "appended" => lsn < wlsn'[w]
         /\ \A rows : Covers(lsn, rows) => \A n \in acked' : n =< lsn => n \in rows
  <1>0. LastSeq \in Nat /\ \A w \in Writers : wlsn[w] \in Nat
    BY LenProperties DEF TypeOK, LastSeq
  <1>1. ASSUME \A w \in Writers : wpc[w] = "appended" => lsn < wlsn[w],
               NEW w \in Writers, wpc'[w] = "appended"
        PROVE  lsn < wlsn'[w]
    <2>1. wlsn'[w] = LastSeq + 1 \/ (wpc[w] = "appended" /\ wlsn'[w] = wlsn[w])
      BY <1>1, WriteStep
    <2> QED
      BY <1>0, <1>1, <2>1
  <1>2. ASSUME NEW rows, Covers(lsn, rows), NEW n \in acked', n =< lsn
        PROVE  n \in rows
    <2>1. n \in acked \/ \E w \in Writers : wpc[w] = "appended" /\ n = wlsn[w]
      BY WriteStep
    <2> QED
      BY <1>0, <1>2, <2>1 DEF Covers
  <1> QED
    BY <1>1, <1>2

\* Every step keeps what the publisher knows.
LEMMA CoverNext ==
  ASSUME TypeOK, WritesInOrder, SettlingKnown, CoverInv, [Next]_vars
  PROVE  CoverInv'
  <1> USE DEF wal, writer, function, publisher, truncator
  <1>0. slsn \in 0..LastSeq /\ (published # NoLsn => published \in 0..LastSeq)
    BY DEF TypeOK
  <1>1. ASSUME spc # "idle"
        PROVE  \A w \in Writers : wpc'[w] = "appended" => slsn < wlsn'[w]
    BY <1>0, <1>1, CoversKept DEF CoverInv
  <1>2. ASSUME spc \in {"scanned", "published"}
        PROVE  \A n \in acked' : n =< slsn => n \in scanned
    BY <1>0, <1>2, CoversKept DEF CoverInv
  <1>3. ASSUME published # NoLsn
        PROVE  /\ \A n \in acked' : n =< published => n \in base
               /\ \A w \in Writers : wpc'[w] = "appended" => published < wlsn'[w]
    BY <1>0, <1>3, CoversKept DEF CoverInv, Covers
  <1>frame. ASSUME UNCHANGED publisher PROVE CoverInv'
    BY <1>1, <1>2, <1>3, <1>frame DEF CoverInv, Covers
  <1>4. CASE Capture
    <2>1. /\ slsn' = SnapshotLsn /\ spc' = "captured"
          /\ UNCHANGED <<wpc, wlsn, published, base>>
      BY <1>4 DEF Capture
    <2>2. \A w \in Writers : wpc'[w] = "appended" => slsn' < wlsn'[w]
      BY <2>1, SnapshotBelow
    <2> QED
      BY <1>3, <2>1, <2>2 DEF CoverInv, Covers
  <1>5. CASE Scan
    <2>1. /\ spc = "captured" /\ spc' = "scanned" /\ scanned' = resident \cup flushed
          /\ UNCHANGED <<acked, slsn, published, base>>
      BY <1>5 DEF Scan
    <2>2. acked' \subseteq scanned'
      BY <2>1 DEF SettlingKnown
    <2> QED
      BY <1>1, <1>3, <2>1, <2>2 DEF CoverInv, Covers
  <1>6. CASE Publish
    <2>1. /\ spc = "scanned" /\ spc' = "published" /\ published' = slsn /\ base' = scanned
          /\ UNCHANGED <<slsn, scanned>>
      BY <1>6 DEF Publish
    <2> QED
      BY <1>1, <1>2, <2>1 DEF CoverInv, Covers
  <1>7. CASE DropSnapshotPin \/ Restart
    <2>1. spc' = "idle" /\ UNCHANGED <<published, base>>
      BY <1>7 DEF DropSnapshotPin, Restart
    <2> QED
      BY <1>3, <2>1 DEF CoverInv, Covers
  <1>8. ASSUME NEW v \in Writers, WriterStep(v) PROVE UNCHANGED publisher
    BY <1>8 DEF WriterStep, ReadLast, Reserve, AppendRow, AppendRowFails, ApplyRow,
      ApplyRowFails, ReleaseFailed, CancelWrite
  <1>9. ASSUME \/ FlushRows \/ \E d \in Defs \cup {NoDef} : PutFunction(d)
               \/ ApplyFunction \/ CancelFunction
        PROVE  UNCHANGED publisher
    BY <1>9 DEF FlushRows, PutFunction, ApplyFunction, CancelFunction
  <1>10. ASSUME TruncatorStep PROVE UNCHANGED publisher
    BY <1>10 DEF TruncatorStep, ReadHead, FlushLagging, AskInflight, AskUnflushed,
      AskRetention, AskSnapshots, SourceRefuses, AskCheckpoint, Truncate
  <1>11. ASSUME UNCHANGED vars PROVE UNCHANGED publisher
    BY <1>11 DEF vars
  <1> QED
    BY <1>frame, <1>4, <1>5, <1>6, <1>7, <1>8, <1>9, <1>10, <1>11 DEF Next

\* A published snapshot of a store that is not poisoned holds every row that was
\* acknowledged at or below its LSN, for any number of writers in flight during
\* the capture, the scan and the publication, over restarts and whatever other
\* writes are cancelled: capture_snapshot_lsn stays below every reservation.  A
\* cancelled row itself was never acknowledged, and nothing is said of it.
THEOREM SnapshotCovers == Spec => []SnapshotCoversItsLsn
  <1> DEFINE Inv == TypeOK /\ WritesInOrder /\ SettlingKnown /\ CoverInv
  <1>1. Init => Inv
    <2> SUFFICES ASSUME Init PROVE Inv
      OBVIOUS
    <2>1. Settling = {}
      BY DEF Init, Settling
    <2> QED
      BY <2>1, TypeInit DEF Init, WritesInOrder, SettlingKnown, CoverInv
  <1>2. Inv /\ [Next]_vars => Inv'
    BY TypeNext, OrderNext, SettlingNext, CoverNext
  <1>3. Inv => SnapshotCoversItsLsn
    BY DEF CoverInv, Covers, SnapshotCoversItsLsn
  <1> QED
    BY <1>1, <1>2, <1>3, PTL DEF Spec

\* Every acknowledged row can still be rebuilt: its entry is in the WAL or the
\* row is in a segment.
AckedRowsKept == \A n \in acked : n =< gone => n \in flushed

\* An acknowledged row is never lost, cancelled writes or not: what a dropped
\* future puts at risk is its own row, which nobody was promised.
THEOREM AckedRowsAreKept == Spec => []AckedRowsKept
  <1> DEFINE Inv == TypeOK /\ WritesInOrder /\ SettlingKnown
  <1>1. Init => Inv
    <2> SUFFICES ASSUME Init PROVE Inv
      OBVIOUS
    <2>1. Settling = {}
      BY DEF Init, Settling
    <2> QED
      BY <2>1, TypeInit DEF Init, WritesInOrder, SettlingKnown
  <1>2. Inv /\ [Next]_vars => Inv'
    BY TypeNext, OrderNext, SettlingNext
  <1>3. Inv => AckedRowsKept
    BY DEF SettlingKnown, Settling, AckedRowsKept
  <1> QED
    BY <1>1, <1>2, <1>3, PTL DEF Spec
=============================================================================
