------------------------- MODULE WriterEpochProofs -------------------------
(***************************************************************************)
(* Proofs about WriterEpoch for any number of processes, any volumes and   *)
(* any lease: type correctness, uniqueness of epochs, and that a process   *)
(* of an older epoch no longer passes the fence once a newer one has the   *)
(* WAL open.                                                               *)
(***************************************************************************)
EXTENDS WriterEpoch, SequenceTheorems, TLAPS

\* fetch_max on the lease: the larger of the two expiries.
LEMMA MaxPair ==
  ASSUME NEW a \in Nat, NEW b \in Nat
  PROVE  /\ Max({a, b}) \in Nat
         /\ Max({a, b}) = a \/ Max({a, b}) = b
         /\ Max({a, b}) >= a /\ Max({a, b}) >= b
  BY DEF Max

\* The step relation with one disjunct per action.
LEMMA NextCases ==
  ASSUME Next
  PROVE  \/ \E p \in Proc, v \in Volume : Boot(p, v)
         \/ \E p \in Proc : BindMatching(p)
         \/ \E p \in Proc : BindFresh(p)
         \/ \E p \in Proc : BindRefused(p)
         \/ \E p \in Proc : ClaimList(p)
         \/ \E p \in Proc : ClaimPut(p)
         \/ \E p \in Proc : ClaimConflict(p)
         \/ \E p \in Proc : PutError(p)
         \/ \E p \in Proc : Reconcile(p)
         \/ \E p \in Proc : ReconcileLost(p)
         \/ \E p \in Proc : PublishFence(p)
         \/ \E p \in Proc : PublishRefused(p)
         \/ \E p \in Proc : ReadFence(p)
         \/ \E p \in Proc : PublishFails(p)
         \/ \E p \in Proc : PublishRetry(p)
         \/ \E p \in Proc : EnforceLease(p)
         \/ \E p \in Proc : OpenWal(p)
         \/ \E p \in Proc, b \in BOOLEAN : CheckFence(p, b)
         \/ \E p \in Proc, b \in BOOLEAN : CheckAuthority(p, b)
         \/ \E p \in Proc : Judge(p)
         \/ \E p \in Proc : AppendCheck(p)
         \/ \E p \in Proc : AppendReturn(p)
         \/ \E p \in Proc : Die(p)
         \/ \E r \in puts, b \in BOOLEAN : PutCreates(r, b)
         \/ \E r \in puts, b \in BOOLEAN : PutConflicts(r, b)
         \/ Tick
  BY DEF Next, BootStep, WatchdogStep, ServeStep

\* Initially everything has its type.
LEMMA TypeInit == Init => TypeOK
  <1>1. (CHOOSE v \in Volume : TRUE) \in Volume
    BY ProcAssumption
  <1> QED
    BY <1>1 DEF Init, TypeOK, Pc

\* Every action preserves the types; the identity a claim carries is a real one.
LEMMA TypeNext ==
  ASSUME TypeOK, PutsInOrder, [Next]_vars
  PROVE  TypeOK'
  <1> USE DEF TypeOK, Pc, vars, store, boot, wfence, dog
  <1>1. ASSUME NEW p \in Proc, NEW v \in Volume, Boot(p, v) PROVE TypeOK'
    BY <1>1 DEF Boot
  <1>2. ASSUME NEW p \in Proc, BindMatching(p) PROVE TypeOK'
    BY <1>2 DEF BindMatching
  <1>3. ASSUME NEW p \in Proc, BindFresh(p) PROVE TypeOK'
    BY <1>3 DEF BindFresh
  <1>4. ASSUME NEW p \in Proc, BindRefused(p) PROVE TypeOK'
    BY <1>4 DEF BindRefused, Exit
  <1>5. ASSUME NEW p \in Proc, ClaimList(p) PROVE TypeOK'
    <2>1. Len(log) + 1 \in Nat
      OBVIOUS
    <2> QED
      BY <1>5, <2>1 DEF ClaimList
  <1>6. ASSUME NEW p \in Proc, ClaimPut(p) PROVE TypeOK'
    <2>1. vid[p] \in Proc
      BY <1>6 DEF ClaimPut, PutsInOrder
    <2>2. [nonce |-> p, volume |-> vid[p], slot |-> epoch[p]]
            \in [nonce : Proc, volume : Proc, slot : Nat]
      BY <2>1
    <2> QED
      BY <1>6, <2>2 DEF ClaimPut
  <1>7. ASSUME NEW p \in Proc, ClaimConflict(p) PROVE TypeOK'
    BY <1>7 DEF ClaimConflict
  <1>8. ASSUME NEW p \in Proc, PutError(p) PROVE TypeOK'
    BY <1>8 DEF PutError
  <1>9. ASSUME NEW p \in Proc, Reconcile(p) PROVE TypeOK'
    BY <1>9 DEF Reconcile
  <1>10. ASSUME NEW p \in Proc, ReconcileLost(p) PROVE TypeOK'
    BY <1>10 DEF ReconcileLost, Exit
  <1>11. ASSUME NEW p \in Proc, PublishFence(p) PROVE TypeOK'
    BY <1>11 DEF PublishFence
  <1>12. ASSUME NEW p \in Proc, PublishRefused(p) PROVE TypeOK'
    BY <1>12 DEF PublishRefused, Exit
  <1>30. ASSUME NEW p \in Proc, ReadFence(p) PROVE TypeOK'
    BY <1>30 DEF ReadFence
  <1>31. ASSUME NEW p \in Proc, PublishFails(p) PROVE TypeOK'
    BY <1>31 DEF PublishFails, Exit
  <1>32. ASSUME NEW p \in Proc, PublishRetry(p) PROVE TypeOK'
    BY <1>32 DEF PublishRetry
  <1>13. ASSUME NEW p \in Proc, EnforceLease(p) PROVE TypeOK'
    <2>1. claim_started[p] + Lease \in Nat /\ now + Grace(epoch[p]) \in Nat
      BY TimingAssumption DEF Grace
    <2> QED
      BY <1>13, <2>1 DEF EnforceLease
  <1>14. ASSUME NEW p \in Proc, OpenWal(p) PROVE TypeOK'
    BY <1>14 DEF OpenWal
  <1>15. ASSUME NEW p \in Proc, NEW b \in BOOLEAN, CheckFence(p, b) PROVE TypeOK'
    BY <1>15 DEF CheckFence
  <1>16. ASSUME NEW p \in Proc, NEW b \in BOOLEAN, CheckAuthority(p, b) PROVE TypeOK'
    BY <1>16 DEF CheckAuthority
  <1>17. ASSUME NEW p \in Proc, Judge(p) PROVE TypeOK'
    <2> DEFINE renewed == started[p] + Lease
    <2>1. lease_until[p] \in Nat /\ renewed \in Nat
      BY TimingAssumption
    <2>2. Max({lease_until[p], renewed}) \in Nat
      BY <2>1, MaxPair
    <2>3. CASE JudgeRenew(p)
      BY <1>17, <2>2, <2>3 DEF Judge, JudgeRenew
    <2>4. CASE JudgeHold(p)
      <3>1. failures[p] + 1 \in Nat
        OBVIOUS
      <3> QED
        BY <1>17, <2>4, <3>1 DEF Judge, JudgeHold
    <2>5. CASE JudgeFenced(p)
      BY <1>17, <2>5 DEF Judge, JudgeFenced
    <2> QED
      BY <1>17, <2>3, <2>4, <2>5 DEF Judge
  <1>18. ASSUME NEW p \in Proc, AppendCheck(p) PROVE TypeOK'
    BY <1>18 DEF AppendCheck
  <1>19. ASSUME NEW p \in Proc, AppendReturn(p) PROVE TypeOK'
    BY <1>19 DEF AppendReturn
  <1>20. ASSUME NEW p \in Proc, Die(p) PROVE TypeOK'
    BY <1>20 DEF Die, Exit
  <1>21. ASSUME NEW r \in puts, NEW b \in BOOLEAN, PutCreates(r, b) PROVE TypeOK'
    <2>1. [nonce |-> r.nonce, volume |-> r.volume, at |-> now] \in Grant
      BY DEF Grant
    <2>2. log' \in Seq(Grant)
      BY <1>21, <2>1 DEF PutCreates
    <2>3. pc' \in [Proc -> Pc]
      BY <1>21 DEF PutCreates
    <2> QED
      BY <1>21, <2>2, <2>3 DEF PutCreates
  <1>22. ASSUME NEW r \in puts, NEW b \in BOOLEAN, PutConflicts(r, b) PROVE TypeOK'
    <2>1. pc' \in [Proc -> Pc]
      BY <1>22 DEF PutConflicts
    <2> QED
      BY <1>22, <2>1 DEF PutConflicts
  <1>23. CASE Tick
    <2>1. now' \in Nat
      BY <1>23 DEF Tick
    <2> QED
      BY <1>23, <2>1 DEF Tick
  <1>24. CASE UNCHANGED vars
    BY <1>24
  <1> QED
    BY NextCases, <1>1, <1>2, <1>3, <1>4, <1>5, <1>6, <1>7, <1>8, <1>9, <1>10, <1>11, <1>12, <1>13, <1>14, <1>15, <1>16, <1>17, <1>18, <1>19, <1>20, <1>21, <1>22, <1>23, <1>24, <1>30, <1>31, <1>32

\* The inductive invariant holds initially.
LEMMA EpochInvInit == Init => EpochInv
  <1>1. Init => TypeOK
    BY TypeInit
  <1>2. Init => EpochsUnique
    BY DEF Init, EpochsUnique, Owns
  <1>3. Init => PutsInOrder
    BY DEF Init, PutsInOrder
  <1>4. Init => StampsPast
    BY TimingAssumption DEF Init, StampsPast
  <1>5. Init => LeaseBeforeNewer
    BY DEF Init, LeaseBeforeNewer, Alive
  <1>6. Init => WaitedOut
    BY DEF Init, WaitedOut, Alive
  <1> QED
    BY <1>1, <1>2, <1>3, <1>4, <1>5, <1>6 DEF EpochInv

\* What the steps need of the types, without the sequence and the records.
Shape ==
  /\ now \in Nat /\ Len(log) \in Nat
  /\ \A e \in 1..Len(log) : log[e].at \in Nat
  /\ \A r \in puts : r.nonce \in Proc /\ r.slot \in Nat
  /\ pc \in [Proc -> Pc] /\ vid \in [Proc -> Proc \cup {NoId}]
  /\ epoch \in [Proc -> Nat]
  /\ claim_started \in [Proc -> Nat] /\ lease_until \in [Proc -> Nat]
  /\ grace_until \in [Proc -> Nat] /\ started \in [Proc -> Nat]
  /\ check \in [Proc -> {"off", "idle", "fence_read", "answered"}]
  /\ newer \in [Proc -> BOOLEAN] /\ failed \in [Proc -> BOOLEAN]

\* The type invariant gives the per-function shape the action steps use.
LEMMA TypesGiveShape == TypeOK => Shape
  <1> SUFFICES ASSUME TypeOK PROVE Shape
    OBVIOUS
  <1>1. log \in Seq(Grant)
    BY DEF TypeOK
  <1>2. ASSUME NEW e \in 1..Len(log) PROVE log[e].at \in Nat
    <2>1. log[e] \in Grant
      BY <1>1, ElementOfSeq
    <2> QED
      BY <2>1 DEF Grant
  <1>3. Len(log) \in Nat
    BY <1>1, LenProperties
  <1>4. ASSUME NEW r \in puts PROVE r.nonce \in Proc /\ r.slot \in Nat
    BY DEF TypeOK
  <1> QED
    BY <1>2, <1>3, <1>4 DEF TypeOK, Shape

\* A process that exits leaves no stamp behind, so none is in the future.
LEMMA ExitKeepsStamps ==
  ASSUME Shape, StampsPast, NEW p \in Proc, Exit(p), UNCHANGED <<now, log>>
  PROVE  StampsPast'
  <1>1. \A e \in 1..Len(log') : log'[e].at =< now'
    BY DEF StampsPast
  <1>2. ASSUME NEW q \in Proc
        PROVE  /\ claim_started'[q] =< now' /\ started'[q] =< now'
               /\ lease_until'[q] =< now' + Lease
    <2>1. CASE q = p
      BY <2>1, TimingAssumption DEF Exit, Shape
    <2>2. CASE q # p
      BY <2>2 DEF Exit, Shape, StampsPast
    <2> QED
      BY <2>1, <2>2
  <1> QED
    BY <1>1, <1>2 DEF StampsPast

\* Every step preserves the inductive invariant.
LEMMA EpochInvNext ==
  ASSUME EpochInv, [Next]_vars
  PROVE  EpochInv'
  <1>0. TypeOK /\ TypeOK'
    BY TypeNext DEF EpochInv
  <1>shape. Shape
    BY <1>0, TypesGiveShape
  <1>inv. EpochsUnique /\ PutsInOrder /\ StampsPast /\ LeaseBeforeNewer /\ WaitedOut
    BY DEF EpochInv
  <1> USE <1>shape, <1>inv, TimingAssumption DEF Shape, Alive, Owns, store, boot,
        wfence, dog
  <1>1. ASSUME NEW p \in Proc, NEW v \in Volume, Boot(p, v) PROVE EpochInv'
    <2>1. EpochsUnique'
      BY <1>1 DEF Boot, EpochsUnique
    <2>2. PutsInOrder'
      BY <1>1 DEF Boot, PutsInOrder
    <2>3. StampsPast'
      BY <1>1 DEF Boot, StampsPast
    <2>4. LeaseBeforeNewer'
      BY <1>1 DEF Boot, LeaseBeforeNewer
    <2>5. WaitedOut'
      BY <1>1 DEF Boot, WaitedOut
    <2> QED
      BY <1>0, <2>1, <2>2, <2>3, <2>4, <2>5 DEF EpochInv
  <1>2. ASSUME NEW p \in Proc, BindMatching(p) PROVE EpochInv'
    <2>1. EpochsUnique'
      BY <1>2 DEF BindMatching, EpochsUnique
    <2>2. PutsInOrder'
      BY <1>2 DEF BindMatching, PutsInOrder
    <2>3. StampsPast'
      BY <1>2 DEF BindMatching, StampsPast
    <2>4. LeaseBeforeNewer'
      BY <1>2 DEF BindMatching, LeaseBeforeNewer
    <2>5. WaitedOut'
      BY <1>2 DEF BindMatching, WaitedOut
    <2> QED
      BY <1>0, <2>1, <2>2, <2>3, <2>4, <2>5 DEF EpochInv
  <1>3. ASSUME NEW p \in Proc, BindFresh(p) PROVE EpochInv'
    <2>1. EpochsUnique'
      BY <1>3 DEF BindFresh, EpochsUnique
    <2>2. PutsInOrder'
      <3>1. vid'[p] # NoId
        BY <1>3, ProcAssumption DEF BindFresh
      <3> QED
        BY <1>3, <3>1 DEF BindFresh, PutsInOrder
    <2>3. StampsPast'
      BY <1>3 DEF BindFresh, StampsPast
    <2>4. LeaseBeforeNewer'
      BY <1>3 DEF BindFresh, LeaseBeforeNewer
    <2>5. WaitedOut'
      BY <1>3 DEF BindFresh, WaitedOut
    <2> QED
      BY <1>0, <2>1, <2>2, <2>3, <2>4, <2>5 DEF EpochInv
  <1>4. ASSUME NEW p \in Proc, BindRefused(p) PROVE EpochInv'
    <2>1. EpochsUnique'
      BY <1>4 DEF BindRefused, Exit, EpochsUnique
    <2>2. PutsInOrder'
      BY <1>4 DEF BindRefused, Exit, PutsInOrder
    <2>3. StampsPast'
      BY <1>4, ExitKeepsStamps DEF BindRefused
    <2>4. LeaseBeforeNewer'
      BY <1>4 DEF BindRefused, Exit, LeaseBeforeNewer
    <2>5. WaitedOut'
      BY <1>4 DEF BindRefused, Exit, WaitedOut
    <2> QED
      BY <1>0, <2>1, <2>2, <2>3, <2>4, <2>5 DEF EpochInv
  <1>5. ASSUME NEW p \in Proc, ClaimList(p) PROVE EpochInv'
    <2>1. EpochsUnique'
      BY <1>5 DEF ClaimList, EpochsUnique
    <2>2. PutsInOrder'
      <3>1. /\ pc[p] = "bound"
            /\ pc' = [pc EXCEPT ![p] = "claiming"]
            /\ epoch' = [epoch EXCEPT ![p] = Len(log) + 1]
            /\ log' = log /\ puts' = puts /\ vid' = vid
        BY <1>5 DEF ClaimList
      <3>2. ASSUME NEW r \in puts
            PROVE  /\ r.slot \in 1..(Len(log) + 1)
                   /\ pc'[r.nonce] \notin {"off", "id_read", "bound", "claiming"}
                   /\ pc'[r.nonce] = "put" => r.slot = epoch'[r.nonce]
        <4>1. r.nonce # p
          BY <3>1 DEF PutsInOrder
        <4> QED
          BY <3>1, <4>1 DEF PutsInOrder
      <3>3. ASSUME NEW q \in Proc
            PROVE  /\ pc'[q] \in {"bound", "claiming"} => vid[q] # NoId
                   /\ pc'[q] \in {"claiming", "put", "reconcile"}
                        => epoch'[q] \in 1..(Len(log) + 1)
        BY <3>1 DEF PutsInOrder
      <3> QED
        BY <3>1, <3>2, <3>3 DEF PutsInOrder
    <2>3. StampsPast'
      BY <1>5 DEF ClaimList, StampsPast
    <2>4. LeaseBeforeNewer'
      BY <1>5 DEF ClaimList, LeaseBeforeNewer
    <2>5. WaitedOut'
      BY <1>5 DEF ClaimList, WaitedOut
    <2> QED
      BY <1>0, <2>1, <2>2, <2>3, <2>4, <2>5 DEF EpochInv
  <1>6. ASSUME NEW p \in Proc, ClaimPut(p) PROVE EpochInv'
    <2>1. EpochsUnique'
      BY <1>6 DEF ClaimPut, EpochsUnique
    <2>2. PutsInOrder'
      <3> DEFINE mine == [nonce |-> p, volume |-> vid[p], slot |-> epoch[p]]
      <3>1. /\ pc[p] = "claiming" /\ pc' = [pc EXCEPT ![p] = "put"]
            /\ puts' = puts \cup {mine}
            /\ UNCHANGED <<log, vid, epoch>>
        BY <1>6 DEF ClaimPut
      <3>2. \A r \in puts : r.nonce \in Proc /\ r.nonce # p
        BY <3>1 DEF PutsInOrder
      <3>3. mine.nonce = p /\ mine.slot = epoch[p] /\ epoch[p] \in 1..(Len(log) + 1)
        BY <3>1 DEF PutsInOrder
      <3>4. ASSUME NEW r \in puts'
            PROVE  /\ r.slot \in 1..(Len(log') + 1)
                   /\ pc'[r.nonce] \notin {"off", "id_read", "bound", "claiming"}
                   /\ pc'[r.nonce] = "put" => r.slot = epoch'[r.nonce]
        BY <3>1, <3>2, <3>3 DEF PutsInOrder
      <3> QED
        BY <3>1, <3>4 DEF PutsInOrder
    <2>3. StampsPast'
      BY <1>6 DEF ClaimPut, StampsPast
    <2>4. LeaseBeforeNewer'
      BY <1>6 DEF ClaimPut, LeaseBeforeNewer
    <2>5. WaitedOut'
      BY <1>6 DEF ClaimPut, WaitedOut
    <2> QED
      BY <1>0, <2>1, <2>2, <2>3, <2>4, <2>5 DEF EpochInv
  <1>7. ASSUME NEW p \in Proc, ClaimConflict(p) PROVE EpochInv'
    <2>1. EpochsUnique'
      BY <1>7 DEF ClaimConflict, EpochsUnique
    <2>2. PutsInOrder'
      BY <1>7 DEF ClaimConflict, PutsInOrder
    <2>3. StampsPast'
      BY <1>7 DEF ClaimConflict, StampsPast
    <2>4. LeaseBeforeNewer'
      BY <1>7 DEF ClaimConflict, LeaseBeforeNewer
    <2>5. WaitedOut'
      BY <1>7 DEF ClaimConflict, WaitedOut
    <2> QED
      BY <1>0, <2>1, <2>2, <2>3, <2>4, <2>5 DEF EpochInv
  <1>8. ASSUME NEW p \in Proc, PutError(p) PROVE EpochInv'
    <2>1. EpochsUnique'
      BY <1>8 DEF PutError, EpochsUnique
    <2>2. PutsInOrder'
      BY <1>8 DEF PutError, PutsInOrder
    <2>3. StampsPast'
      BY <1>8 DEF PutError, StampsPast
    <2>4. LeaseBeforeNewer'
      BY <1>8 DEF PutError, LeaseBeforeNewer
    <2>5. WaitedOut'
      BY <1>8 DEF PutError, WaitedOut
    <2> QED
      BY <1>0, <2>1, <2>2, <2>3, <2>4, <2>5 DEF EpochInv
  <1>9. ASSUME NEW p \in Proc, Reconcile(p) PROVE EpochInv'
    <2>1. EpochsUnique'
      <3>1. epoch[p] \in 1..Len(log) /\ log[epoch[p]].nonce = p
        BY <1>9 DEF Reconcile, PutsInOrder
      <3>2. /\ pc' = [pc EXCEPT ![p] = "granted"]
            /\ UNCHANGED <<log, epoch>>
        BY <1>9 DEF Reconcile
      <3> QED
        BY <3>1, <3>2 DEF EpochsUnique
    <2>2. PutsInOrder'
      BY <1>9 DEF Reconcile, PutsInOrder
    <2>3. StampsPast'
      BY <1>9 DEF Reconcile, StampsPast
    <2>4. LeaseBeforeNewer'
      BY <1>9 DEF Reconcile, LeaseBeforeNewer
    <2>5. WaitedOut'
      BY <1>9 DEF Reconcile, WaitedOut
    <2> QED
      BY <1>0, <2>1, <2>2, <2>3, <2>4, <2>5 DEF EpochInv
  <1>10. ASSUME NEW p \in Proc, ReconcileLost(p) PROVE EpochInv'
    <2>1. EpochsUnique'
      BY <1>10 DEF ReconcileLost, Exit, EpochsUnique
    <2>2. PutsInOrder'
      BY <1>10 DEF ReconcileLost, Exit, PutsInOrder
    <2>3. StampsPast'
      BY <1>10, ExitKeepsStamps DEF ReconcileLost
    <2>4. LeaseBeforeNewer'
      BY <1>10 DEF ReconcileLost, Exit, LeaseBeforeNewer
    <2>5. WaitedOut'
      BY <1>10 DEF ReconcileLost, Exit, WaitedOut
    <2> QED
      BY <1>0, <2>1, <2>2, <2>3, <2>4, <2>5 DEF EpochInv
  <1>11. ASSUME NEW p \in Proc, PublishFence(p) PROVE EpochInv'
    <2>1. EpochsUnique'
      BY <1>11 DEF PublishFence, EpochsUnique
    <2>2. PutsInOrder'
      BY <1>11 DEF PublishFence, PutsInOrder
    <2>3. StampsPast'
      BY <1>11 DEF PublishFence, StampsPast
    <2>4. LeaseBeforeNewer'
      BY <1>11 DEF PublishFence, LeaseBeforeNewer
    <2>5. WaitedOut'
      BY <1>11 DEF PublishFence, WaitedOut
    <2> QED
      BY <1>0, <2>1, <2>2, <2>3, <2>4, <2>5 DEF EpochInv
  <1>12. ASSUME NEW p \in Proc, PublishRefused(p) PROVE EpochInv'
    <2>1. EpochsUnique'
      BY <1>12 DEF PublishRefused, Exit, EpochsUnique
    <2>2. PutsInOrder'
      BY <1>12 DEF PublishRefused, Exit, PutsInOrder
    <2>3. StampsPast'
      BY <1>12, ExitKeepsStamps DEF PublishRefused
    <2>4. LeaseBeforeNewer'
      BY <1>12 DEF PublishRefused, Exit, LeaseBeforeNewer
    <2>5. WaitedOut'
      BY <1>12 DEF PublishRefused, Exit, WaitedOut
    <2> QED
      BY <1>0, <2>1, <2>2, <2>3, <2>4, <2>5 DEF EpochInv
  <1>30. ASSUME NEW p \in Proc, ReadFence(p) PROVE EpochInv'
    <2>1. EpochsUnique'
      BY <1>30 DEF ReadFence, EpochsUnique
    <2>2. PutsInOrder'
      BY <1>30 DEF ReadFence, PutsInOrder
    <2>3. StampsPast'
      BY <1>30 DEF ReadFence, StampsPast
    <2>4. LeaseBeforeNewer'
      BY <1>30 DEF ReadFence, LeaseBeforeNewer
    <2>5. WaitedOut'
      BY <1>30 DEF ReadFence, WaitedOut
    <2> QED
      BY <1>0, <2>1, <2>2, <2>3, <2>4, <2>5 DEF EpochInv
  <1>31. ASSUME NEW p \in Proc, PublishFails(p) PROVE EpochInv'
    <2>1. EpochsUnique'
      BY <1>31 DEF PublishFails, Exit, EpochsUnique
    <2>2. PutsInOrder'
      BY <1>31 DEF PublishFails, Exit, PutsInOrder
    <2>3. StampsPast'
      BY <1>31, ExitKeepsStamps DEF PublishFails
    <2>4. LeaseBeforeNewer'
      BY <1>31 DEF PublishFails, Exit, LeaseBeforeNewer
    <2>5. WaitedOut'
      BY <1>31 DEF PublishFails, Exit, WaitedOut
    <2> QED
      BY <1>0, <2>1, <2>2, <2>3, <2>4, <2>5 DEF EpochInv
  <1>32. ASSUME NEW p \in Proc, PublishRetry(p) PROVE EpochInv'
    <2>1. EpochsUnique'
      BY <1>32 DEF PublishRetry, EpochsUnique
    <2>2. PutsInOrder'
      BY <1>32 DEF PublishRetry, PutsInOrder
    <2>3. StampsPast'
      BY <1>32 DEF PublishRetry, StampsPast
    <2>4. LeaseBeforeNewer'
      BY <1>32 DEF PublishRetry, LeaseBeforeNewer
    <2>5. WaitedOut'
      BY <1>32 DEF PublishRetry, WaitedOut
    <2> QED
      BY <1>0, <2>1, <2>2, <2>3, <2>4, <2>5 DEF EpochInv
  <1>13. ASSUME NEW p \in Proc, EnforceLease(p) PROVE EpochInv'
    <2>1. EpochsUnique'
      BY <1>13 DEF EnforceLease, EpochsUnique
    <2>2. PutsInOrder'
      BY <1>13 DEF EnforceLease, PutsInOrder
    <2>3. StampsPast'
      BY <1>13, SMTT(30) DEF EnforceLease, StampsPast
    <2>4. LeaseBeforeNewer'
      <3>1. /\ pc[p] = "published" /\ pc'[p] = "grace" /\ check'[p] = "idle"
            /\ lease_until'[p] = claim_started[p] + Lease
            /\ UNCHANGED <<log, epoch>>
        BY <1>13 DEF EnforceLease
      <3>2. \A q \in Proc : q # p =>
              /\ pc'[q] = pc[q] /\ check'[q] = check[q]
              /\ claim_started'[q] = claim_started[q]
              /\ lease_until'[q] = lease_until[q]
        BY <1>13 DEF EnforceLease
      <3>3. UNCHANGED <<started, newer, failed>>
        BY <1>13 DEF EnforceLease
      <3>4. ASSUME NEW e \in 1..Len(log), e > epoch[p]
            PROVE  lease_until'[p] =< log[e].at + Lease
        BY <3>1, <3>4 DEF LeaseBeforeNewer
      <3> QED
        BY <3>1, <3>2, <3>3, <3>4 DEF LeaseBeforeNewer
    <2>5. WaitedOut'
      <3>1. /\ pc'[p] = "grace" /\ grace_until'[p] = now + Grace(epoch[p])
            /\ UNCHANGED <<log, epoch, now>>
        BY <1>13 DEF EnforceLease
      <3>2. \A q \in Proc : q # p => /\ pc'[q] = pc[q]
                                    /\ grace_until'[q] = grace_until[q]
        BY <1>13 DEF EnforceLease
      <3>3. ASSUME epoch[p] \in 2..Len(log)
            PROVE  now + Grace(epoch[p]) >= log[epoch[p]].at + Lease + Margin
        BY <3>3, SMTT(30) DEF StampsPast, Grace
      <3> QED
        BY <3>1, <3>2, <3>3 DEF WaitedOut
    <2> QED
      BY <1>0, <2>1, <2>2, <2>3, <2>4, <2>5 DEF EpochInv
  <1>14. ASSUME NEW p \in Proc, OpenWal(p) PROVE EpochInv'
    <2>1. EpochsUnique'
      BY <1>14 DEF OpenWal, EpochsUnique
    <2>2. PutsInOrder'
      BY <1>14 DEF OpenWal, PutsInOrder
    <2>3. StampsPast'
      BY <1>14 DEF OpenWal, StampsPast
    <2>4. LeaseBeforeNewer'
      BY <1>14 DEF OpenWal, LeaseBeforeNewer
    <2>5. WaitedOut'
      <3>1. /\ pc[p] = "grace" /\ pc'[p] = "open" /\ now >= grace_until[p]
            /\ UNCHANGED <<log, epoch, now>>
        BY <1>14 DEF OpenWal
      <3>2. \A q \in Proc : q # p => /\ pc'[q] = pc[q]
                                    /\ grace_until'[q] = grace_until[q]
        BY <1>14 DEF OpenWal
      <3>3. ASSUME epoch[p] \in 2..Len(log)
            PROVE  now >= log[epoch[p]].at + Lease + Margin
        <4>1. grace_until[p] >= log[epoch[p]].at + Lease + Margin
          BY <3>1, <3>3 DEF WaitedOut
        <4> QED
          BY <4>1, <3>1, <3>3
      <3> QED
        BY <3>1, <3>2, <3>3 DEF WaitedOut
    <2> QED
      BY <1>0, <2>1, <2>2, <2>3, <2>4, <2>5 DEF EpochInv
  <1>15. ASSUME NEW p \in Proc, NEW b \in BOOLEAN, CheckFence(p, b) PROVE EpochInv'
    <2>1. EpochsUnique'
      BY <1>15 DEF CheckFence, EpochsUnique
    <2>2. PutsInOrder'
      BY <1>15 DEF CheckFence, PutsInOrder
    <2>3. StampsPast'
      BY <1>15 DEF CheckFence, StampsPast
    <2>4. LeaseBeforeNewer'
      BY <1>15 DEF CheckFence, LeaseBeforeNewer
    <2>5. WaitedOut'
      BY <1>15 DEF CheckFence, WaitedOut
    <2> QED
      BY <1>0, <2>1, <2>2, <2>3, <2>4, <2>5 DEF EpochInv
  <1>16. ASSUME NEW p \in Proc, NEW b \in BOOLEAN, CheckAuthority(p, b) PROVE EpochInv'
    <2>1. EpochsUnique'
      BY <1>16 DEF CheckAuthority, EpochsUnique
    <2>2. PutsInOrder'
      BY <1>16 DEF CheckAuthority, PutsInOrder
    <2>3. StampsPast'
      BY <1>16 DEF CheckAuthority, StampsPast
    <2>4. LeaseBeforeNewer'
      <3>1. /\ log' = log /\ pc' = pc /\ epoch' = epoch
            /\ claim_started' = claim_started
            /\ lease_until' = lease_until /\ started' = started
        BY <1>16 DEF CheckAuthority
      <3>2. \A q \in Proc : q # p => /\ newer'[q] = newer[q]
                                    /\ failed'[q] = failed[q]
                                    /\ check'[q] = check[q]
        BY <1>16 DEF CheckAuthority
      <3>3. /\ newer'[p] = (newer[p] \/ (b /\ Len(log) > epoch[p]))
            /\ failed'[p] = (failed[p] \/ ~b)
        BY <1>16 DEF CheckAuthority
      <3>4. (~newer'[p] /\ ~failed'[p]) => ~(Len(log) > epoch[p])
        BY <3>3, Zenon
      <3> SUFFICES ASSUME NEW q \in Proc, NEW e \in 1..Len(log),
                          pc[q] \in {"grace", "open"}, e > epoch[q],
                          check'[q] = "answered", ~newer'[q], ~failed'[q]
                   PROVE  started[q] =< log[e].at
        BY <3>1 DEF LeaseBeforeNewer
      <3>5. CASE q = p
        BY <3>4, <3>5
      <3>6. CASE q # p
        BY <3>2, <3>6 DEF LeaseBeforeNewer
      <3> QED
        BY <3>5, <3>6
    <2>5. WaitedOut'
      BY <1>16 DEF CheckAuthority, WaitedOut
    <2> QED
      BY <1>0, <2>1, <2>2, <2>3, <2>4, <2>5 DEF EpochInv
  <1>17. ASSUME NEW p \in Proc, Judge(p) PROVE EpochInv'
    <2>1. /\ now' = now /\ log' = log /\ pc' = pc /\ epoch' = epoch
          /\ claim_started' = claim_started
          /\ check'[p] = "idle" /\ started'[p] = 0
      BY <1>17 DEF Judge
    <2>2. \A q \in Proc : q # p => /\ check'[q] = check[q]
                                  /\ started'[q] = started[q]
                                  /\ newer'[q] = newer[q]
                                  /\ failed'[q] = failed[q]
                                  /\ lease_until'[q] = lease_until[q]
      BY <1>17 DEF Judge, JudgeRenew, JudgeHold, JudgeFenced
    <2>3. \/ lease_until'[p] = lease_until[p]
          \/ /\ ~newer[p] /\ ~failed[p] /\ check[p] = "answered"
             /\ lease_until'[p] = started[p] + Lease
      <3> DEFINE renewed == started[p] + Lease
      <3>1. lease_until[p] \in Nat /\ renewed \in Nat
        OBVIOUS
      <3>2. Max({lease_until[p], renewed}) \in {lease_until[p], renewed}
        BY <3>1, MaxPair
      <3> QED
        BY <1>17, <3>2 DEF Judge, JudgeRenew, JudgeHold, JudgeFenced
    <2>4. EpochsUnique'
      BY <1>17 DEF Judge, EpochsUnique
    <2>5. PutsInOrder'
      BY <1>17 DEF Judge, PutsInOrder
    <2>6. StampsPast'
      <3>1. started'[p] =< now /\ lease_until'[p] =< now + Lease
        BY <2>1, <2>3 DEF StampsPast
      <3> QED
        BY <2>1, <2>2, <3>1 DEF StampsPast
    <2>7. LeaseBeforeNewer'
      <3>1. ASSUME NEW e \in 1..Len(log), Alive(p), e > epoch[p]
            PROVE  lease_until'[p] =< log[e].at + Lease
        <4>1. lease_until[p] =< log[e].at + Lease
          BY <3>1 DEF LeaseBeforeNewer
        <4>2. (~newer[p] /\ ~failed[p] /\ check[p] = "answered")
                => started[p] =< log[e].at
          BY <3>1 DEF LeaseBeforeNewer
        <4> QED
          BY <2>3, <4>1, <4>2
      <3> SUFFICES ASSUME NEW q \in Proc, NEW e \in 1..Len(log), Alive(q), e > epoch[q]
                   PROVE  /\ lease_until'[q] =< log[e].at + Lease
                          /\ (check'[q] = "answered" /\ ~newer'[q] /\ ~failed'[q]) =>
                               started'[q] =< log[e].at
        BY <2>1 DEF LeaseBeforeNewer, Alive
      <3>2. CASE q = p
        BY <2>1, <3>1, <3>2
      <3>3. CASE q # p
        BY <2>2, <3>3 DEF LeaseBeforeNewer
      <3> QED
        BY <3>2, <3>3
    <2>8. WaitedOut'
      BY <1>17 DEF Judge, WaitedOut
    <2> QED
      BY <1>0, <2>4, <2>5, <2>6, <2>7, <2>8 DEF EpochInv
  <1>18. ASSUME NEW p \in Proc, AppendCheck(p) PROVE EpochInv'
    <2>1. EpochsUnique'
      BY <1>18 DEF AppendCheck, EpochsUnique
    <2>2. PutsInOrder'
      BY <1>18 DEF AppendCheck, PutsInOrder
    <2>3. StampsPast'
      BY <1>18 DEF AppendCheck, StampsPast
    <2>4. LeaseBeforeNewer'
      BY <1>18 DEF AppendCheck, LeaseBeforeNewer
    <2>5. WaitedOut'
      BY <1>18 DEF AppendCheck, WaitedOut
    <2> QED
      BY <1>0, <2>1, <2>2, <2>3, <2>4, <2>5 DEF EpochInv
  <1>19. ASSUME NEW p \in Proc, AppendReturn(p) PROVE EpochInv'
    <2>1. EpochsUnique'
      BY <1>19 DEF AppendReturn, EpochsUnique
    <2>2. PutsInOrder'
      BY <1>19 DEF AppendReturn, PutsInOrder
    <2>3. StampsPast'
      BY <1>19 DEF AppendReturn, StampsPast
    <2>4. LeaseBeforeNewer'
      BY <1>19 DEF AppendReturn, LeaseBeforeNewer
    <2>5. WaitedOut'
      BY <1>19 DEF AppendReturn, WaitedOut
    <2> QED
      BY <1>0, <2>1, <2>2, <2>3, <2>4, <2>5 DEF EpochInv
  <1>20. ASSUME NEW p \in Proc, Die(p) PROVE EpochInv'
    <2>1. EpochsUnique'
      BY <1>20 DEF Die, Exit, EpochsUnique
    <2>2. PutsInOrder'
      BY <1>20 DEF Die, Exit, PutsInOrder
    <2>3. StampsPast'
      BY <1>20, ExitKeepsStamps DEF Die
    <2>4. LeaseBeforeNewer'
      BY <1>20 DEF Die, Exit, LeaseBeforeNewer
    <2>5. WaitedOut'
      BY <1>20 DEF Die, Exit, WaitedOut
    <2> QED
      BY <1>0, <2>1, <2>2, <2>3, <2>4, <2>5 DEF EpochInv
  <1>21. ASSUME NEW r \in puts, NEW b \in BOOLEAN, PutCreates(r, b) PROVE EpochInv'
    <2> DEFINE grant == [nonce |-> r.nonce, volume |-> r.volume, at |-> now]
    <2>1. /\ Len(log') = Len(log) + 1
          /\ \A e \in 1..Len(log) : log'[e] = log[e]
          /\ log'[Len(log) + 1].nonce = r.nonce /\ log'[Len(log) + 1].at = now
      <3>1. log \in Seq(Grant) /\ log' = Append(log, grant)
        BY <1>0, <1>21 DEF PutCreates, TypeOK
      <3>2. grant \in Grant
        BY <1>0, <1>21 DEF TypeOK, Grant
      <3> QED
        BY <3>1, <3>2, AppendProperties
    <2>2. r.slot = Len(log) + 1 /\ r.nonce \in Proc
      BY <1>21 DEF PutCreates, PutsInOrder
    <2>3. pc[r.nonce] = "put" => epoch[r.nonce] = Len(log) + 1
      BY <2>2 DEF PutsInOrder
    <2>4. /\ puts' = puts \ {r} /\ now' = now /\ vid' = vid /\ epoch' = epoch
          /\ claim_started' = claim_started /\ grace_until' = grace_until
          /\ lease_until' = lease_until /\ check' = check /\ started' = started
          /\ newer' = newer /\ failed' = failed
      BY <1>21 DEF PutCreates
    <2>5. \A q \in Proc :
            \/ pc'[q] = pc[q]
            \/ q = r.nonce /\ pc[q] = "put" /\ pc'[q] = "granted"
      BY <1>21, <2>2 DEF PutCreates
    <2>6. EpochsUnique'
      <3> SUFFICES ASSUME NEW q \in Proc,
                          pc'[q] \in {"granted", "swapping", "published", "grace", "open"}
                   PROVE  epoch[q] \in 1..(Len(log) + 1) /\ log'[epoch[q]].nonce = q
        BY <2>1, <2>4 DEF EpochsUnique
      <3>1. CASE pc'[q] = pc[q]
        BY <2>1, <3>1, SMTT(30) DEF EpochsUnique
      <3>2. CASE q = r.nonce /\ pc[q] = "put"
        BY <2>1, <2>3, <3>2
      <3> QED
        BY <2>5, <3>1, <3>2
    <2>7. PutsInOrder'
      <3>1. ASSUME NEW s \in puts
            PROVE  /\ s.slot \in 1..(Len(log') + 1)
                   /\ pc'[s.nonce] \notin {"off", "id_read", "bound", "claiming"}
                   /\ pc'[s.nonce] = "put" => s.slot = epoch[s.nonce]
        BY <2>1, <2>5, SMTT(30) DEF PutsInOrder
      <3>2. ASSUME NEW q \in Proc
            PROVE  /\ pc'[q] \in {"bound", "claiming"} => vid[q] # NoId
                   /\ pc'[q] \in {"claiming", "put", "reconcile"}
                        => epoch[q] \in 1..(Len(log') + 1)
        BY <2>1, <2>5 DEF PutsInOrder
      <3> QED
        BY <2>4, <3>1, <3>2 DEF PutsInOrder
    <2>8. StampsPast'
      <3>1. ASSUME NEW e \in 1..(Len(log) + 1) PROVE log'[e].at =< now
        <4>1. CASE e \in 1..Len(log)
          BY <2>1, <4>1 DEF StampsPast
        <4>2. CASE e = Len(log) + 1
          BY <2>1, <4>2
        <4>3. e \in 1..Len(log) \/ e = Len(log) + 1
          BY <2>4
        <4> QED
          BY <4>1, <4>2, <4>3, Zenon
      <3> QED
        BY <2>1, <2>4, <3>1 DEF StampsPast
    <2>9. LeaseBeforeNewer'
      <3> SUFFICES ASSUME NEW q \in Proc, NEW e \in 1..Len(log')
                   PROVE  /\ (pc'[q] \in {"claiming", "put", "reconcile"} /\ e >= epoch[q])
                               => claim_started[q] =< log'[e].at
                          /\ (pc'[q] \in {"granted", "swapping", "published"} /\ e > epoch[q])
                               => claim_started[q] =< log'[e].at
                          /\ (pc'[q] \in {"grace", "open"} /\ e > epoch[q]) =>
                               /\ lease_until[q] =< log'[e].at + Lease
                               /\ (check[q] = "answered" /\ ~newer[q] /\ ~failed[q])
                                    => started[q] =< log'[e].at
        BY <2>4 DEF LeaseBeforeNewer
      <3>1. CASE e \in 1..Len(log)
        <4>1. log'[e].at = log[e].at
          BY <2>1, <3>1
        <4>2. CASE pc'[q] = pc[q]
          BY <3>1, <4>1, <4>2 DEF LeaseBeforeNewer
        <4>3. CASE pc[q] = "put" /\ pc'[q] = "granted"
          BY <3>1, <4>1, <4>3 DEF LeaseBeforeNewer
        <4> QED
          BY <2>5, <4>2, <4>3
      <3>2. CASE e = Len(log) + 1
        BY <2>1, <3>2 DEF StampsPast
      <3> QED
        BY <2>1, <3>1, <3>2
    <2>10. WaitedOut'
      <3> SUFFICES ASSUME NEW q \in Proc, pc'[q] \in {"grace", "open"},
                          epoch[q] \in 2..(Len(log) + 1)
                   PROVE  (IF pc'[q] = "open" THEN now ELSE grace_until[q])
                            >= log'[epoch[q]].at + Lease + Margin
        BY <2>1, <2>4 DEF WaitedOut
      <3>1. pc'[q] = pc[q]
        BY <2>5
      <3>2. epoch[q] \in 2..Len(log)
        BY <3>1 DEF EpochsUnique
      <3>3. log'[epoch[q]] = log[epoch[q]]
        BY <2>1, <3>2
      <3> QED
        BY <3>1, <3>2, <3>3 DEF WaitedOut
    <2> QED
      BY <1>0, <2>6, <2>7, <2>8, <2>9, <2>10 DEF EpochInv
  <1>22. ASSUME NEW r \in puts, NEW b \in BOOLEAN, PutConflicts(r, b) PROVE EpochInv'
    <2>1. EpochsUnique'
      BY <1>22 DEF PutConflicts, EpochsUnique
    <2>2. PutsInOrder'
      BY <1>22 DEF PutConflicts, PutsInOrder
    <2>3. StampsPast'
      BY <1>22 DEF PutConflicts, StampsPast
    <2>4. LeaseBeforeNewer'
      BY <1>22 DEF PutConflicts, LeaseBeforeNewer
    <2>5. WaitedOut'
      BY <1>22 DEF PutConflicts, WaitedOut
    <2> QED
      BY <1>0, <2>1, <2>2, <2>3, <2>4, <2>5 DEF EpochInv
  <1>23. CASE Tick
    <2>1. EpochsUnique'
      BY <1>23 DEF Tick, EpochsUnique
    <2>2. PutsInOrder'
      BY <1>23 DEF Tick, PutsInOrder
    <2>3. StampsPast'
      BY <1>23 DEF Tick, StampsPast
    <2>4. LeaseBeforeNewer'
      BY <1>23 DEF Tick, LeaseBeforeNewer
    <2>5. WaitedOut'
      <3>1. now' = now + 1 /\ UNCHANGED <<log, pc, epoch, grace_until>>
        BY <1>23 DEF Tick
      <3>2. ASSUME NEW q \in Proc, Alive(q), epoch[q] \in 2..Len(log)
            PROVE  (IF pc[q] = "open" THEN now + 1 ELSE grace_until[q])
                     >= log[epoch[q]].at + Lease + Margin
        BY <3>2, SMTT(30) DEF WaitedOut
      <3> QED
        BY <3>1, <3>2 DEF WaitedOut
    <2> QED
      BY <1>0, <2>1, <2>2, <2>3, <2>4, <2>5 DEF EpochInv
  <1>24. CASE UNCHANGED vars
    <2>1. EpochsUnique'
      BY <1>24 DEF vars, EpochsUnique
    <2>2. PutsInOrder'
      BY <1>24 DEF vars, PutsInOrder
    <2>3. StampsPast'
      BY <1>24 DEF vars, StampsPast
    <2>4. LeaseBeforeNewer'
      BY <1>24 DEF vars, LeaseBeforeNewer
    <2>5. WaitedOut'
      BY <1>24 DEF vars, WaitedOut
    <2> QED
      BY <1>0, <2>1, <2>2, <2>3, <2>4, <2>5 DEF EpochInv
  <1> QED
    BY NextCases, <1>1, <1>2, <1>3, <1>4, <1>5, <1>6, <1>7, <1>8, <1>9, <1>10, <1>11, <1>12, <1>13, <1>14, <1>15, <1>16, <1>17, <1>18, <1>19, <1>20, <1>21, <1>22, <1>23, <1>24, <1>30, <1>31, <1>32

\* Type correctness: every reachable state has the declared types.
THEOREM TypeCorrect == Spec => []TypeOK
  <1>1. Init => EpochInv
    BY EpochInvInit
  <1>2. EpochInv /\ [Next]_vars => EpochInv'
    BY EpochInvNext
  <1>3. EpochInv => TypeOK
    BY DEF EpochInv
  <1> QED
    BY <1>1, <1>2, <1>3, PTL DEF Spec

\* acquire_next never hands the same epoch to two processes, whatever answers
\* are lost, late or refused, and an owner's slot holds its own claim.
THEOREM EpochsAreUnique == Spec => []EpochsUnique
  <1>1. Init => EpochInv
    BY EpochInvInit
  <1>2. EpochInv /\ [Next]_vars => EpochInv'
    BY EpochInvNext
  <1>3. EpochInv => EpochsUnique
    BY DEF EpochInv
  <1> QED
    BY <1>1, <1>2, <1>3, PTL DEF Spec

\* The invariant rules out an older owner that passes ensure_owner while a
\* newer one has the WAL open.
LEMMA InvImpliesOneWriter == EpochInv => OneWriter
  <1> SUFFICES ASSUME EpochInv, NEW p \in Proc, NEW q \in Proc,
                      pc[p] = "open", pc[q] = "open", EnsureOwner(q),
                      ~(epoch[p] =< epoch[q])
               PROVE  FALSE
    BY DEF OneWriter
  <1>1. epoch[p] \in 2..Len(log)
    BY DEF EpochInv, TypeOK, EpochsUnique, Owns
  <1>2. log[epoch[p]].at \in Nat
    BY <1>1, TypesGiveShape DEF EpochInv, Shape
  <1>3. lease_until[q] =< log[epoch[p]].at + Lease
    BY <1>1, SMTT(30) DEF EpochInv, TypeOK, LeaseBeforeNewer, Alive
  <1>4. now >= log[epoch[p]].at + Lease + Margin
    BY <1>1 DEF EpochInv, WaitedOut, Alive
  <1>5. now \in Nat /\ lease_until[q] \in Nat /\ now =< lease_until[q]
    BY DEF EnsureOwner, EpochInv, TypeOK
  <1> QED
    BY <1>2, <1>3, <1>4, <1>5, TimingAssumption

\* At most one process can still make writes durable once it has opened the
\* WAL: an older owner's lease is over before a newer owner's wait is, for any
\* number of processes, pauses, crashes and lost answers.
THEOREM OneWriterHolds == Spec => []OneWriter
  <1>1. Init => EpochInv
    BY EpochInvInit
  <1>2. EpochInv /\ [Next]_vars => EpochInv'
    BY EpochInvNext
  <1> QED
    BY <1>1, <1>2, InvImpliesOneWriter, PTL DEF Spec

\* publish_fence goes on to its swap only with an older epoch in hand.
LEMMA SeenStaysOlder ==
  ASSUME TypeOK, SeenOlder, [Next]_vars
  PROVE  SeenOlder'
  <1> USE DEF TypeOK, Pc
  <1> SUFFICES ASSUME NEW q \in Proc, pc'[q] = "swapping"
               PROVE  seen'[q] < epoch'[q]
    BY DEF SeenOlder
  <1>1. ASSUME NEW p \in Proc, ReadFence(p) PROVE seen'[q] < epoch'[q]
    BY <1>1 DEF ReadFence, SeenOlder
  <1> DEFINE Kept == /\ pc[q] = "swapping"
                     /\ seen'[q] = seen[q] /\ epoch'[q] = epoch[q]
  <1>2. ASSUME ~(\E p \in Proc : ReadFence(p)) PROVE Kept
    <2> USE DEF vars, boot
    <2>1. CASE UNCHANGED vars
      BY <2>1
    <2>2. CASE Next
      <3>1. ASSUME NEW p \in Proc, NEW v \in Volume, Boot(p, v) PROVE Kept
        BY <3>1 DEF Boot
      <3>2. ASSUME NEW p \in Proc, BindMatching(p) PROVE Kept
        BY <3>2 DEF BindMatching
      <3>3. ASSUME NEW p \in Proc, BindFresh(p) PROVE Kept
        BY <3>3 DEF BindFresh
      <3>4. ASSUME NEW p \in Proc, ClaimList(p) PROVE Kept
        BY <3>4 DEF ClaimList
      <3>5. ASSUME NEW p \in Proc, ClaimPut(p) PROVE Kept
        BY <3>5 DEF ClaimPut
      <3>6. ASSUME NEW p \in Proc, ClaimConflict(p) PROVE Kept
        BY <3>6 DEF ClaimConflict
      <3>7. ASSUME NEW p \in Proc, PutError(p) PROVE Kept
        BY <3>7 DEF PutError
      <3>8. ASSUME NEW p \in Proc, Reconcile(p) PROVE Kept
        BY <3>8 DEF Reconcile
      <3>9. ASSUME NEW p \in Proc, PublishFence(p) PROVE Kept
        BY <3>9 DEF PublishFence
      <3>10. ASSUME NEW p \in Proc, PublishRetry(p) PROVE Kept
        BY <3>10 DEF PublishRetry
      <3>11. ASSUME NEW p \in Proc, EnforceLease(p) PROVE Kept
        BY <3>11 DEF EnforceLease
      <3>12. ASSUME NEW p \in Proc, OpenWal(p) PROVE Kept
        BY <3>12 DEF OpenWal
      <3>13. ASSUME NEW p \in Proc, BindRefused(p) PROVE Kept
        BY <3>13 DEF BindRefused, Exit
      <3>14. ASSUME NEW p \in Proc, ReconcileLost(p) PROVE Kept
        BY <3>14 DEF ReconcileLost, Exit
      <3>15. ASSUME NEW p \in Proc, PublishRefused(p) PROVE Kept
        BY <3>15 DEF PublishRefused, Exit
      <3>16. ASSUME NEW p \in Proc, PublishFails(p) PROVE Kept
        BY <3>16 DEF PublishFails, Exit
      <3>17. ASSUME NEW p \in Proc, Die(p) PROVE Kept
        BY <3>17 DEF Die, Exit
      <3>18. ASSUME NEW p \in Proc, AppendCheck(p) PROVE Kept
        BY <3>18 DEF AppendCheck
      <3>19. ASSUME NEW p \in Proc, AppendReturn(p) PROVE Kept
        BY <3>19 DEF AppendReturn
      <3>20. ASSUME NEW p \in Proc, Judge(p) PROVE Kept
        BY <3>20 DEF Judge
      <3>21. ASSUME NEW p \in Proc, NEW b \in BOOLEAN, CheckFence(p, b) PROVE Kept
        BY <3>21 DEF CheckFence
      <3>22. ASSUME NEW p \in Proc, NEW b \in BOOLEAN, CheckAuthority(p, b) PROVE Kept
        BY <3>22 DEF CheckAuthority
      <3>23. ASSUME NEW r \in puts, NEW b \in BOOLEAN, PutCreates(r, b) PROVE Kept
        BY <3>23 DEF PutCreates
      <3>24. ASSUME NEW r \in puts, NEW b \in BOOLEAN, PutConflicts(r, b) PROVE Kept
        BY <3>24 DEF PutConflicts
      <3>25. CASE Tick
        BY <3>25 DEF Tick
      <3> QED
        BY <1>2, <2>2, NextCases, <3>1, <3>2, <3>3, <3>4, <3>5, <3>6, <3>7, <3>8, <3>9, <3>10, <3>11, <3>12, <3>13, <3>14, <3>15, <3>16, <3>17, <3>18, <3>19, <3>20, <3>21, <3>22, <3>23, <3>24, <3>25
    <2> QED
      BY <2>1, <2>2
  <1> QED
    BY <1>1, <1>2 DEF SeenOlder

\* Only the exchange touches a fence file, and it stores a newer epoch over the
\* one that was read, or nothing.
LEMMA StepsForwardOnly ==
  ASSUME TypeOK, SeenOlder, [Next]_vars
  PROVE  ForwardOnly
  <1>0. /\ fence_file \in [Volume -> Nat] /\ epoch \in [Proc -> Nat]
        /\ seen \in [Proc -> Nat] /\ attached \in [Proc -> Volume]
    BY DEF TypeOK
  <1>1. ASSUME UNCHANGED fence_file PROVE ForwardOnly
    BY <1>0, <1>1 DEF ForwardOnly
  <1>2. ASSUME NEW p \in Proc, PublishFence(p) PROVE ForwardOnly
    BY <1>0, <1>2 DEF PublishFence, ForwardOnly, SeenOlder
  <1>3. ASSUME NEW p \in Proc, PublishFails(p) PROVE ForwardOnly
    BY <1>0, <1>3 DEF PublishFails, ForwardOnly, SeenOlder
  <1>4. ASSUME ~(\E p \in Proc : PublishFence(p) \/ PublishFails(p))
        PROVE  UNCHANGED fence_file
    <2> USE DEF vars, store
    <2>1. CASE UNCHANGED vars
      BY <2>1
    <2>2. CASE Next
      BY <1>4, <2>2, NextCases
         DEF Boot, BindMatching, BindFresh, BindRefused, ClaimList, ClaimPut,
             ClaimConflict, PutError, Reconcile, ReconcileLost, ReadFence,
             PublishRefused, PublishRetry, EnforceLease, OpenWal, CheckFence,
             CheckAuthority, Judge, JudgeRenew, JudgeHold, JudgeFenced,
             AppendCheck, AppendReturn, Die, PutCreates, PutConflicts, Tick
    <2> QED
      BY <2>1, <2>2
  <1> QED
    BY <1>1, <1>2, <1>3, <1>4

\* No step takes a fence file back to an older epoch, whoever publishes between
\* a process's read of the file and its exchange.
THEOREM FenceIsMonotone == Spec => FenceMonotone
  <1> DEFINE FInv == EpochInv /\ SeenOlder
  <1>1. Init => FInv
    BY EpochInvInit DEF Init, SeenOlder
  <1>2. FInv /\ [Next]_vars => FInv'
    BY EpochInvNext, SeenStaysOlder DEF EpochInv
  <1>3. FInv /\ [Next]_vars => [ForwardOnly]_vars
    BY StepsForwardOnly DEF EpochInv
  <1> HIDE DEF FInv
  <1> QED
    BY <1>1, <1>2, <1>3, PTL DEF Spec, FenceMonotone
============================================================================
