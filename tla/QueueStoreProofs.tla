-------------------------- MODULE QueueStoreProofs --------------------------
(***************************************************************************)
(* Proofs about QueueStore, for any number of senders and groups, any      *)
(* capacity, length of frames, batch and number of failures and crashes:   *)
(* the types, that an acknowledged message survives and is replayed, and   *)
(* that no offset a group has passed is given out again.                   *)
(***************************************************************************)
EXTENDS QueueStore, MinMaxLemmas, FiniteSetTheorems, TLAPS

(***************************************************************************)
(* The inductive invariant of the types                                    *)
(***************************************************************************)

Message == [off : Offset, msg : Sender]

\* A send that is neither new nor over
LivePc == {"reserved", "appended", "waiting"}

\* How many senders are at none of these steps
CountNotAt(f, S) == Cardinality({p \in Sender : f[p] \notin S})

\* Sends that have taken an offset, and those that are past the append: every
\* offset and every segment but those of restarts is due to one of them.
Used == CountNotAt(pc, {"new"})
Begun == CountNotAt(pc, {"new", "reserved"})

DiskTypes ==
  /\ DOMAIN segment \subseteq Nat /\ DOMAIN segment # {}
  /\ \A id \in DOMAIN segment : segment[id] \in Seq(Frame)
  /\ DOMAIN synced = DOMAIN segment
  /\ \A id \in DOMAIN segment : synced[id] \in 0..Len(segment[id])
  /\ DOMAIN archive \subseteq Nat
  /\ \A id \in DOMAIN archive : archive[id] \in Seq(Frame)
  /\ uploaded \subseteq DOMAIN archive

GroupTypes ==
  /\ archiving \in BOOLEAN /\ capacity \in Nat \ {0}
  /\ registered \subseteq Group
  /\ committed \in [Group -> Offset \cup {NoCommit}]
  /\ cursor \in [Group -> Offset \cup {-1, Cardinality(Sender)}]
  /\ out \in [Group -> SUBSET Offset]

WriterTypes ==
  /\ up \in BOOLEAN /\ next_offset \in Nat /\ active \in Nat
  /\ up => active \in DOMAIN segment
  /\ DOMAIN memory \subseteq Offset
  /\ \A o \in DOMAIN memory : memory[o] \in Sender
  /\ Cardinality(DOMAIN memory) =< capacity
  /\ size \in Int

ScanTypes ==
  /\ scan \in [active : Nat, commit : Offset \cup {NoCommit}]
  /\ scan.active =< active
  /\ ~up => scan = NoScan
  /\ released \in Offset \cup {NoCommit}

SendTypes ==
  /\ pc \in [Sender -> {"new", "reserved", "appended", "waiting",
                        "acked", "failed", "lost"}]
  /\ off \in [Sender -> Offset] /\ seg \in [Sender -> 0..MaxSegment]
  /\ pending \in Seq(Sender) /\ batch \subseteq Sender
  /\ fails \in Nat /\ crashes \in 0..MaxCrashes
  /\ ~up => queued = {} /\ \A p \in Sender : pc[p] \notin LivePc
  /\ queued \subseteq Sender /\ astray \subseteq Sender
  /\ \A p \in queued : pc[p] \notin {"new", "reserved", "lost"}

\* A send that takes an offset or has its write to come
Live(p) == pc[p] \in LivePc \/ p \in queued

\* The offsets of a file are below n.
Below(s, n) == \A i \in 1..Len(s) : s[i] # Torn => s[i].off < n

\* Every offset there is was taken by some send.
OffsetsTaken ==
  /\ next_offset =< Used
  /\ \A id \in DOMAIN segment : Below(segment[id], Used)
  /\ \A id \in DOMAIN archive : Below(archive[id], Used)
  /\ \A g \in Group : committed[g] < Used /\ \A o \in out[g] : o < Used
  /\ \A p \in Sender : Live(p) => off[p] < Used
  /\ \A o \in DOMAIN memory : o < Used

\* Every segment was begun by a send or a restart.
SegmentsBegun ==
  /\ up => /\ active =< Begun + crashes
           /\ \A id \in DOMAIN segment \cup DOMAIN archive : id =< active
  /\ ~up => \A id \in DOMAIN segment \cup DOMAIN archive : id < Begun + crashes
  /\ \E t \in DOMAIN segment :
       \A id \in DOMAIN segment \cup DOMAIN archive : id =< t

TInv ==
  /\ DiskTypes /\ GroupTypes /\ WriterTypes /\ ScanTypes /\ SendTypes
  /\ OffsetsTaken /\ SegmentsBegun

(***************************************************************************)
(* The inductive invariant of the messages                                 *)
(***************************************************************************)

\* A file as writes leave it: a torn frame is the last one, behind a whole one.
Clean(s) == \A i \in 1..Len(s) : s[i] = Torn => i = Len(s) /\ i > 1

\* The frames of file id are what their senders wrote to it, each once; the
\* sends' steps, offsets and segments are c, o and g.
Authentic(s, id, c, o, g) ==
  /\ \A i \in 1..Len(s) : s[i] # Torn =>
       /\ s[i] = [off |-> o[s[i].msg], msg |-> s[i].msg] /\ g[s[i].msg] = id
       /\ c[s[i].msg] \notin {"new", "reserved"}
  /\ \A i, j \in 1..Len(s) :
       s[i] # Torn /\ s[j] # Torn /\ s[i].msg = s[j].msg => i = j

\* Frames out of the order of their offsets are known to be exposed.
Exposed(s, x) ==
  \A i, j \in 1..Len(s) :
    i < j /\ s[i] # Torn /\ s[j] # Torn /\ s[i].off > s[j].off => s[i].off \in x

In(f, s, n) == \E i \in 1..n : s[i] = f

OnDisk(p) ==
  \/ \E id \in DOMAIN segment : In(FrameOf(p), segment[id], Len(segment[id]))
  \/ \E id \in DOMAIN archive : In(FrameOf(p), archive[id], Len(archive[id]))

\* A file that is being written has no torn frame, and not yet the new one.
FilesOK ==
  /\ \A id \in DOMAIN segment :
       /\ Clean(segment[id]) /\ Authentic(segment[id], id, pc, off, seg)
       /\ Exposed(segment[id], exposed)
  /\ \A id \in DOMAIN archive :
       Clean(archive[id]) /\ Authentic(archive[id], id, pc, off, seg)
  /\ up => \A i \in 1..Len(segment[active]) : segment[active][i] # Torn
  /\ \A p \in queued : seg[p] \in DOMAIN segment =>
       \A i \in 1..Len(segment[seg[p]]) : segment[seg[p]][i] # Torn
  /\ \A p \in queued : ~OnDisk(p)

\* The highest segment stays: nothing is sealed, archived or written past it.
Top(t) ==
  /\ t \in DOMAIN segment
  /\ \A id \in DOMAIN segment : id =< t
  /\ \A id \in DOMAIN archive : id < t
  /\ \A p \in Sender : seg[p] =< t
  /\ up => active = t

\* A marked segment is in the archive as far as it is still there and was
\* written in time.
Archived ==
  \A id \in uploaded \cap DOMAIN segment :
    \A i \in 1..Len(segment[id]) :
      segment[id][i] # Torn /\ segment[id][i].msg \notin astray =>
        i \in 1..Len(archive[id]) /\ archive[id][i] = segment[id][i]

\* What is left of an acknowledged message: its frame is synced, or in the
\* archive, or was let go.
Kept(p) ==
  \/ seg[p] \in DOMAIN segment /\ In(FrameOf(p), segment[seg[p]], synced[seg[p]])
  \/ /\ seg[p] \notin DOMAIN segment /\ archiving
     /\ seg[p] \in DOMAIN archive
     /\ In(FrameOf(p), archive[seg[p]], Len(archive[seg[p]]))
  \/ ~archiving /\ (Released(p) \/ Misplaced(p))

InMemory(p) == off[p] \in DOMAIN memory /\ memory[off[p]] = p

SendsOK ==
  /\ \A i \in 1..Len(pending) : pc[pending[i]] = "waiting"
  /\ \A p \in batch : pc[p] = "waiting"
  /\ \A i, j \in 1..Len(pending) : pending[i] = pending[j] => i = j
  /\ \A i \in 1..Len(pending) : pending[i] \notin batch
  /\ \A p \in Sender \ (queued \cup astray) :
       pc[p] \in {"appended", "waiting"} /\ seg[p] \in DOMAIN segment =>
         In(FrameOf(p), segment[seg[p]], Len(segment[seg[p]]))
  /\ \A p \in Sender : pc[p] = "waiting" => InMemory(p)
  /\ \A p \in Acked : Kept(p) \/ p \in astray
  /\ up => \A p \in Acked :
             InMemory(p) \/ Released(p) \/ Misplaced(p) \/ p \in astray

\* The messages the code may lose
Exempt(p) == Misplaced(p) \/ p \in astray

\* Offsets in use differ, and are below the next one.
OffsetsApart ==
  /\ \A p \in Sender : Live(p) => off[p] < next_offset
  /\ up => \A p \in Acked : off[p] < next_offset \/ Exempt(p)
  /\ \A p, q \in Sender : p # q /\ Live(p) /\ Live(q) => off[p] # off[q]
  /\ \A p \in Acked, q \in Sender :
       p # q /\ Live(q) => off[p] # off[q] \/ Exempt(p)

\* Where an offset was used twice, the frame of the one that counts is last.
LastCounts ==
  \A q \in Sender : OnDisk(q) =>
    /\ up /\ off[q] >= next_offset => seg[q] < active
    /\ \A p \in Sender : p # q /\ off[p] = off[q] =>
         /\ pc[p] = "reserved" => seg[q] < active
         /\ pc[p] \in {"appended", "waiting", "acked"} =>
              seg[q] < seg[p] \/ Exempt(p)

\* Progress: a group commits what was delivered to it, and what was let go is
\* behind some group.
ProgressOK ==
  /\ \A g \in Group \ registered : committed[g] = NoCommit /\ cursor[g] = -1
  /\ \A g \in Group : cursor[g] = -1 => out[g] = {}
  /\ ~up => \A g \in Group : cursor[g] = -1
  /\ \A g \in Group : \A o \in out[g] : o > committed[g] /\ o < cursor[g]
  /\ \A g \in Group : cursor[g] # -1 => committed[g] < cursor[g]
  /\ up => /\ \A o \in DOMAIN memory : o < next_offset
           /\ \A g \in Group : /\ committed[g] < next_offset
                               /\ \A o \in out[g] : o < next_offset
  /\ scan.commit =< released
  /\ released # NoCommit => \E g \in registered : committed[g] >= released

SInv ==
  /\ FilesOK
  /\ \E t \in DOMAIN segment : Top(t)
  /\ Archived
  /\ SendsOK
  /\ OffsetsApart
  /\ LastCounts
  /\ ProgressOK

----------------------------------------------------------------------------
(* Counts, files and the operators of the model *)

\* There are finitely many senders.
LEMMA SenderCount == Cardinality(Sender) \in Nat
  BY SenderAssumption, FS_CardinalityType

\* A count is at most the number of senders and grows with its set.
LEMMA CountGrows ==
  ASSUME NEW f, NEW g, NEW S, \A p \in Sender : g[p] \in S => f[p] \in S
  PROVE  /\ CountNotAt(f, S) \in Nat /\ CountNotAt(g, S) \in Nat
         /\ CountNotAt(f, S) =< CountNotAt(g, S)
         /\ CountNotAt(g, S) =< Cardinality(Sender)
  <1> DEFINE F == {p \in Sender : f[p] \notin S}
             G == {p \in Sender : g[p] \notin S}
  <1>1. F \in SUBSET G /\ G \in SUBSET Sender
    OBVIOUS
  <1> HIDE DEF F, G
  <1>2. IsFiniteSet(G) /\ Cardinality(G) =< Cardinality(Sender)
    BY <1>1, SenderAssumption, FS_Subset
  <1>3. IsFiniteSet(F) /\ Cardinality(F) =< Cardinality(G)
    BY <1>1, <1>2, FS_Subset
  <1>4. Cardinality(F) \in Nat /\ Cardinality(G) \in Nat
    BY <1>2, <1>3, FS_CardinalityType
  <1> QED
    BY <1>2, <1>3, <1>4 DEF CountNotAt, F, G

\* It grows strictly when one sender more is in it.
LEMMA CountGrowsBy ==
  ASSUME NEW f, NEW g, NEW S, \A p \in Sender : g[p] \in S => f[p] \in S,
         NEW x \in Sender, f[x] \in S, g[x] \notin S
  PROVE  CountNotAt(f, S) + 1 =< CountNotAt(g, S)
  <1> DEFINE F == {p \in Sender : f[p] \notin S}
             G == {p \in Sender : g[p] \notin S}
  <1>1. F \cup {x} \in SUBSET G /\ G \in SUBSET Sender /\ x \notin F
    OBVIOUS
  <1> HIDE DEF F, G
  <1>2. IsFiniteSet(G)
    BY <1>1, SenderAssumption, FS_Subset
  <1>3. IsFiniteSet(F) /\ Cardinality(F) \in Nat
    BY <1>1, <1>2, FS_Subset, FS_CardinalityType
  <1>4. Cardinality(F \cup {x}) =< Cardinality(G)
    BY <1>1, <1>2, FS_Subset
  <1>5. Cardinality(F \cup {x}) = Cardinality(F) + 1
    BY <1>1, <1>3, FS_AddElement
  <1> QED
    BY <1>4, <1>5 DEF CountNotAt, F, G

\* A frame is whole or torn.
LEMMA FrameKinds ==
  /\ Frame = Message \cup {Torn} /\ Torn \notin Message
  BY TornAssumption DEF Frame, Message

\* Whole(s) is the part before the first torn frame.
LEMMA WholeIs ==
  ASSUME NEW s \in Seq(Frame)
  PROVE  /\ Whole(s) \in Seq(Message) /\ Len(Whole(s)) =< Len(s)
         /\ \A i \in 1..Len(Whole(s)) : Whole(s)[i] = s[i] /\ s[i] # Torn
         /\ Len(Whole(s)) = Len(s) \/ s[Len(Whole(s)) + 1] = Torn
  <1> DEFINE S == {Len(s) + 1} \cup {i \in DOMAIN s : s[i] = Torn}
             m == Min(S)
  <1>1. Len(s) \in Nat /\ DOMAIN s = 1..Len(s)
    OBVIOUS
  <1>2. S \in SUBSET Nat /\ S # {}
    BY <1>1
  <1>3. m \in S /\ \A y \in S : m =< y
    <2> HIDE DEF S
    <2> QED
      BY <1>2, MinOfNats
  <1>4. m \in 1..(Len(s) + 1)
    BY <1>1, <1>3
  <1>5. \A i \in 1..(m - 1) : i \in 1..Len(s) /\ s[i] # Torn
    <2> TAKE i \in 1..(m - 1)
    <2>1. i \in Nat /\ i < m /\ i >= 1 /\ i \in 1..Len(s)
      BY <1>4
    <2>2. i \notin S
      BY <1>3, <2>1
    <2> QED
      BY <1>1, <2>1, <2>2
  <1>6. m = Len(s) + 1 \/ s[m] = Torn
    BY <1>3
  <1> HIDE DEF m
  <1>7. \A i \in 1..(m - 1) : s[i] \in Message
    <2> TAKE i \in 1..(m - 1)
    <2>1. s[i] \in Frame /\ s[i] # Torn
      BY <1>5
    <2> QED
      BY <2>1, FrameKinds
  <1> DEFINE w == SubSeq(s, 1, m - 1)
  <1>8. /\ Len(w) = m - 1
        /\ \A i \in 1..(m - 1) : w[i] = s[i]
    BY <1>1, <1>4
  <1>9. w \in Seq(Message)
    <2>1. w = [i \in 1..(m - 1) |-> s[i]]
      BY <1>1, <1>4
    <2> QED
      BY <2>1, <1>7, <1>4
  <1>10. Whole(s) = w
    BY DEF Whole, m, S
  <1> HIDE DEF w
  <1> QED
    BY <1>1, <1>4, <1>5, <1>6, <1>8, <1>9, <1>10

----------------------------------------------------------------------------
(* Types *)

\* What a step does to the counts when no sender goes back
LEMMA CountStep ==
  ASSUME SendTypes,
         \A p \in Sender : pc'[p] = "new" => pc[p] = "new",
         \A p \in Sender : pc'[p] \in {"new", "reserved"}
                             => pc[p] \in {"new", "reserved"}
  PROVE  /\ Used \in Nat /\ Used' \in Nat /\ Begun \in Nat /\ Begun' \in Nat
         /\ Used =< Used' /\ Used' =< Cardinality(Sender)
         /\ Begun =< Begun' /\ Begun' =< Cardinality(Sender)
  <1>1. /\ CountNotAt(pc, {"new"}) \in Nat /\ CountNotAt(pc', {"new"}) \in Nat
        /\ CountNotAt(pc, {"new"}) =< CountNotAt(pc', {"new"})
        /\ CountNotAt(pc', {"new"}) =< Cardinality(Sender)
    <2>1. \A p \in Sender : pc'[p] \in {"new"} => pc[p] \in {"new"}
      OBVIOUS
    <2> QED
      BY <2>1, CountGrows
  <1>2. /\ CountNotAt(pc, {"new", "reserved"}) \in Nat
        /\ CountNotAt(pc', {"new", "reserved"}) \in Nat
        /\ CountNotAt(pc, {"new", "reserved"})
             =< CountNotAt(pc', {"new", "reserved"})
        /\ CountNotAt(pc', {"new", "reserved"}) =< Cardinality(Sender)
    BY CountGrows
  <1> QED
    BY <1>1, <1>2 DEF Used, Begun

\* The counts as they are
LEMMA CountNow ==
  /\ Used \in Nat /\ Used =< Cardinality(Sender)
  /\ Begun \in Nat /\ Begun =< Cardinality(Sender)
  <1>1. /\ CountNotAt(pc, {"new"}) \in Nat
        /\ CountNotAt(pc, {"new"}) =< Cardinality(Sender)
    BY CountGrows
  <1>2. /\ CountNotAt(pc, {"new", "reserved"}) \in Nat
        /\ CountNotAt(pc, {"new", "reserved"}) =< Cardinality(Sender)
    BY CountGrows
  <1> QED
    BY <1>1, <1>2 DEF Used, Begun

\* A bound on the offsets of a file may be raised.
LEMMA BelowMore ==
  ASSUME NEW s \in Seq(Frame), NEW m \in Nat, NEW n \in Nat, m =< n, Below(s, m)
  PROVE  Below(s, n)
  <1> SUFFICES ASSUME NEW i \in 1..Len(s), s[i] # Torn
               PROVE  s[i].off < n
    BY DEF Below
  <1>1. s[i].off < m
    BY DEF Below
  <1>2. s[i] \in Message
    BY FrameKinds
  <1>3. s[i].off \in Int
    BY <1>2, SenderCount DEF Message, Offset
  <1> QED
    BY <1>1, <1>3

\* The offsets that were taken stay taken.
LEMMA TakenStays ==
  ASSUME TInv, NEW n \in Nat, Used =< n
  PROVE  /\ next_offset =< n
         /\ \A id \in DOMAIN segment : Below(segment[id], n)
         /\ \A id \in DOMAIN archive : Below(archive[id], n)
         /\ \A g \in Group : committed[g] < n /\ \A o \in out[g] : o < n
         /\ \A p \in Sender : Live(p) => off[p] < n
         /\ \A o \in DOMAIN memory : o < n
  <1>0. Used \in Nat
    BY CountNow
  <1>1. \A x \in Int : x < Used => x < n
    BY <1>0
  <1>2. next_offset =< n
    BY <1>0 DEF TInv, OffsetsTaken, WriterTypes
  <1>3. \A id \in DOMAIN segment : Below(segment[id], n)
    BY <1>0, BelowMore DEF TInv, OffsetsTaken, DiskTypes
  <1>4. \A id \in DOMAIN archive : Below(archive[id], n)
    BY <1>0, BelowMore DEF TInv, OffsetsTaken, DiskTypes
  <1>5. Offset \subseteq Int /\ NoCommit \in Int
    BY SenderCount DEF Offset, NoCommit
  <1>6. \A g \in Group : committed[g] < n /\ \A o \in out[g] : o < n
    BY <1>1, <1>5 DEF TInv, OffsetsTaken, GroupTypes
  <1>7. \A p \in Sender : Live(p) => off[p] < n
    BY <1>1, <1>5 DEF TInv, OffsetsTaken, SendTypes
  <1>8. \A o \in DOMAIN memory : o < n
    BY <1>1, <1>5 DEF TInv, OffsetsTaken, WriterTypes
  <1> QED
    BY <1>2, <1>3, <1>4, <1>6, <1>7, <1>8

\* Segments stay accounted for.
LEMMA BegunStays ==
  ASSUME TInv, NEW n \in Nat, Begun =< n
  PROVE  /\ crashes \in Nat
         /\ up => /\ active =< n + crashes
                  /\ \A id \in DOMAIN segment \cup DOMAIN archive : id =< active
         /\ ~up => \A id \in DOMAIN segment \cup DOMAIN archive : id < n + crashes
         /\ \E t \in DOMAIN segment :
              \A id \in DOMAIN segment \cup DOMAIN archive : id =< t
  <1>1. crashes \in Nat /\ Begun \in Nat
    BY BoundsAssumption, CountNow DEF TInv, SendTypes
  <1>2. active \in Nat /\ \A id \in DOMAIN segment \cup DOMAIN archive : id \in Nat
    BY DEF TInv, WriterTypes, DiskTypes
  <1> QED
    BY <1>1, <1>2 DEF TInv, SegmentsBegun

\* A send: the count of offsets grows with the next offset.
LEMMA TypeSend ==
  ASSUME TInv, NEW p \in Sender, Send(p)
  PROVE  TInv'
  <1> USE DEF TInv
  <1>1. /\ \A x \in Sender : pc'[x] = "new" => pc[x] = "new"
        /\ \A x \in Sender : pc'[x] \in {"new", "reserved"}
                               => pc[x] \in {"new", "reserved"}
    BY DEF Send, Step, SendTypes
  <1>2. /\ Used \in Nat /\ Used' \in Nat /\ Begun \in Nat /\ Begun' \in Nat
        /\ Used =< Used' /\ Used' =< Cardinality(Sender)
        /\ Begun =< Begun' /\ Begun' =< Cardinality(Sender)
    BY <1>1, CountStep
  <1>3. Used + 1 =< Used'
    <2>1. pc[p] \in {"new"} /\ pc'[p] \notin {"new"}
      BY DEF Send, Step, SendTypes
    <2>2. \A x \in Sender : pc'[x] \in {"new"} => pc[x] \in {"new"}
      BY <1>1
    <2> QED
      BY <2>1, <2>2, CountGrowsBy DEF Used
  <1>4. UNCHANGED <<disk, progress, up, active, size, memory, seg, queued, sync,
                    scan, reading, bounds, history>>
    BY DEF Send
  <1>5. DiskTypes' /\ GroupTypes'
    BY <1>4 DEF DiskTypes, GroupTypes, disk, progress, reading
  <1>6. /\ next_offset' \in Nat /\ next_offset' =< Used'
        /\ off' \in [Sender -> Offset]
        /\ \A x \in Sender : Live(x)' => off'[x] < Used'
    <2>0. queued' = queued /\ p \notin queued
      BY <1>4 DEF Send, SendTypes
    <2>1. next_offset =< Used /\ next_offset \in Nat
      BY DEF OffsetsTaken, WriterTypes
    <2>2. CASE HardPressure
      <3>1. off' = off /\ next_offset' = next_offset /\ pc'[p] = "failed"
            /\ \A x \in Sender : x # p => pc'[x] = pc[x]
        BY <2>2 DEF Send, Step, SendTypes
      <3> QED
        BY <1>2, <2>0, <2>1, <3>1, TakenStays DEF SendTypes, Live, LivePc
    <2>3. CASE ~HardPressure
      <3>1. /\ off' = [off EXCEPT ![p] = next_offset]
            /\ next_offset' = next_offset + 1
            /\ \A x \in Sender : x # p => pc'[x] = pc[x]
        BY <2>3 DEF Send, Step, SendTypes
      <3>2. next_offset \in Offset /\ next_offset < Used'
        BY <1>2, <1>3, <2>1, SenderCount DEF Offset
      <3>3. off' \in [Sender -> Offset]
        BY <3>1, <3>2 DEF SendTypes
      <3>4. next_offset' \in Nat /\ next_offset' =< Used'
        BY <3>1, <1>2, <1>3, <2>1
      <3>5. ASSUME NEW x \in Sender, Live(x)' PROVE off'[x] < Used'
        <4>1. CASE x = p
          BY <4>1, <3>1, <3>2 DEF SendTypes
        <4>2. CASE x # p
          BY <4>2, <3>1, <3>5, <1>2, <2>0, TakenStays DEF SendTypes, Live
        <4> QED
          BY <4>1, <4>2
      <3> QED
        BY <3>3, <3>4, <3>5
    <2> QED
      BY <2>2, <2>3
  <1>7. WriterTypes' /\ ScanTypes'
    BY <1>4, <1>6 DEF WriterTypes, ScanTypes, disk, progress, history
  <1>8. SendTypes'
    BY <1>4, <1>6 DEF Send, Step, SendTypes, sync, bounds, history, LivePc
  <1>9. OffsetsTaken'
    BY <1>2, <1>4, <1>6, TakenStays DEF OffsetsTaken, disk, progress, reading
  <1>10. SegmentsBegun'
    BY <1>2, <1>4, BegunStays DEF SegmentsBegun, disk, bounds
  <1> QED
    BY <1>5, <1>7, <1>8, <1>9, <1>10

\* A file that is created if it is not there
LEMMA CreateDisk ==
  ASSUME DiskTypes, NEW x \in Nat,
         segment' = FilesWith(DOMAIN segment \cup {x}),
         synced' = SyncedWith(DOMAIN segment'), UNCHANGED <<archive, uploaded>>
  PROVE  /\ DiskTypes'
         /\ DOMAIN segment' = DOMAIN segment \cup {x}
         /\ \A id \in DOMAIN segment :
              segment'[id] = segment[id] /\ synced'[id] = synced[id]
         /\ x \notin DOMAIN segment => segment'[x] = <<>>
         /\ \A n : (\A id \in DOMAIN segment : Below(segment[id], n)) =>
                   \A id \in DOMAIN segment' : Below(segment'[id], n)
  <1>1. /\ DOMAIN segment' = DOMAIN segment \cup {x}
        /\ \A id \in DOMAIN segment : segment'[id] = segment[id]
        /\ x \notin DOMAIN segment => segment'[x] = <<>>
    BY DEF FilesWith
  <1>2. /\ DOMAIN synced' = DOMAIN segment'
        /\ \A id \in DOMAIN segment : synced'[id] = synced[id]
        /\ x \notin DOMAIN segment => synced'[x] = 0
    BY <1>1 DEF SyncedWith, DiskTypes
  <1>3. <<>> \in Seq(Frame) /\ 0 \in 0..Len(<<>>)
    OBVIOUS
  <1>4. DiskTypes'
    BY <1>1, <1>2, <1>3 DEF DiskTypes
  <1>5. \A n : Below(<<>>, n)
    BY DEF Below
  <1> QED
    BY <1>1, <1>2, <1>4, <1>5

\* A file with one frame more
LEMMA LongerFile ==
  ASSUME NEW s \in Seq(Frame), NEW f \in Frame
  PROVE  /\ Append(s, f) \in Seq(Frame) /\ Len(Append(s, f)) = Len(s) + 1
         /\ Len(s) \in Nat
         /\ \A i \in 1..Len(s) : Append(s, f)[i] = s[i]
         /\ Append(s, f)[Len(s) + 1] = f
         /\ \A n : Below(s, n) /\ (f # Torn => f.off < n) => Below(Append(s, f), n)
  <1>1. /\ Append(s, f) \in Seq(Frame) /\ Len(Append(s, f)) = Len(s) + 1
        /\ Len(s) \in Nat
        /\ \A i \in 1..Len(s) : Append(s, f)[i] = s[i]
        /\ Append(s, f)[Len(s) + 1] = f
    OBVIOUS
  <1>2. \A i \in 1..(Len(s) + 1) : i \in 1..Len(s) \/ i = Len(s) + 1
    BY <1>1
  <1>3. \A n : Below(s, n) /\ (f # Torn => f.off < n) => Below(Append(s, f), n)
    BY <1>1, <1>2 DEF Below
  <1> QED
    BY <1>1, <1>3

\* Some files with one frame more
LEMMA LongerDisk ==
  ASSUME DiskTypes, NEW S \in SUBSET DOMAIN segment, NEW f \in Frame,
         DOMAIN segment' = DOMAIN segment,
         \A id \in DOMAIN segment :
           segment'[id] = IF id \in S THEN Append(segment[id], f)
                          ELSE segment[id],
         UNCHANGED <<synced, archive, uploaded>>,
         NEW n, f # Torn => f.off < n,
         \A id \in DOMAIN segment : Below(segment[id], n)
  PROVE  DiskTypes' /\ \A id \in DOMAIN segment' : Below(segment'[id], n)
  <1>1. ASSUME NEW id \in DOMAIN segment
        PROVE  /\ segment'[id] \in Seq(Frame) /\ Below(segment'[id], n)
               /\ synced[id] \in 0..Len(segment'[id])
    <2>1. segment[id] \in Seq(Frame) /\ synced[id] \in 0..Len(segment[id])
      BY DEF DiskTypes
    <2>2. CASE id \in S
      <3>1. segment'[id] = Append(segment[id], f)
        BY <2>2
      <3> QED
        BY <3>1, <2>1, LongerFile
    <2>3. CASE id \notin S
      BY <2>1, <2>3
    <2> QED
      BY <2>2, <2>3
  <1> QED
    BY <1>1 DEF DiskTypes

\* The frame of a send
LEMMA NewFrame ==
  ASSUME TInv, NEW p \in Sender, Live(p)
  PROVE  /\ FrameOf(p) \in Frame /\ FrameOf(p).off < Used
         /\ FrameOf(p) # Torn /\ FrameOf(p).msg = p /\ FrameOf(p).off = off[p]
  <1>1. off[p] \in Offset /\ off[p] < Used
    BY DEF TInv, SendTypes, OffsetsTaken
  <1> QED
    BY <1>1, TornAssumption DEF FrameOf, Frame

\* The writer moves to the target of an append: one more send is past it.
LEMMA TargetCounted ==
  ASSUME TInv, up, NEW fits, NEW n \in Nat, Begun + 1 =< n
  PROVE  LET x == TargetSegment(fits)
         IN  /\ x \in {active, active + 1} /\ x \in Nat
             /\ x =< n + crashes /\ x >= active
             /\ n =< Cardinality(Sender) => x \in 0..MaxSegment
             /\ \A id \in DOMAIN segment \cup DOMAIN archive \cup {x} : id =< x
  <1>1. /\ crashes \in Nat /\ crashes =< MaxCrashes /\ Begun \in Nat
        /\ active \in Nat /\ MaxCrashes \in Nat
    BY BoundsAssumption, CountNow DEF TInv, SendTypes, WriterTypes
  <1>2. /\ active =< Begun + crashes
        /\ \A id \in DOMAIN segment \cup DOMAIN archive : id =< active /\ id \in Nat
    BY DEF TInv, SegmentsBegun, DiskTypes
  <1>3. TargetSegment(fits) \in {active, active + 1}
    BY DEF TargetSegment
  <1> QED
    BY <1>1, <1>2, <1>3, SenderCount DEF MaxSegment

\* An append, done or failed: p leaves "reserved", the writer is at the target.
LEMMA TypeAppending ==
  ASSUME TInv, NEW p \in Sender, pc[p] = "reserved", NEW fits,
         OpenTarget(fits), size' \in Int, NEW l \in {"appended", "failed"},
         pc' = [pc EXCEPT ![p] = l],
         \/ seg' = seg /\ queued' = queued
         \/ seg' = [seg EXCEPT ![p] = active'] /\ queued' = queued \cup {p},
         fails' \in Nat,
         UNCHANGED <<archive, uploaded, progress, up, next_offset, memory, off,
                     sync, scan, reading, crashes, released, astray>>
  PROVE  TInv'
  <1> USE DEF TInv
  <1>0. up
    BY DEF SendTypes, LivePc, WriterTypes
  <1>1. /\ \A x \in Sender : pc'[x] = "new" => pc[x] = "new"
        /\ \A x \in Sender : pc'[x] \in {"new", "reserved"}
                               => pc[x] \in {"new", "reserved"}
        /\ pc'[p] \notin {"new", "reserved"}
        /\ \A x \in Sender : Live(x)' => Live(x)
    BY DEF SendTypes, LivePc, Live
  <1>2. /\ Used \in Nat /\ Used' \in Nat /\ Begun \in Nat /\ Begun' \in Nat
        /\ Used =< Used' /\ Used' =< Cardinality(Sender)
        /\ Begun =< Begun' /\ Begun' =< Cardinality(Sender)
    BY <1>1, CountStep
  <1>3. Begun + 1 =< Begun'
    <2>1. pc[p] \in {"new", "reserved"}
      OBVIOUS
    <2> QED
      BY <2>1, <1>1, CountGrowsBy DEF Begun
  <1>4. /\ active' =< Begun' + crashes /\ active' >= active
        /\ active' \in 0..MaxSegment /\ active' \in Nat
        /\ \A id \in DOMAIN segment \cup DOMAIN archive \cup {active'} :
              id =< active'
    BY <1>0, <1>2, <1>3, TargetCounted DEF OpenTarget
  <1>5. /\ DiskTypes'
        /\ DOMAIN segment' = DOMAIN segment \cup {active'}
        /\ \A id \in DOMAIN segment' : Below(segment'[id], Used')
    <2>1. \A id \in DOMAIN segment : Below(segment[id], Used')
      BY <1>2, TakenStays
    <2> QED
      BY <1>4, <2>1, CreateDisk DEF OpenTarget
  <1>6. GroupTypes'
    BY DEF GroupTypes, progress, reading
  <1>7. WriterTypes'
    BY <1>4, <1>5 DEF WriterTypes, progress
  <1>8. ScanTypes'
    <2>1. scan.active \in Nat /\ active \in Nat
      BY <1>4 DEF ScanTypes, WriterTypes
    <2> QED
      BY <1>4, <2>1 DEF ScanTypes
  <1>9. SendTypes'
    BY <1>0, <1>1, <1>4 DEF SendTypes, sync, Live
  <1>10. OffsetsTaken'
    BY <1>1, <1>2, <1>5, TakenStays DEF OffsetsTaken, progress, reading
  <1>11. SegmentsBegun'
    BY <1>0, <1>4, <1>5 DEF SegmentsBegun
  <1> QED
    BY <1>5, <1>6, <1>7, <1>8, <1>9, <1>10, <1>11

\* Types: append, with its rotation.
LEMMA TypeAppendFrame ==
  ASSUME TInv, NEW p \in Sender, NEW fits, AppendFrame(p, fits)
  PROVE  TInv'
  <1>1. "appended" \in {"appended", "failed"} /\ fails \in Nat /\ size \in Int
    BY DEF TInv, SendTypes, WriterTypes
  <1>2. /\ pc[p] = "reserved" /\ OpenTarget(fits) /\ size' \in Int
        /\ pc' = [pc EXCEPT ![p] = "appended"]
        /\ seg' = [seg EXCEPT ![p] = active'] /\ queued' = queued \cup {p}
        /\ fails' \in Nat
        /\ UNCHANGED <<archive, uploaded, progress, up, next_offset, memory, off,
                       sync, scan, reading, crashes, released, astray>>
    BY <1>1 DEF AppendFrame, Step, bounds, history
  <1> QED
    BY <1>1, <1>2, TypeAppending

\* A step that moves one send on, and leaves the rest of the types alone
LEMMA TypeMove ==
  ASSUME TInv, size' \in Int, fails' \in Nat, astray' \subseteq Sender,
         DiskTypes', DOMAIN segment' = DOMAIN segment,
         \A id \in DOMAIN segment' : Below(segment'[id], Used),
         \/ pc' = pc
         \/ \E p \in Sender : /\ pc[p] \in {"reserved", "appended"}
                             /\ pc' = [pc EXCEPT ![p] = "failed"],
         queued' \subseteq queued,
         UNCHANGED <<archive, progress, up, next_offset, active, memory, off, seg,
                     sync, scan, reading, crashes, released>>
  PROVE  TInv'
  <1> USE DEF TInv
  <1>1. /\ \A x \in Sender : pc'[x] = "new" => pc[x] = "new"
        /\ \A x \in Sender : pc'[x] \in {"new", "reserved"}
                               => pc[x] \in {"new", "reserved"}
        /\ \A x \in Sender : pc'[x] \in LivePc => pc[x] \in LivePc
        /\ \A x \in Sender : Live(x)' => Live(x)
    BY DEF SendTypes, LivePc, Live
  <1>2. /\ Used \in Nat /\ Used' \in Nat /\ Begun \in Nat /\ Begun' \in Nat
        /\ Used =< Used' /\ Used' =< Cardinality(Sender)
        /\ Begun =< Begun' /\ Begun' =< Cardinality(Sender)
    BY <1>1, CountStep
  <1>3. GroupTypes' /\ WriterTypes' /\ ScanTypes'
    BY DEF GroupTypes, WriterTypes, ScanTypes, progress, reading
  <1>4. SendTypes'
    BY <1>1 DEF SendTypes, sync, LivePc
  <1>5. OffsetsTaken'
    <2>1. \A id \in DOMAIN segment' : Below(segment'[id], Used')
      BY <1>2, BelowMore DEF DiskTypes
    <2> QED
      BY <1>1, <1>2, <2>1, TakenStays DEF OffsetsTaken, progress, reading
  <1>6. SegmentsBegun'
    BY <1>2, BegunStays DEF SegmentsBegun
  <1> QED
    BY <1>3, <1>4, <1>5, <1>6

\* Types: an append that fails, with its rotation.
LEMMA TypeAppendFails ==
  ASSUME TInv, NEW p \in Sender, NEW opened \in BOOLEAN, NEW fits,
         AppendFails(p, opened, fits)
  PROVE  TInv'
  <1>1. /\ "failed" \in {"appended", "failed"} /\ fails' \in Nat /\ size \in Int
        /\ pc[p] = "reserved" /\ pc' = [pc EXCEPT ![p] = "failed"]
        /\ seg' = seg /\ queued' = queued
        /\ UNCHANGED <<archive, uploaded, progress, up, next_offset, memory, off,
                       sync, scan, reading, crashes, released, astray>>
    BY DEF TInv, SendTypes, WriterTypes, AppendFails, Step, history
  <1>2. CASE opened
    <2>1. OpenTarget(fits) /\ size' \in Int
      BY <1>1, <1>2 DEF AppendFails
    <2> QED
      BY <1>1, <2>1, TypeAppending
  <1>3. CASE ~opened
    <2>1. UNCHANGED <<segment, synced, active, size>>
      BY <1>3 DEF AppendFails
    <2>2. /\ DiskTypes' /\ DOMAIN segment' = DOMAIN segment
          /\ \A id \in DOMAIN segment' : Below(segment'[id], Used)
          /\ astray' \subseteq Sender /\ queued' \subseteq queued
      BY <1>1, <2>1 DEF TInv, DiskTypes, OffsetsTaken, SendTypes
    <2> QED
      BY <1>1, <2>1, <2>2, TypeMove
  <1> QED
    BY <1>2, <1>3

\* Types: a write is done or fails.
LEMMA TypeWrite ==
  ASSUME TInv, NEW p \in Sender, WriteStep(p)
  PROVE  TInv'
  <1> USE DEF TInv
  <1>0. /\ size \in Int /\ fails \in Nat /\ astray \subseteq Sender /\ DiskTypes
        /\ \A id \in DOMAIN segment : Below(segment[id], Used)
    BY DEF SendTypes, WriterTypes, OffsetsTaken
  <1>1. CASE WriteLands(p)
    <2>1. /\ p \in queued /\ queued' \subseteq queued /\ astray' \subseteq Sender
          /\ UNCHANGED <<synced, archive, uploaded, progress, up, writer, pc, off,
                         seg, sync, scan, reading, bounds, released>>
      BY <1>0, <1>1 DEF WriteLands
    <2>2. DiskTypes' /\ DOMAIN segment' = DOMAIN segment
          /\ \A id \in DOMAIN segment' : Below(segment'[id], Used)
      <3>1. CASE seg[p] \in DOMAIN segment
        <4>1. segment' = [segment EXCEPT ![seg[p]] = Append(@, FrameOf(p))]
          BY <1>1, <3>1 DEF WriteLands
        <4>2. /\ FrameOf(p) \in Frame /\ FrameOf(p).off < Used
              /\ {seg[p]} \in SUBSET DOMAIN segment
          BY <2>1, <3>1, NewFrame DEF Live
        <4>3. /\ DOMAIN segment' = DOMAIN segment
              /\ \A id \in DOMAIN segment :
                   segment'[id] = IF id \in {seg[p]}
                                  THEN Append(segment[id], FrameOf(p))
                                  ELSE segment[id]
          BY <4>1
        <4> QED
          BY <1>0, <2>1, <4>2, <4>3, LongerDisk
      <3>2. CASE seg[p] \notin DOMAIN segment
        <4>1. segment' = segment
          BY <1>1, <3>2 DEF WriteLands
        <4> QED
          BY <1>0, <2>1, <4>1 DEF DiskTypes
      <3> QED
        BY <3>1, <3>2
    <2>3. size' \in Int /\ fails' \in Nat
      BY <1>0, <2>1 DEF writer, bounds
    <2> QED
      BY <2>1, <2>2, <2>3, TypeMove DEF writer, bounds
  <1>2. ASSUME NEW torn \in BOOLEAN, WriteFails(p, torn) PROVE TInv'
    <2>1. /\ p \in queued /\ queued' \subseteq queued /\ astray' \subseteq Sender
          /\ fails' \in Nat
          /\ UNCHANGED <<synced, archive, uploaded, progress, up, writer, pc, off,
                         seg, sync, scan, reading, crashes, released>>
      BY <1>0, <1>2 DEF WriteFails
    <2>2. DiskTypes' /\ DOMAIN segment' = DOMAIN segment
          /\ \A id \in DOMAIN segment' : Below(segment'[id], Used)
      <3>1. CASE torn
        <4>1. /\ segment' = [segment EXCEPT ![seg[p]] = Append(@, Torn)]
              /\ seg[p] \in DOMAIN segment
          BY <1>2, <3>1 DEF WriteFails
        <4>2. Torn \in Frame /\ {seg[p]} \in SUBSET DOMAIN segment
          BY <4>1 DEF Frame
        <4>3. /\ DOMAIN segment' = DOMAIN segment
              /\ \A id \in DOMAIN segment :
                   segment'[id] = IF id \in {seg[p]} THEN Append(segment[id], Torn)
                                  ELSE segment[id]
          BY <4>1
        <4> QED
          BY <1>0, <2>1, <4>2, <4>3, LongerDisk
      <3>2. CASE ~torn
        <4>1. segment' = segment
          BY <1>2, <3>2 DEF WriteFails
        <4> QED
          BY <1>0, <2>1, <4>1 DEF DiskTypes
      <3> QED
        BY <3>1, <3>2
    <2>3. size' \in Int
      BY <1>0, <2>1 DEF writer
    <2> QED
      BY <2>1, <2>2, <2>3, TypeMove DEF writer
  <1> QED
    BY <1>1, <1>2 DEF WriteStep

\* Types: the sync of an append fails.
LEMMA TypeAppendSyncFails ==
  ASSUME TInv, NEW p \in Sender, AppendSyncFails(p)
  PROVE  TInv'
  <1>1. size \in Int /\ fails \in Nat /\ astray \subseteq Sender
    BY DEF TInv, SendTypes, WriterTypes
  <1>2. /\ pc[p] \in {"reserved", "appended"} /\ pc' = [pc EXCEPT ![p] = "failed"]
        /\ UNCHANGED <<disk, progress, up, next_offset, active, memory, off, seg,
                       queued, sync, scan, reading, crashes, history>>
    BY DEF AppendSyncFails, Step
  <1>3. size' \in Int /\ fails' \in Nat
    BY <1>1 DEF AppendSyncFails
  <1>4. /\ DiskTypes' /\ DOMAIN segment' = DOMAIN segment
        /\ \A id \in DOMAIN segment' : Below(segment'[id], Used)
        /\ astray' \subseteq Sender /\ queued' \subseteq queued
    BY <1>1, <1>2 DEF TInv, DiskTypes, OffsetsTaken, disk, history
  <1>5. UNCHANGED <<archive, progress, up, next_offset, active, memory, off, seg,
                    sync, scan, reading, crashes, released>>
    BY <1>2 DEF disk, history
  <1> QED
    BY <1>2, <1>3, <1>4, <1>5, TypeMove

\* A set of offsets that is not full has room for one more.
LEMMA OneMore ==
  ASSUME NEW S \in SUBSET Offset, NEW o \in Offset, capacity \in Nat,
         ~(Cardinality(S) >= capacity)
  PROVE  Cardinality(S \cup {o}) =< capacity
  <1>1. IsFiniteSet(Offset)
    BY SenderCount, FS_Interval DEF Offset
  <1>2. IsFiniteSet(S) /\ Cardinality(S) \in Nat
    BY <1>1, FS_Subset, FS_CardinalityType
  <1>3. Cardinality(S \cup {o}) = IF o \in S THEN Cardinality(S)
                                            ELSE Cardinality(S) + 1
    BY <1>2, FS_AddElement
  <1> QED
    BY <1>2, <1>3

\* Types: the memory tier takes the message or is full.
LEMMA TypeEnqueue ==
  ASSUME TInv, NEW p \in Sender, Enqueue(p)
  PROVE  TInv'
  <1> USE DEF TInv
  <1>1. /\ \A x \in Sender : pc'[x] = "new" => pc[x] = "new"
        /\ \A x \in Sender : pc'[x] \in {"new", "reserved"}
                               => pc[x] \in {"new", "reserved"}
        /\ \A x \in Sender : pc'[x] \in LivePc => pc[x] \in LivePc
        /\ \A x \in Sender : Live(x)' => Live(x)
        /\ Live(p) /\ pc[p] = "appended"
    BY DEF Enqueue, Step, SendTypes, Live, LivePc
  <1>2. /\ Used \in Nat /\ Used' \in Nat /\ Begun \in Nat /\ Begun' \in Nat
        /\ Used =< Used' /\ Used' =< Cardinality(Sender)
        /\ Begun =< Begun' /\ Begun' =< Cardinality(Sender)
    BY <1>1, CountStep
  <1>4. UNCHANGED <<disk, progress, up, next_offset, active, size, off, seg,
                    queued, batch, scan, reading, bounds, history>>
    BY DEF Enqueue
  <1>5. DiskTypes' /\ GroupTypes' /\ ScanTypes'
    BY <1>4 DEF DiskTypes, GroupTypes, ScanTypes, disk, progress, reading, history
  <1>6. off[p] \in Offset /\ off[p] < Used'
    BY <1>1, <1>2, TakenStays DEF SendTypes
  <1>7. /\ DOMAIN memory' \subseteq Offset
        /\ \A o \in DOMAIN memory' : memory'[o] \in Sender /\ o < Used'
        /\ Cardinality(DOMAIN memory') =< capacity
    <2>1. \A o \in DOMAIN memory : memory[o] \in Sender /\ o < Used'
      BY <1>2, TakenStays DEF WriterTypes
    <2>2. CASE MemoryFull
      BY <2>1, <2>2, <1>4 DEF Enqueue, WriterTypes, progress
    <2>3. CASE ~MemoryFull
      <3>1. memory' = [o \in DOMAIN memory \cup {off[p]} |->
                         IF o = off[p] THEN p ELSE memory[o]]
        BY <2>3 DEF Enqueue
      <3>2. DOMAIN memory' = DOMAIN memory \cup {off[p]}
        BY <3>1
      <3>3. Cardinality(DOMAIN memory \cup {off[p]}) =< capacity
        BY <2>3, <1>6, OneMore DEF MemoryFull, WriterTypes, GroupTypes
      <3> QED
        BY <2>1, <3>1, <3>2, <3>3, <1>6 DEF WriterTypes
    <2> QED
      BY <2>2, <2>3
  <1>8. WriterTypes'
    BY <1>4, <1>7 DEF WriterTypes, disk, progress
  <1>9. pending' \in Seq(Sender) /\ pc' \in [Sender -> {"new", "reserved",
                           "appended", "waiting", "acked", "failed", "lost"}]
    <2>1. CASE MemoryFull
      BY <2>1 DEF Enqueue, Step, SendTypes
    <2>2. CASE ~MemoryFull
      <3>1. pending' = Append(pending, p) /\ pc' = [pc EXCEPT ![p] = "waiting"]
        BY <2>2 DEF Enqueue, Step
      <3>2. Append(pending, p) \in Seq(Sender)
        BY DEF SendTypes
      <3> QED
        BY <3>1, <3>2 DEF SendTypes
    <2> QED
      BY <2>1, <2>2
  <1>10. SendTypes'
    <2>1. \A x \in queued : pc'[x] \notin {"new", "reserved", "lost"}
      BY <1>1 DEF Enqueue, Step, SendTypes
    <2> QED
      BY <1>1, <1>4, <1>9, <2>1 DEF SendTypes, bounds, history
  <1>11. OffsetsTaken'
    BY <1>1, <1>2, <1>4, <1>7, TakenStays DEF OffsetsTaken, disk, progress, reading
  <1>12. SegmentsBegun'
    BY <1>2, <1>4, BegunStays DEF SegmentsBegun, disk, bounds
  <1> QED
    BY <1>5, <1>8, <1>10, <1>11, <1>12

\* Types: the drain task takes a batch.
LEMMA TypeDrainTake ==
  ASSUME TInv, DrainTake
  PROVE  TInv'
  <1> USE DEF TInv
  <1> DEFINE n == Min({Len(pending), MaxBatch})
  <1>1. n \in 0..Len(pending)
    <2>1. {Len(pending), MaxBatch} \in SUBSET Nat /\ {Len(pending), MaxBatch} # {}
      BY BoundsAssumption DEF SendTypes
    <2>2. n \in {Len(pending), MaxBatch} /\ n =< Len(pending)
      BY <2>1, MinOfNats
    <2> QED
      BY <2>1, <2>2
  <1>2. pending \in Seq(Sender)
    BY DEF SendTypes
  <1>3. /\ batch' = ToSet(SubSeq(pending, 1, n))
        /\ pending' = SubSeq(pending, n + 1, Len(pending))
        /\ UNCHANGED <<disk, progress, up, writer, sends, scan, reading, bounds,
                       history>>
    BY DEF DrainTake
  <1> HIDE DEF n
  <1>4. batch' \subseteq Sender /\ pending' \in Seq(Sender)
    <2>1. SubSeq(pending, 1, n) \in Seq(Sender)
          /\ SubSeq(pending, n + 1, Len(pending)) \in Seq(Sender)
      BY <1>1, <1>2
    <2> QED
      BY <1>3, <2>1 DEF ToSet
  <1>5. Used' = Used /\ Begun' = Begun
    BY <1>3 DEF Used, Begun, sends
  <1> QED
    BY <1>3, <1>4, <1>5 DEF DiskTypes, GroupTypes, ScanTypes, WriterTypes,
      SendTypes, OffsetsTaken, SegmentsBegun, Live, disk, progress, reading, history,
      writer, sends, bounds

\* The waiters of one segment are answered.
LEMMA TypeAnswer ==
  ASSUME TInv, NEW id, NEW l \in {"acked", "failed"}, Answer(id, l),
         UNCHANGED <<segment, archive, uploaded, progress, up, writer, off, seg,
                     queued, pending, scan, reading, crashes, released>>,
         astray' \subseteq Sender,
         fails' \in Nat,
         synced' = synced \/ (id \in DOMAIN segment /\ synced' = SyncedBy(id))
  PROVE  TInv'
  <1> USE DEF TInv
  <1> DEFINE served == {p \in batch : seg[p] = id}
  <1>0. /\ pc' = [p \in Sender |-> IF p \in served THEN l ELSE pc[p]]
        /\ batch' = batch \ served
    BY DEF Answer
  <1> HIDE DEF served
  <1>1. /\ \A x \in Sender : pc'[x] = "new" => pc[x] = "new"
        /\ \A x \in Sender : pc'[x] \in {"new", "reserved"}
                               => pc[x] \in {"new", "reserved"}
        /\ \A x \in Sender : pc'[x] \in LivePc => pc[x] \in LivePc
        /\ \A x \in Sender : Live(x)' => Live(x)
        /\ \A x \in queued : pc'[x] \notin {"new", "reserved", "lost"}
    BY <1>0 DEF SendTypes, Live, LivePc
  <1>2. /\ Used \in Nat /\ Used' \in Nat /\ Begun \in Nat /\ Begun' \in Nat
        /\ Used =< Used' /\ Used' =< Cardinality(Sender)
        /\ Begun =< Begun' /\ Begun' =< Cardinality(Sender)
    BY <1>1, CountStep
  <1>3. /\ DOMAIN synced' = DOMAIN segment
        /\ \A x \in DOMAIN segment : synced'[x] \in 0..Len(segment[x])
    <2>1. \A x \in DOMAIN segment : Len(segment[x]) \in 0..Len(segment[x])
      BY DEF DiskTypes
    <2> QED
      BY <2>1 DEF DiskTypes, SyncedBy
  <1>4. DiskTypes' /\ GroupTypes' /\ ScanTypes' /\ WriterTypes'
    BY <1>3 DEF DiskTypes, GroupTypes, ScanTypes, WriterTypes, progress, reading,
                writer
  <1>5. SendTypes'
    BY <1>0, <1>1 DEF SendTypes
  <1>6. OffsetsTaken'
    BY <1>1, <1>2, TakenStays DEF OffsetsTaken, writer, progress, reading
  <1>7. SegmentsBegun'
    BY <1>2, BegunStays DEF SegmentsBegun, writer
  <1> QED
    BY <1>4, <1>5, <1>6, <1>7

\* Types: the batch is synced, or the sync fails.
LEMMA TypeDrain ==
  ASSUME TInv, NEW id, DrainSync(id) \/ DrainFails(id)
  PROVE  TInv'
  <1>0. fails \in Nat /\ astray \subseteq Sender /\ queued \subseteq Sender
    BY DEF TInv, SendTypes
  <1>1. CASE DrainSync(id)
    <2>1. /\ "acked" \in {"acked", "failed"} /\ Answer(id, "acked")
          /\ UNCHANGED <<segment, archive, uploaded, progress, up, writer, off,
                         seg, queued, pending, scan, reading, crashes, released>>
          /\ fails' \in Nat /\ astray' \subseteq Sender
          /\ id \in DOMAIN segment /\ synced' = SyncedBy(id)
      BY <1>0, <1>1 DEF DrainSync, bounds
    <2> QED
      BY <2>1, TypeAnswer
  <1>2. CASE DrainFails(id)
    <2>1. /\ "failed" \in {"acked", "failed"} /\ Answer(id, "failed")
          /\ UNCHANGED <<segment, archive, uploaded, progress, up, writer, off,
                         seg, queued, pending, scan, reading, crashes, released>>
          /\ fails' \in Nat /\ astray' \subseteq Sender /\ synced' = synced
      BY <1>0, <1>2 DEF DrainFails, disk, history
    <2> QED
      BY <2>1, TypeAnswer
  <1> QED
    BY <1>1, <1>2

\* What a poll reads is in memory, at or behind the cursor.
LEMMA ReadIs ==
  ASSUME TInv, NEW c, NEW max, ReadFrom(c, max) # {}
  PROVE  /\ ReadFrom(c, max) \subseteq DOMAIN memory
         /\ \A o \in ReadFrom(c, max) : o >= c
         /\ Max(ReadFrom(c, max)) \in ReadFrom(c, max)
         /\ \A o \in ReadFrom(c, max) : o =< Max(ReadFrom(c, max))
  <1> DEFINE R == ReadFrom(c, max)
             N == Cardinality(Sender)
  <1>1. R \subseteq DOMAIN memory /\ \A o \in R : o >= c
    BY DEF ReadFrom
  <1> HIDE DEF R
  <1>2. R \in SUBSET (0..N)
    BY <1>1, SenderCount DEF TInv, WriterTypes, Offset
  <1>3. R # {}
    BY DEF R
  <1>4. Max(R) \in R /\ \A o \in R : Max(R) >= o
    BY <1>2, <1>3, SenderCount, MaxOfNats
  <1>5. \A o \in R : o \in Int
    BY <1>2, SenderCount
  <1> QED
    BY <1>1, <1>4, <1>5 DEF R

\* Types: a group registers, reads or commits.
LEMMA TypeConsume ==
  ASSUME TInv, NEW g \in Group, Consume(g)
  PROVE  TInv'
  <1> USE DEF TInv
  <1>0. /\ Used \in Nat
        /\ UNCHANGED sends => /\ Used' = Used /\ Begun' = Begun
                              /\ \A x : Live(x)' = Live(x)
    BY CountNow DEF Used, Begun, Live, sends
  <1>n. /\ Cardinality(Sender) \in Nat /\ Offset = 0..(Cardinality(Sender) - 1)
        /\ NoCommit = -1
    BY SenderCount DEF Offset, NoCommit
  <1>1. CASE Subscribe(g)
    <2>1. committed[g] + 1 \in Offset \cup {-1, Cardinality(Sender)}
      <3>1. committed[g] \in Offset \cup {NoCommit}
        BY DEF GroupTypes
      <3> QED
        BY <3>1, <1>n
    <2>2. /\ registered' = registered \cup {g}
          /\ cursor' = [cursor EXCEPT ![g] = committed[g] + 1]
          /\ UNCHANGED <<disk, archiving, capacity, committed, up, writer, sends, sync,
                         scan, out, bounds, history>>
      BY <1>1 DEF Subscribe
    <2>3. GroupTypes'
      BY <2>1, <2>2 DEF GroupTypes
    <2>4. DiskTypes' /\ ScanTypes' /\ WriterTypes' /\ SendTypes'
      BY <2>2 DEF DiskTypes, ScanTypes, WriterTypes, SendTypes,
        disk, history, progress, writer, sends, sync, bounds
    <2>5. OffsetsTaken' /\ SegmentsBegun'
      BY <1>0, <2>2 DEF OffsetsTaken, SegmentsBegun, disk, writer, sends, bounds
    <2> QED
      BY <2>3, <2>4, <2>5
  <1>2. ASSUME NEW max \in PollSizes, Poll(g, max) PROVE TInv'
    <2> DEFINE R == ReadFrom(cursor[g], max)
    <2>1. /\ R # {}
          /\ out' = [out EXCEPT ![g] = @ \cup R]
          /\ cursor' = [cursor EXCEPT ![g] = Max(R) + 1]
          /\ UNCHANGED <<disk, progress, up, writer, sends, sync, scan, bounds,
                         history>>
      BY <1>2 DEF Poll
    <2>2. R \subseteq DOMAIN memory /\ Max(R) \in R
      BY <2>1, ReadIs
    <2> HIDE DEF R
    <2>3. R \subseteq Offset /\ \A o \in R : o < Used
      BY <2>2 DEF WriterTypes, OffsetsTaken
    <2>4. Max(R) + 1 \in Offset \cup {-1, Cardinality(Sender)}
      BY <2>2, <2>3, <1>n
    <2>5. GroupTypes'
      BY <2>1, <2>3, <2>4 DEF GroupTypes, progress
    <2>6. \A h \in Group : \A o \in out'[h] : o < Used
      BY <2>1, <2>3 DEF GroupTypes, OffsetsTaken
    <2>7. OffsetsTaken'
      BY <1>0, <2>1, <2>6 DEF OffsetsTaken, disk, progress, writer, sends
    <2> QED
      BY <1>0, <2>1, <2>5, <2>7 DEF DiskTypes, ScanTypes, WriterTypes, SendTypes,
        SegmentsBegun, disk, history, progress, writer, sends, sync, bounds
  <1>3. ASSUME NEW o \in out[g], Ack(g, o) PROVE TInv'
    <2>1. /\ committed' = [committed EXCEPT ![g] = o]
          /\ out' = [out EXCEPT ![g] = {x \in @ : x > o}]
          /\ UNCHANGED <<disk, archiving, capacity, registered, up, writer, sends, sync,
                         scan, cursor, bounds, history>>
      BY <1>3 DEF Ack
    <2>2. o \in Offset /\ o < Used
      BY DEF GroupTypes, OffsetsTaken
    <2>3. GroupTypes'
      BY <2>1, <2>2 DEF GroupTypes
    <2>4. OffsetsTaken'
      BY <1>0, <2>1, <2>2 DEF OffsetsTaken, GroupTypes, disk, writer, sends
    <2> QED
      BY <1>0, <2>1, <2>3, <2>4 DEF DiskTypes, ScanTypes, WriterTypes, SendTypes,
        SegmentsBegun, disk, history, progress, writer, sends, sync, bounds
  <1> QED
    BY <1>1, <1>2, <1>3 DEF Consume

\* The least committed offset is that of some group, or there is none.
LEMMA LeastIs ==
  ASSUME GroupTypes
  PROVE  /\ LeastCommit \in Offset \cup {NoCommit}
         /\ PassedByAll = LeastCommit
         /\ \A g \in registered : LeastCommit =< committed[g]
         /\ registered # {} => \E g \in registered : LeastCommit = committed[g]
         /\ registered = {} => LeastCommit = NoCommit
  <1> DEFINE S == {committed[g] : g \in registered}
  <1>1. PassedByAll = LeastCommit
    BY DEF PassedByAll, LeastCommit
  <1>2. CASE registered = {}
    BY <1>1, <1>2 DEF LeastCommit
  <1>3. CASE registered # {}
    <2>1. \A g \in registered : committed[g] \in Offset \cup {NoCommit}
      BY DEF GroupTypes
    <2>2. \A x \in Offset \cup {NoCommit} : x \in Int /\ -1 =< x
      BY SenderCount DEF Offset, NoCommit
    <2>3. S \in SUBSET Int /\ S # {} /\ \A x \in S : -1 =< x
      BY <1>3, <2>1, <2>2
    <2>4. LeastCommit = Min(S)
      BY <1>3 DEF LeastCommit
    <2>5. Min(S) \in S /\ \A y \in S : Min(S) =< y
      <3> HIDE DEF S
      <3> QED
        BY <2>3, MinOfInts
    <2> QED
      BY <1>1, <1>3, <2>1, <2>4, <2>5
  <1> QED
    BY <1>2, <1>3

\* What the history says was let go grows with the groups' progress.
LEMMA ReleasedIs ==
  ASSUME GroupTypes, ScanTypes
  PROVE  LET r == Max({released, PassedByAll})
         IN /\ r \in Offset \cup {NoCommit}
            /\ r \in {released, LeastCommit} /\ r >= released /\ r >= LeastCommit
  <1>1. \A x \in Offset \cup {NoCommit} : x \in Int
    BY SenderCount DEF Offset, NoCommit
  <1>2. /\ released \in Offset \cup {NoCommit} /\ PassedByAll = LeastCommit
        /\ LeastCommit \in Offset \cup {NoCommit}
    BY LeastIs DEF ScanTypes
  <1> QED
    BY <1>1, <1>2, MaxOfTwo

\* Types: the uploader and the reaper.
LEMMA TypeBackground ==
  ASSUME TInv, Background
  PROVE  TInv'
  <1> USE DEF TInv
  <1>0. UNCHANGED sends => /\ Used' = Used /\ Begun' = Begun
                           /\ \A x : Live(x)' = Live(x)
    BY DEF Used, Begun, Live, sends
  <1>1. CASE ReapScan
    <2>1. /\ scan' = [active |-> active, commit |-> LeastCommit]
          /\ released' = Max({released, PassedByAll}) /\ up
          /\ UNCHANGED <<disk, progress, up, writer, sends, sync, reading, bounds,
                         exposed, astray>>
      BY <1>1 DEF ReapScan
    <2>2. LeastCommit \in Offset \cup {NoCommit}
          /\ released' \in Offset \cup {NoCommit}
      BY <2>1, LeastIs, ReleasedIs
    <2>3. active \in Nat
      BY DEF WriterTypes
    <2>4. ScanTypes'
      BY <2>1, <2>2, <2>3 DEF ScanTypes, writer
    <2> QED
      BY <1>0, <2>1, <2>4 DEF DiskTypes, GroupTypes, WriterTypes, SendTypes,
        OffsetsTaken, SegmentsBegun, disk, progress, reading, writer, sends, sync,
        bounds
  <1>2. ASSUME NEW id, Reap(id) PROVE TInv'
    <2>1. /\ up /\ id \in DOMAIN segment /\ id < scan.active
          /\ segment' = Restrict(segment, DOMAIN segment \ {id})
          /\ synced' = Restrict(synced, DOMAIN synced \ {id})
          /\ uploaded' = uploaded \ {id}
          /\ UNCHANGED <<archive, progress, up, writer, sends, sync, scan, reading,
                         bounds, history>>
      BY <1>2 DEF Reap, Reapable
    <2>2. active \in DOMAIN segment /\ id # active
      <3>1. id \in Nat /\ scan.active \in Nat /\ active \in Nat
            /\ scan.active =< active /\ active \in DOMAIN segment
        BY <2>1 DEF DiskTypes, ScanTypes, WriterTypes
      <3> QED
        BY <2>1, <3>1
    <2>3. /\ DOMAIN segment' = DOMAIN segment \ {id}
          /\ DOMAIN synced' = DOMAIN segment \ {id}
          /\ \A x \in DOMAIN segment \ {id} :
               segment'[x] = segment[x] /\ synced'[x] = synced[x]
      BY <2>1 DEF Restrict, DiskTypes
    <2>4. DiskTypes'
      BY <2>1, <2>2, <2>3 DEF DiskTypes
    <2>5. WriterTypes' /\ ScanTypes'
      BY <2>1, <2>2, <2>3 DEF WriterTypes, ScanTypes, progress, writer, history
    <2>6. OffsetsTaken'
      BY <1>0, <2>1, <2>3 DEF OffsetsTaken, writer, progress, reading, sends
    <2>7. SegmentsBegun'
      <3>1. \A x \in DOMAIN segment' \cup DOMAIN archive' : x =< active
        BY <2>1, <2>3 DEF SegmentsBegun
      <3> QED
        BY <1>0, <2>1, <2>2, <2>3, <3>1 DEF SegmentsBegun, writer, sends, bounds
    <2> QED
      BY <2>1, <2>4, <2>5, <2>6, <2>7 DEF GroupTypes, SendTypes, progress, reading,
        sends, sync, bounds, history
  <1>3. ASSUME NEW id, NEW marked \in BOOLEAN, Upload(id, marked) PROVE TInv'
    <2>1. /\ up /\ id \in DOMAIN segment
          /\ archive' = [i \in DOMAIN archive \cup {id} |->
                           IF i = id THEN segment[id] ELSE archive[i]]
          /\ uploaded' = IF marked THEN uploaded \cup {id} ELSE uploaded
          /\ UNCHANGED <<segment, synced, progress, up, writer, sends, sync, scan,
                         reading, bounds, history>>
      BY <1>3 DEF Upload, Sealed
    <2>2. /\ DOMAIN archive' = DOMAIN archive \cup {id}
          /\ archive'[id] = segment[id]
          /\ \A x \in DOMAIN archive : x # id => archive'[x] = archive[x]
      BY <2>1
    <2>3. DiskTypes'
      BY <2>1, <2>2 DEF DiskTypes
    <2>4. OffsetsTaken'
      <3>1. \A x \in DOMAIN archive' : Below(archive'[x], Used)
        BY <2>1, <2>2 DEF OffsetsTaken
      <3> QED
        BY <1>0, <2>1, <3>1 DEF OffsetsTaken, writer, progress, reading, sends
    <2>5. SegmentsBegun'
      BY <1>0, <2>1, <2>2 DEF SegmentsBegun, writer, sends, bounds
    <2> QED
      BY <2>1, <2>3, <2>4, <2>5 DEF GroupTypes, SendTypes, WriterTypes, ScanTypes,
        progress, reading, sends, sync, bounds, writer, history
  <1> QED
    BY <1>1, <1>2, <1>3 DEF Background

\* What is left of a file: a prefix with at least the durable frames, and a
\* torn frame perhaps.
LEMMA RemnantIs ==
  ASSUME NEW s \in Seq(Frame), NEW n \in 0..Len(s), NEW more \in BOOLEAN,
         NEW r \in Remnants(s, n, more)
  PROVE  /\ r \in Seq(Frame)
         /\ \E k \in n..Len(s) :
              /\ \A i \in 1..k : r[i] = s[i]
              /\ \/ Len(r) = k
                 \/ /\ k < Len(s) \/ more
                    /\ Len(r) = k + 1 /\ r[k + 1] = Torn
                    /\ MayTear(SubSeq(s, 1, k))
  <1>0. Len(s) \in Nat /\ Torn \in Frame
    BY DEF Frame
  <1>1. ASSUME NEW k \in n..Len(s)
        PROVE  /\ SubSeq(s, 1, k) \in Seq(Frame) /\ Len(SubSeq(s, 1, k)) = k
               /\ \A i \in 1..k : SubSeq(s, 1, k)[i] = s[i]
               /\ k = Len(s) => SubSeq(s, 1, k) = s
    <2>1. k \in 0..Len(s)
      BY <1>0
    <2> QED
      BY <1>0, <2>1
  <1> DEFINE cut == {SubSeq(s, 1, k) : k \in n..Len(s)}
  <1>2. CASE r \in cut
    <2>1. PICK k \in n..Len(s) : r = SubSeq(s, 1, k)
      BY <1>2
    <2> QED
      BY <2>1, <1>1
  <1>3. ASSUME NEW c \in cut, MayTear(c), more \/ c # s, r = Append(c, Torn)
        PROVE  /\ r \in Seq(Frame)
               /\ \E k \in n..Len(s) :
                    /\ \A i \in 1..k : r[i] = s[i]
                    /\ k < Len(s) \/ more
                    /\ Len(r) = k + 1 /\ r[k + 1] = Torn
                    /\ MayTear(SubSeq(s, 1, k))
    <2>1. PICK k \in n..Len(s) : c = SubSeq(s, 1, k)
      OBVIOUS
    <2>2. k # Len(s) \/ more
      BY <1>3, <2>1, <1>1
    <2>3. k \in Nat /\ (k < Len(s) \/ more)
      BY <1>0, <2>2
    <2>4. c \in Seq(Frame) /\ Len(c) = k /\ \A i \in 1..k : c[i] = s[i]
      BY <1>1, <2>1
    <2>5. r \in Seq(Frame) /\ Len(r) = k + 1 /\ r[k + 1] = Torn
      BY <1>0, <1>3, <2>3, <2>4
    <2>6. \A i \in 1..k : r[i] = s[i]
      BY <1>0, <1>3, <2>3, <2>4
    <2> QED
      BY <1>3, <2>1, <2>3, <2>5, <2>6
  <1>4. \/ r \in cut
        \/ \E c \in cut : MayTear(c) /\ (more \/ c # s) /\ r = Append(c, Torn)
    BY DEF Remnants
  <1> QED
    BY <1>2, <1>3, <1>4

\* The end of the process, whatever becomes of the files
LEMMA TypeEnds ==
  ASSUME TInv, Ends, DiskTypes',
         \A id \in DOMAIN segment' : Below(segment'[id], Used),
         DOMAIN segment' = DOMAIN segment
  PROVE  TInv'
  <1> USE DEF TInv
  <1>0. /\ up /\ ~up' /\ crashes < MaxCrashes /\ crashes' = crashes + 1
        /\ pc' = [p \in Sender |-> IF pc[p] \in {"new", "acked", "failed"}
                                   THEN pc[p] ELSE "lost"]
        /\ memory' = <<>> /\ pending' = <<>> /\ batch' = {} /\ scan' = NoScan
        /\ cursor' = [g \in Group |-> -1] /\ out' = [g \in Group |-> {}]
        /\ up' = FALSE
        /\ queued' = {}
        /\ UNCHANGED <<archive, uploaded, progress, next_offset, active, size, off,
                       seg, fails, history>>
    BY DEF Ends
  <1>1. /\ \A x \in Sender : pc'[x] = "new" => pc[x] = "new"
        /\ \A x \in Sender : pc'[x] \in {"new", "reserved"}
                               => pc[x] \in {"new", "reserved"}
        /\ \A x \in Sender : pc'[x] \notin LivePc
        /\ \A x \in Sender : ~Live(x)'
    BY <1>0 DEF SendTypes, Live, LivePc
  <1>2. /\ Used \in Nat /\ Used' \in Nat /\ Begun \in Nat /\ Begun' \in Nat
        /\ Used =< Used' /\ Used' =< Cardinality(Sender)
        /\ Begun =< Begun' /\ Begun' =< Cardinality(Sender)
    BY <1>1, CountStep
  <1>3. crashes \in Nat /\ crashes' \in 0..MaxCrashes
    BY <1>0, BoundsAssumption DEF SendTypes
  <1>4. GroupTypes'
    BY <1>0 DEF GroupTypes, progress
  <1>5. DOMAIN memory' = {} /\ Cardinality(DOMAIN memory') =< capacity'
    <2>1. DOMAIN memory' = {}
      BY <1>0
    <2> QED
      BY <1>4, <2>1, FS_EmptySet DEF GroupTypes
  <1>6. WriterTypes'
    BY <1>0, <1>5 DEF WriterTypes
  <1>7. ScanTypes'
    <2>1. NoScan \in [active : Nat, commit : Offset \cup {NoCommit}]
          /\ NoScan.active = 0
      BY DEF NoScan
    <2> QED
      BY <1>0, <2>1 DEF ScanTypes, WriterTypes, history
  <1>8. SendTypes'
    <2>1. pending' \in Seq(Sender)
      BY <1>0
    <2> QED
      BY <1>0, <1>1, <1>3, <2>1 DEF SendTypes, history
  <1>9. OffsetsTaken'
    <2>1. \A id \in DOMAIN segment' : Below(segment'[id], Used')
      BY <1>2, BelowMore DEF DiskTypes
    <2> QED
      BY <1>0, <1>1, <1>2, <1>5, <2>1, TakenStays DEF OffsetsTaken, progress
  <1>10. SegmentsBegun'
    <2>0. \A id \in DOMAIN segment \cup DOMAIN archive : id \in Nat
      BY DEF DiskTypes
    <2>1. \A id \in DOMAIN segment \cup DOMAIN archive : id < Begun' + crashes'
      <3>1. active \in Nat /\ active =< Begun + crashes
            /\ \A id \in DOMAIN segment \cup DOMAIN archive : id =< active
        BY <1>0 DEF SegmentsBegun, WriterTypes
      <3> QED
        BY <3>1, <2>0, <1>0, <1>2, <1>3
    <2> QED
      BY <2>1, <1>0 DEF SegmentsBegun
  <1> QED
    BY <1>4, <1>6, <1>7, <1>8, <1>9, <1>10

\* Types: the process dies and the files stay.
LEMMA TypeCrash ==
  ASSUME TInv, NEW cut, Crash(cut)
  PROVE  TInv'
  <1> USE DEF TInv
  <1>1. /\ Ends /\ UNCHANGED <<synced, archive, uploaded>>
        /\ cut \in SUBSET DOMAIN segment
        /\ DOMAIN segment' = DOMAIN segment
        /\ \A id \in DOMAIN segment :
             segment'[id] = IF id \in cut THEN Append(segment[id], Torn)
                            ELSE segment[id]
    BY DEF Crash, Ends
  <1>2. /\ Torn \in Frame /\ DiskTypes
        /\ \A id \in DOMAIN segment : Below(segment[id], Used)
    BY DEF Frame, OffsetsTaken
  <1>3. DiskTypes' /\ \A id \in DOMAIN segment' : Below(segment'[id], Used)
    BY <1>1, <1>2, LongerDisk
  <1> QED
    BY <1>1, <1>3, TypeEnds

\* What a power failure does to each file
LEMMA PowerIs ==
  ASSUME DiskTypes, PowerFailure
  PROVE  /\ DOMAIN segment' = DOMAIN segment
         /\ \A id \in DOMAIN segment :
              segment'[id] \in Remnants(segment[id], synced[id], id \in Writing)
         /\ DOMAIN synced' = DOMAIN segment
         /\ \A id \in DOMAIN segment : synced'[id] = Len(segment'[id])
  <1> DEFINE left == [id \in DOMAIN segment |->
                        Remnants(segment[id], synced[id], id \in Writing)]
  <1>1. PICK f \in [DOMAIN segment -> UNION Range(left)] :
          /\ \A id \in DOMAIN segment : f[id] \in left[id]
          /\ segment' = f
    BY DEF PowerFailure
  <1>2. synced' = [id \in DOMAIN segment |-> Len(segment'[id])]
    BY DEF PowerFailure
  <1> QED
    BY <1>1, <1>2

\* Types: unsynced frames are cut off.
LEMMA TypePowerFailure ==
  ASSUME TInv, PowerFailure
  PROVE  TInv'
  <1> USE DEF TInv
  <1>0. Ends /\ UNCHANGED <<archive, uploaded>>
    BY DEF PowerFailure, Ends
  <1>1. /\ DOMAIN segment' = DOMAIN segment
        /\ \A id \in DOMAIN segment :
             segment'[id] \in Remnants(segment[id], synced[id], id \in Writing)
        /\ DOMAIN synced' = DOMAIN segment
        /\ \A id \in DOMAIN segment : synced'[id] = Len(segment'[id])
    BY PowerIs
  <1>2. ASSUME NEW id \in DOMAIN segment
        PROVE  /\ segment'[id] \in Seq(Frame)
               /\ synced'[id] \in 0..Len(segment'[id])
               /\ Below(segment'[id], Used)
    <2> DEFINE s == segment[id]
               r == segment'[id]
    <2>1. s \in Seq(Frame) /\ synced[id] \in 0..Len(s)
      BY DEF DiskTypes
    <2>2. PICK more \in BOOLEAN : r \in Remnants(s, synced[id], more)
      <3> DEFINE w == id \in Writing
      <3>1. r \in Remnants(s, synced[id], w)
        BY <1>1
      <3>2. w \in BOOLEAN
        OBVIOUS
      <3> HIDE DEF w, r, s
      <3> QED
        BY <3>1, <3>2
    <2>3. Below(s, Used)
      BY DEF OffsetsTaken
    <2>4. synced'[id] = Len(r)
      BY <1>1
    <2> HIDE DEF s, r
    <2>5. r \in Seq(Frame)
      BY <2>1, <2>2, RemnantIs
    <2>6. PICK k \in synced[id]..Len(s) :
            /\ \A i \in 1..k : r[i] = s[i]
            /\ Len(r) = k \/ (Len(r) = k + 1 /\ r[k + 1] = Torn)
      BY <2>1, <2>2, RemnantIs
    <2>7. Len(s) \in Nat /\ k \in Nat /\ k =< Len(s)
      BY <2>1
    <2>8. \A i \in 1..Len(r) : r[i] # Torn => i \in 1..Len(s) /\ r[i] = s[i]
      BY <2>6, <2>7
    <2>9. Below(r, Used)
      BY <2>3, <2>8 DEF Below
    <2>10. Len(r) \in 0..Len(r)
      BY <2>5
    <2> QED
      BY <2>4, <2>5, <2>9, <2>10 DEF r
  <1>3. DiskTypes'
    BY <1>0, <1>1, <1>2 DEF DiskTypes
  <1>4. \A id \in DOMAIN segment' : Below(segment'[id], Used)
    BY <1>1, <1>2
  <1> QED
    BY <1>0, <1>1, <1>3, <1>4, TypeEnds

\* What a replay reads of a file is the whole frames of one of its copies.
LEMMA ReadableIs ==
  ASSUME TInv, NEW id
  PROVE  /\ Readable(id) \in Seq(Message)
         /\ \/ id \in DOMAIN segment /\ segment[id] # <<>>
                 /\ Readable(id) = Whole(segment[id])
            \/ id \in DOMAIN archive /\ Readable(id) = Whole(archive[id])
                 /\ (id \in DOMAIN segment => segment[id] = <<>>)
            \/ id \notin DOMAIN archive /\ Readable(id) = <<>>
                 /\ (id \in DOMAIN segment => segment[id] = <<>>)
  <1>1. /\ id \in DOMAIN segment => Whole(segment[id]) \in Seq(Message)
        /\ id \in DOMAIN archive => Whole(archive[id]) \in Seq(Message)
    BY WholeIs DEF TInv, DiskTypes
  <1> QED
    BY <1>1 DEF Readable

\* A frame that a replay finds
LEMMA StoredIs ==
  ASSUME TInv, NEW at \in Stored
  PROVE  /\ at[1] \in DOMAIN segment \cup DOMAIN archive
         /\ at[2] \in 1..Len(Readable(at[1])) /\ at = <<at[1], at[2]>>
         /\ FrameAt(at) \in Message
         /\ FrameAt(at).off \in Offset /\ FrameAt(at).msg \in Sender
         /\ FrameAt(at).off < Used
  <1>1. /\ at[1] \in DOMAIN segment \cup DOMAIN archive
        /\ at[2] \in 1..Len(Readable(at[1])) /\ at = <<at[1], at[2]>>
    BY DEF Stored
  <1> DEFINE id == at[1]
             i == at[2]
  <1>2. Readable(id) \in Seq(Message)
    BY ReadableIs
  <1>3. i \in 1..Len(Readable(id))
    BY <1>1
  <1>4. FrameAt(at) = Readable(id)[i]
    BY DEF FrameAt
  <1>5. FrameAt(at) \in Message
    BY <1>2, <1>3, <1>4
  <1>6. FrameAt(at).off < Used
    <2>1. ASSUME NEW s \in Seq(Frame), Below(s, Used), Readable(id) = Whole(s)
          PROVE  FrameAt(at).off < Used
      <3>1. /\ Len(Whole(s)) =< Len(s) /\ Len(Whole(s)) \in Nat /\ Len(s) \in Nat
            /\ Whole(s)[i] = s[i] /\ s[i] # Torn
        BY <1>2, <1>3, <2>1, WholeIs
      <3>2. i \in 1..Len(s)
        BY <1>3, <2>1, <3>1
      <3> QED
        BY <1>4, <2>1, <3>1, <3>2 DEF Below
    <2>2. Readable(id) # <<>>
      BY <1>2, <1>3
    <2>3. \/ id \in DOMAIN segment /\ Readable(id) = Whole(segment[id])
          \/ id \in DOMAIN archive /\ Readable(id) = Whole(archive[id])
      BY <2>2, ReadableIs
    <2> QED
      BY <2>1, <2>3 DEF TInv, OffsetsTaken, DiskTypes
  <1> QED
    BY <1>1, <1>5, <1>6 DEF Message

\* The files have numbers below a bound.
LEMMA IdsBound ==
  ASSUME TInv
  PROVE  /\ Begun + crashes \in Nat
         /\ DOMAIN segment \cup DOMAIN archive \in SUBSET (0..(Begun + crashes))
  <1>1. Begun \in Nat /\ crashes \in Nat /\ active \in Nat
    BY CountNow, BegunStays DEF TInv, WriterTypes
  <1>2. \A id \in DOMAIN segment \cup DOMAIN archive : id \in Nat
    BY DEF TInv, DiskTypes
  <1>3. up \in BOOLEAN
    BY DEF TInv, WriterTypes
  <1>4. \A id \in DOMAIN segment \cup DOMAIN archive : id =< Begun + crashes
    BY <1>1, <1>2, <1>3 DEF TInv, SegmentsBegun
  <1> QED
    BY <1>1, <1>2, <1>4

\* Places have a last one in replay order.
LEMMA LastPlace ==
  ASSUME NEW k \in Nat, NEW m \in [0..k -> Nat], NEW S, S # {},
         \A x \in S : /\ x[1] \in 0..k /\ x[2] \in 0..m[x[1]]
                     /\ x = <<x[1], x[2]>>
  PROVE  \E at \in S : \A b \in S : b = at \/ Before(b, at)
  <1> DEFINE A == {x[1] : x \in S}
  <1>1. A \in SUBSET (0..k) /\ A # {}
    OBVIOUS
  <1>2. PICK a \in A : \A y \in A : a >= y
    <2> HIDE DEF A
    <2> QED
      BY <1>1, MaxOfNats
  <1> DEFINE B == {x[2] : x \in {z \in S : z[1] = a}}
  <1>3. B \in SUBSET (0..m[a]) /\ B # {} /\ m[a] \in Nat
    BY <1>1
  <1>4. PICK c \in B : \A y \in B : c >= y
    <2> HIDE DEF B
    <2> QED
      BY <1>3, MaxOfNats
  <1>5. PICK at \in S : at[1] = a /\ at[2] = c
    OBVIOUS
  <1>6. ASSUME NEW b \in S, b # at PROVE Before(b, at)
    <2>1. b[1] \in Nat /\ b[2] \in Nat /\ a \in Nat /\ c \in Nat
      BY <1>3, <1>1, <1>4
    <2>2. b[1] \in A /\ b[1] =< a
      BY <1>2, <2>1
    <2>3. CASE b[1] = a
      <3>1. b[2] \in B
        BY <2>3
      <3>2. b[2] =< c
        BY <3>1, <1>4, <2>1
      <3>3. b[2] # c
        BY <1>5, <1>6, <2>3
      <3> QED
        BY <3>2, <3>3, <2>1, <2>3, <1>5 DEF Before
    <2>4. CASE b[1] # a
      BY <2>1, <2>2, <2>4, <1>5 DEF Before
    <2> QED
      BY <2>3, <2>4
  <1> QED
    BY <1>6

\* No two places are before each other.
LEMMA PlacesDiffer ==
  ASSUME NEW a \in Nat \X Nat, NEW b \in Nat \X Nat, Before(a, b)
  PROVE  ~Before(b, a) /\ a # b
  BY DEF Before

\* Every set of stored frames has a last one.
LEMMA LastStored ==
  ASSUME TInv, NEW S \in SUBSET Stored, S # {}
  PROVE  \E at \in S : \A b \in S : b = at \/ Before(b, at)
  <1> DEFINE k == Begun + crashes
             m == [id \in 0..k |-> Len(Readable(id))]
  <1>1. k \in Nat /\ DOMAIN segment \cup DOMAIN archive \in SUBSET (0..k)
    BY IdsBound
  <1>2. m \in [0..k -> Nat]
    <2>1. \A id \in 0..k : Len(Readable(id)) \in Nat
      BY ReadableIs
    <2> QED
      BY <2>1
  <1>3. \A x \in S : /\ x[1] \in 0..k /\ x[2] \in 0..m[x[1]]
                     /\ x = <<x[1], x[2]>>
    <2> TAKE x \in S
    <2>1. /\ x[1] \in DOMAIN segment \cup DOMAIN archive
          /\ x[2] \in 1..Len(Readable(x[1])) /\ x = <<x[1], x[2]>>
      BY StoredIs
    <2>2. x[1] \in 0..k /\ m[x[1]] = Len(Readable(x[1]))
      BY <1>1, <2>1
    <2> QED
      BY <2>1, <2>2
  <1> HIDE DEF k, m
  <1> QED
    BY <1>1, <1>2, <1>3, LastPlace

\* What a replay puts into memory fits, and is the last frame of its offset.
LEMMA ReplayIs ==
  ASSUME TInv, Fits
  PROVE  /\ DOMAIN ReplayedMemory \subseteq Offset
         /\ \A o \in DOMAIN ReplayedMemory :
              /\ ReplayedMemory[o] \in Sender /\ o < Used
              /\ \E at \in Replayed :
                   /\ FrameAt(at).off = o /\ ReplayedMemory[o] = FrameAt(at).msg
                   /\ \A b \in Replayed :
                        FrameAt(b).off = o => b = at \/ Before(b, at)
         /\ \A at \in Replayed : FrameAt(at).off \in DOMAIN ReplayedMemory
         /\ Cardinality(DOMAIN ReplayedMemory) =< capacity
  <1> DEFINE D == {FrameAt(at).off : at \in Replayed}
  <1>0. Replayed \in SUBSET Stored
    BY DEF Replayed
  <1>1. DOMAIN ReplayedMemory = D
    BY DEF ReplayedMemory
  <1>2. \A at \in Replayed : FrameAt(at).off \in Offset /\ FrameAt(at).msg \in Sender
                             /\ FrameAt(at).off < Used
    BY <1>0, StoredIs
  <1>3. D \in SUBSET Offset /\ \A o \in D : o < Used
    BY <1>2
  <1>4. ASSUME NEW o \in D
        PROVE  \E at \in Replayed :
                   /\ FrameAt(at).off = o /\ ReplayedMemory[o] = FrameAt(at).msg
                   /\ \A b \in Replayed :
                        FrameAt(b).off = o => b = at \/ Before(b, at)
    <2> DEFINE here == {at \in Replayed : FrameAt(at).off = o}
               last == CHOOSE at \in here : \A b \in here : b = at \/ Before(b, at)
    <2>1. here \in SUBSET Stored /\ here # {}
      BY <1>0
    <2>2. \E at \in here : \A b \in here : b = at \/ Before(b, at)
      <3> HIDE DEF here
      <3> QED
        BY <2>1, LastStored
    <2>3. last \in here /\ \A b \in here : b = last \/ Before(b, last)
      <3> HIDE DEF here
      <3> QED
        BY <2>2
    <2>4. ReplayedMemory[o] = FrameAt(last).msg
      BY DEF ReplayedMemory
    <2> HIDE DEF last
    <2> QED
      BY <2>3, <2>4
  <1>c. capacity \in Nat
    BY DEF TInv, GroupTypes
  <1>5. Cardinality(D) =< capacity
    <2>1. CASE Replayed = {}
      <3>1. D = {}
        BY <2>1
      <3> QED
        BY <3>1, <1>c, FS_EmptySet
    <2>2. CASE Replayed # {}
      <3>1. PICK at \in Replayed : \A b \in Replayed : b = at \/ Before(b, at)
        BY <1>0, <2>2, LastStored
      <3> DEFINE E == {FrameAt(b).off : b \in {x \in Replayed : Before(x, at)}}
      <3>2. Cardinality(E) < capacity
        BY DEF Fits
      <3>3. E \in SUBSET Offset /\ FrameAt(at).off \in Offset
        BY <1>2
      <3>4. D = E \cup {FrameAt(at).off}
        BY <3>1
      <3> HIDE DEF D, E
      <3>5. IsFiniteSet(Offset)
        BY SenderCount, FS_Interval DEF Offset
      <3>6. Cardinality(E) \in Nat
        BY <3>3, <3>5, FS_Subset, FS_CardinalityType
      <3>7. ~(Cardinality(E) >= capacity)
        BY <3>2, <3>6, <1>c
      <3> QED
        BY <3>3, <3>4, <3>7, <1>c, OneMore
    <2> QED
      BY <2>1, <2>2
  <1>6. \A o \in D : ReplayedMemory[o] \in Sender
    BY <1>2, <1>4
  <1> QED
    BY <1>1, <1>2, <1>3, <1>4, <1>5, <1>6

\* The next offset after a restart is behind every frame that was found and
\* every commit, and no higher than needed.
LEMMA ResumeOffsetIs ==
  ASSUME TInv
  PROVE  /\ ResumeOffset \in Nat /\ ResumeOffset =< Used
         /\ \A at \in Stored : FrameAt(at).off < ResumeOffset
         /\ \A g \in registered : committed[g] < ResumeOffset
  <1> DEFINE F == {FrameAt(at).off + 1 : at \in Stored}
             C == {committed[g] + 1 : g \in registered}
             S == {0} \cup F \cup C
  <1>0. /\ Used \in Nat /\ Offset \subseteq Nat /\ NoCommit = -1
    BY CountNow, SenderCount DEF Offset, NoCommit
  <1>1. \A at \in Stored : FrameAt(at).off \in Nat /\ FrameAt(at).off + 1 \in 0..Used
    <2> TAKE at \in Stored
    <2>1. FrameAt(at).off \in Offset /\ FrameAt(at).off < Used
      BY StoredIs
    <2>2. FrameAt(at).off \in Nat
      BY <1>0, <2>1
    <2> QED
      BY <1>0, <2>1, <2>2
  <1>2. \A g \in registered : committed[g] \in Int /\ committed[g] + 1 \in 0..Used
    <2> TAKE g \in registered
    <2>1. g \in Group /\ committed[g] \in Offset \cup {NoCommit}
          /\ committed[g] < Used
      BY DEF TInv, GroupTypes, OffsetsTaken
    <2>2. committed[g] \in Int /\ committed[g] >= -1
      <3>1. committed[g] \in Nat \/ committed[g] = -1
        BY <1>0, <2>1
      <3> QED
        BY <3>1
    <2> QED
      BY <1>0, <2>1, <2>2
  <1>3. S \in SUBSET (0..Used) /\ S # {}
    BY <1>0, <1>1, <1>2
  <1>4. Max(S) \in S /\ \A y \in S : Max(S) >= y
    <2> HIDE DEF S
    <2> QED
      BY <1>0, <1>3, MaxOfNats
  <1>5. ResumeOffset = Max(S)
    BY DEF ResumeOffset
  <1>6. Max(S) \in Nat /\ Max(S) =< Used
    <2>1. Max(S) \in 0..Used
      BY <1>3, <1>4
    <2> HIDE DEF S
    <2> QED
      BY <1>0, <2>1
  <1>7. ASSUME NEW at \in Stored PROVE FrameAt(at).off < Max(S)
    <2>1. FrameAt(at).off + 1 \in S
      OBVIOUS
    <2>2. Max(S) >= FrameAt(at).off + 1
      BY <1>4, <2>1
    <2>3. FrameAt(at).off \in Nat
      BY <1>1
    <2> HIDE DEF S
    <2> QED
      BY <1>6, <2>2, <2>3
  <1>8. ASSUME NEW g \in registered PROVE committed[g] < Max(S)
    <2>1. committed[g] + 1 \in S
      OBVIOUS
    <2>2. Max(S) >= committed[g] + 1
      BY <1>4, <2>1
    <2>3. committed[g] \in Int
      BY <1>2
    <2> HIDE DEF S
    <2> QED
      BY <1>6, <2>2, <2>3
  <1> HIDE DEF S
  <1> QED
    BY <1>5, <1>6, <1>7, <1>8

\* The segment a restart writes to is the highest, unless that was replayed;
\* then it is the one behind.
LEMMA ResumeSegmentIs ==
  ASSUME TInv, NEW t \in DOMAIN segment,
         \A id \in DOMAIN segment \cup DOMAIN archive : id =< t
  PROVE  \/ ResumeSegment = t /\ \A at \in Stored : at[1] < t
         \/ ResumeSegment = t + 1 /\ \E at \in Stored : at[1] = t
  <1> DEFINE k == Begun + crashes
             highest == Max(DOMAIN segment)
             replayed == {at[1] : at \in Stored}
  <1>1. k \in Nat /\ DOMAIN segment \cup DOMAIN archive \in SUBSET (0..k)
    BY IdsBound
  <1>2. DOMAIN segment \in SUBSET (0..k) /\ DOMAIN segment # {}
    BY <1>1
  <1>3. replayed \in SUBSET (0..k) /\ \A x \in replayed : x =< t
    BY <1>1, StoredIs
  <1> HIDE DEF k
  <1>4. highest = t
    <2>1. highest \in DOMAIN segment /\ highest >= t
      BY <1>1, <1>2, MaxOfNats
    <2>2. highest =< t /\ highest \in Nat /\ t \in Nat
      BY <1>1, <1>2, <2>1
    <2> HIDE DEF highest
    <2> QED
      BY <2>1, <2>2
  <1>5. t \in Nat /\ \A x \in replayed : x \in Nat
    BY <1>1, <1>2, <1>3
  <1>6. ResumeSegment = IF replayed = {} \/ highest > Max(replayed) THEN highest
                        ELSE Max(replayed) + 1
    BY DEF ResumeSegment
  <1>7. \A at \in Stored : at[1] \in replayed
    OBVIOUS
  <1>8. \A x \in replayed : \E at \in Stored : at[1] = x
    OBVIOUS
  <1> HIDE DEF replayed, highest
  <1>9. CASE replayed = {}
    BY <1>4, <1>6, <1>7, <1>9
  <1>10. CASE replayed # {}
    <2>1. Max(replayed) \in replayed /\ \A y \in replayed : Max(replayed) >= y
      BY <1>1, <1>3, <1>10, MaxOfNats
    <2>2. Max(replayed) \in Nat /\ Max(replayed) =< t
      BY <1>3, <1>5, <2>1
    <2>3. CASE t > Max(replayed)
      BY <1>4, <1>5, <1>6, <1>7, <2>1, <2>2, <2>3
    <2>4. CASE ~(t > Max(replayed))
      <3>1. Max(replayed) = t
        BY <1>5, <2>2, <2>4
      <3> QED
        BY <1>4, <1>5, <1>6, <1>8, <1>10, <2>1, <2>4, <3>1
    <2> QED
      BY <2>3, <2>4
  <1> QED
    BY <1>9, <1>10

\* What a restart makes of the files: at most one more, and that is empty.
LEMMA OpenDisk ==
  ASSUME TInv, Open
  PROVE  /\ DiskTypes'
         /\ active' = ResumeSegment /\ active' \in Nat
         /\ DOMAIN segment' = DOMAIN segment \cup {active'}
         /\ \A id \in DOMAIN segment :
              segment'[id] = segment[id] /\ synced'[id] = synced[id]
         /\ active' \notin DOMAIN segment => segment'[active'] = <<>>
         /\ \A id \in DOMAIN segment \cup DOMAIN archive : id =< active'
         /\ active' =< Begun + crashes
  <1> USE DEF TInv
  <1>0. /\ ~up /\ active' = ResumeSegment
        /\ segment' = FilesWith(DOMAIN segment \cup {active'})
        /\ synced' = SyncedWith(DOMAIN segment')
        /\ UNCHANGED <<archive, uploaded>>
    BY DEF Open
  <1>1. PICK t \in DOMAIN segment :
          \A id \in DOMAIN segment \cup DOMAIN archive : id =< t
    BY DEF SegmentsBegun
  <1>2. ResumeSegment \in {t, t + 1}
    BY <1>1, ResumeSegmentIs
  <1>3. /\ t \in Nat /\ t < Begun + crashes /\ Begun + crashes \in Nat
        /\ \A id \in DOMAIN segment \cup DOMAIN archive : id \in Nat
    BY <1>0, IdsBound DEF SegmentsBegun, DiskTypes
  <1>4. /\ active' \in Nat /\ active' >= t /\ active' =< Begun + crashes
    BY <1>0, <1>2, <1>3
  <1>5. \A id \in DOMAIN segment \cup DOMAIN archive : id =< active'
    <2> TAKE id \in DOMAIN segment \cup DOMAIN archive
    <2>1. id \in Nat /\ id =< t
      BY <1>1, <1>3
    <2> QED
      BY <1>3, <1>4, <2>1
  <1>6. /\ DiskTypes'
        /\ DOMAIN segment' = DOMAIN segment \cup {active'}
        /\ \A id \in DOMAIN segment :
             segment'[id] = segment[id] /\ synced'[id] = synced[id]
        /\ active' \notin DOMAIN segment => segment'[active'] = <<>>
    BY <1>0, <1>4, CreateDisk
  <1> QED
    BY <1>0, <1>4, <1>5, <1>6

\* Types: recovery.
LEMMA TypeOpen ==
  ASSUME TInv, Open
  PROVE  TInv'
  <1> USE DEF TInv
  <1>0. /\ ~up /\ up' /\ up' \in BOOLEAN /\ Fits /\ memory' = ReplayedMemory
        /\ next_offset' = ResumeOffset
        /\ released' = Max({released, PassedByAll})
        /\ size' = Len(SelectSeq(segment'[active'], LAMBDA f : f # Torn))
        /\ UNCHANGED <<archive, uploaded, progress, sends, sync, scan, reading,
                       bounds, exposed, astray>>
    BY DEF Open
  <1>1. Used' = Used /\ Begun' = Begun /\ \A x : Live(x)' = Live(x)
    BY <1>0 DEF Used, Begun, Live, sends
  <1>2. /\ DiskTypes' /\ active' \in Nat
        /\ DOMAIN segment' = DOMAIN segment \cup {active'}
        /\ \A id \in DOMAIN segment : segment'[id] = segment[id]
        /\ active' \notin DOMAIN segment => segment'[active'] = <<>>
        /\ \A id \in DOMAIN segment \cup DOMAIN archive : id =< active'
        /\ active' =< Begun + crashes
    BY OpenDisk
  <1>3. GroupTypes' /\ SendTypes'
    BY <1>0 DEF GroupTypes, SendTypes, progress, reading, sends, sync, bounds
  <1>4. next_offset' \in Nat /\ next_offset' =< Used
    BY <1>0, ResumeOffsetIs
  <1>5. WriterTypes'
    <2>1. size' \in Int
      BY <1>0, <1>2 DEF DiskTypes
    <2> QED
      BY <1>0, <1>2, <1>4, <2>1, ReplayIs DEF WriterTypes, progress
  <1>6. ScanTypes'
    <2>1. released' \in Offset \cup {NoCommit}
      BY <1>0, ReleasedIs
    <2>2. scan = NoScan /\ scan.active = 0
      BY <1>0 DEF ScanTypes, NoScan
    <2> QED
      BY <1>0, <1>2, <2>1, <2>2 DEF ScanTypes
  <1>7. OffsetsTaken'
    <2>1. Below(<<>>, Used)
      BY DEF Below
    <2>2. \A id \in DOMAIN segment' : Below(segment'[id], Used)
      BY <1>2, <2>1 DEF OffsetsTaken
    <2>3. \A o \in DOMAIN memory' : o < Used
      BY <1>0, ReplayIs
    <2> QED
      BY <1>0, <1>1, <1>4, <2>2, <2>3 DEF OffsetsTaken, progress, reading, sends
  <1>8. SegmentsBegun'
    <2>1. \A id \in DOMAIN segment' \cup DOMAIN archive' : id =< active'
      BY <1>0, <1>2
    <2> QED
      BY <1>0, <1>1, <1>2, <2>1 DEF SegmentsBegun, bounds
  <1> QED
    BY <1>2, <1>3, <1>5, <1>6, <1>7, <1>8

\* The invariant of the types holds at first and after every step.
LEMMA TypeInit == Init => TInv
  <1> SUFFICES ASSUME Init PROVE TInv
    OBVIOUS
  <1>1. /\ DOMAIN segment = {0} /\ segment[0] = <<>> /\ DOMAIN synced = {0}
        /\ synced[0] = 0 /\ DOMAIN archive = {} /\ uploaded = {}
    BY DEF Init
  <1>2. <<>> \in Seq(Frame) /\ 0 \in 0..Len(<<>>)
    OBVIOUS
  <1>3. DiskTypes
    BY <1>1, <1>2 DEF DiskTypes
  <1>4. GroupTypes
    BY ModeAssumption, BoundsAssumption DEF Init, GroupTypes
  <1>5. WriterTypes
    <2>1. DOMAIN memory = {}
      BY DEF Init
    <2>2. Cardinality(DOMAIN memory) =< capacity
      BY <1>4, <2>1, FS_EmptySet DEF GroupTypes
    <2> QED
      BY <1>1, <2>1, <2>2 DEF Init, WriterTypes
  <1>6. ScanTypes
    BY DEF Init, ScanTypes, NoScan
  <1>7. CASE Sender = {}
    <2>1. SendTypes
      <3>1. crashes \in 0..MaxCrashes /\ fails \in Nat
        BY BoundsAssumption DEF Init
      <3>2. pending \in Seq(Sender) /\ batch \subseteq Sender
        BY DEF Init
      <3> QED
        BY <1>7, <3>1, <3>2 DEF Init, SendTypes
    <2>2. Used \in Nat /\ Begun \in Nat
      BY CountNow
    <2> QED
      BY <1>1, <1>3, <1>4, <1>5, <1>6, <1>7, <2>1, <2>2
      DEF Init, TInv, OffsetsTaken, SegmentsBegun, Below, NoCommit
  <1>8. CASE Sender # {}
    <2>1. 0 \in Offset
      <3>1. Cardinality(Sender) # 0
        BY <1>8, SenderAssumption, FS_EmptySet
      <3> QED
        BY <3>1, SenderCount DEF Offset
    <2>2. MaxSegment \in Nat
      BY SenderCount, BoundsAssumption DEF MaxSegment
    <2>3. SendTypes
      <3>1. crashes \in 0..MaxCrashes /\ fails \in Nat
        BY BoundsAssumption DEF Init
      <3>2. pending \in Seq(Sender) /\ batch \subseteq Sender
        BY DEF Init
      <3> QED
        BY <2>1, <2>2, <3>1, <3>2 DEF Init, SendTypes
    <2>4. Used \in Nat /\ Begun \in Nat
      BY CountNow
    <2> QED
      BY <1>1, <1>3, <1>4, <1>5, <1>6, <2>3, <2>4
      DEF Init, TInv, OffsetsTaken, SegmentsBegun, Below, NoCommit, Live, LivePc
  <1> QED
    BY <1>7, <1>8

\* Types: nothing happens.
LEMMA TypeStutter ==
  ASSUME TInv, UNCHANGED vars
  PROVE  TInv'
  <1>1. UNCHANGED <<disk, progress, up, writer, sends, sync, scan, reading, bounds,
                    history>>
    BY DEF vars
  <1>2. Used' = Used /\ Begun' = Begun /\ \A x : Live(x)' = Live(x)
    BY <1>1 DEF Used, Begun, Live, sends
  <1> QED
    BY <1>1, <1>2 DEF TInv, DiskTypes, GroupTypes, WriterTypes, ScanTypes,
      SendTypes, OffsetsTaken, SegmentsBegun, disk, progress, writer, sends, sync,
      reading, bounds, history

\* Every step keeps the types.
LEMMA TypeNext ==
  ASSUME TInv, [Next]_vars
  PROVE  TInv'
  <1>1. ASSUME NEW p \in Sender, Send(p) \/ SendStep(p) \/ WriteStep(p)
        PROVE  TInv'
    BY <1>1, TypeSend, TypeAppendFrame, TypeAppendFails, TypeEnqueue, TypeWrite,
       TypeAppendSyncFails DEF SendStep
  <1>2. CASE Drain
    BY <1>2, TypeDrainTake, TypeDrain DEF Drain
  <1> QED
    BY <1>1, <1>2, TypeConsume, TypeBackground, TypeCrash, TypePowerFailure,
       TypeOpen, TypeStutter DEF Next

\* The types follow: the counts bound the offsets and the segments.
LEMMA TypesFollow == TInv => StoreTypeOK
  <1> SUFFICES ASSUME TInv PROVE StoreTypeOK
    OBVIOUS
  <1> USE DEF TInv
  <1>1. /\ Begun + crashes \in Nat /\ Begun + crashes =< MaxSegment
        /\ MaxSegment \in Nat
    BY CountNow, SenderCount, BoundsAssumption DEF SendTypes, MaxSegment
  <1>2. DOMAIN segment \subseteq 0..MaxSegment /\ DOMAIN archive \subseteq 0..MaxSegment
    <2>1. \A id \in DOMAIN segment \cup DOMAIN archive : id \in 0..(Begun + crashes)
      BY IdsBound
    <2> QED
      BY <1>1, <2>1
  <1>3. IsFiniteSet(DOMAIN segment)
    <2>1. IsFiniteSet(0..MaxSegment)
      BY <1>1, FS_Interval
    <2> QED
      BY <1>2, <2>1, FS_Subset
  <1>4. next_offset \in 0..Cardinality(Sender)
    BY CountNow, SenderCount DEF OffsetsTaken, WriterTypes
  <1>5. Range(memory) \subseteq Sender
    BY DEF WriterTypes, Range
  <1> QED
    BY <1>2, <1>3, <1>4, <1>5 DEF StoreTypeOK, DiskTypes, GroupTypes, WriterTypes,
      SendTypes

\* The invariant of the types, of every state
LEMMA TypeInvariant == Spec => []TInv
  BY TypeInit, TypeNext, PTL DEF Spec

\* Every reachable state of the store has the declared types: in particular
\* the offsets and segments that sends, failed appends, crashes and restarts
\* use up are bounded by the number of senders and crashes, and a replay never
\* puts more into memory than it holds.
THEOREM TypeCorrect == Spec => []StoreTypeOK
  BY TypeInvariant, TypesFollow, PTL

----------------------------------------------------------------------------
(* Files and their frames *)

\* A reader gets all the frames of a clean file.
LEMMA CleanWhole ==
  ASSUME NEW s \in Seq(Frame), Clean(s)
  PROVE  /\ \A i \in 1..Len(s) :
              s[i] # Torn => i \in 1..Len(Whole(s)) /\ Whole(s)[i] = s[i]
         /\ Whole(s) = <<>> => s = <<>>
  <1>1. /\ Whole(s) \in Seq(Message) /\ Len(Whole(s)) =< Len(s)
        /\ \A i \in 1..Len(Whole(s)) : Whole(s)[i] = s[i] /\ s[i] # Torn
        /\ Len(Whole(s)) = Len(s) \/ s[Len(Whole(s)) + 1] = Torn
    BY WholeIs
  <1> DEFINE w == Len(Whole(s))
  <1>2. w \in Nat /\ Len(s) \in Nat /\ w =< Len(s)
    BY <1>1
  <1>3. w = Len(s) \/ (w + 1 = Len(s) /\ s[w + 1] = Torn /\ w >= 1)
    <2>1. CASE w < Len(s)
      <3>1. w + 1 \in 1..Len(s) /\ s[w + 1] = Torn
        BY <1>1, <1>2, <2>1
      <3> QED
        BY <3>1, <1>2 DEF Clean
    <2> QED
      BY <1>2, <2>1
  <1>4. ASSUME NEW i \in 1..Len(s), s[i] # Torn
        PROVE  i \in 1..w /\ Whole(s)[i] = s[i]
    <2>1. i \in 1..w
      BY <1>2, <1>3, <1>4
    <2> QED
      BY <1>1, <2>1
  <1>5. Whole(s) = <<>> => s = <<>>
    <2> SUFFICES ASSUME Whole(s) = <<>> PROVE s = <<>>
      OBVIOUS
    <2>1. w = 0
      OBVIOUS
    <2>2. Len(s) = 0
      BY <1>2, <1>3, <2>1
    <2> QED
      BY <2>2
  <1> QED
    BY <1>4, <1>5

\* What holds of a file's frames holds of those that are left of them.
LEMMA PartOfFile ==
  ASSUME NEW s \in Seq(Frame), NEW r \in Seq(Frame),
         \A i \in 1..Len(r) : r[i] # Torn => i \in 1..Len(s) /\ r[i] = s[i],
         NEW id, NEW c, NEW o, NEW g, NEW x
  PROVE  /\ Authentic(s, id, c, o, g) => Authentic(r, id, c, o, g)
         /\ Exposed(s, x) => Exposed(r, x)
  <1>1. Authentic(s, id, c, o, g) => Authentic(r, id, c, o, g)
    BY DEF Authentic
  <1>2. Exposed(s, x) => Exposed(r, x)
    BY DEF Exposed
  <1> QED
    BY <1>1, <1>2

\* Files stay authentic when their senders keep their offsets and segments,
\* and exposure stays known.
LEMMA AuthenticStays ==
  ASSUME NEW s \in Seq(Frame), NEW id, NEW c, NEW o, NEW g, NEW x,
         NEW c2, NEW o2, NEW g2, NEW x2,
         \A q \in Sender : c[q] \notin {"new", "reserved"} =>
            c2[q] \notin {"new", "reserved"} /\ o2[q] = o[q] /\ g2[q] = g[q],
         x \subseteq x2
  PROVE  /\ Authentic(s, id, c, o, g) => Authentic(s, id, c2, o2, g2)
         /\ Exposed(s, x) => Exposed(s, x2)
  <1>1. \A i \in 1..Len(s) : s[i] # Torn => s[i].msg \in Sender
    <2> TAKE i \in 1..Len(s)
    <2>1. s[i] \in Frame
      OBVIOUS
    <2> QED
      BY <2>1, FrameKinds DEF Message
  <1>2. Authentic(s, id, c, o, g) => Authentic(s, id, c2, o2, g2)
    BY <1>1 DEF Authentic
  <1>3. Exposed(s, x) => Exposed(s, x2)
    BY DEF Exposed
  <1> QED
    BY <1>2, <1>3

\* A frame that is in an authentic file is a sender's, which is past its append
\* and wrote to that file.
LEMMA FrameInFile ==
  ASSUME NEW s \in Seq(Frame), NEW id, NEW c, NEW o, NEW g, NEW p \in Sender,
         NEW u \in Offset, Authentic(s, id, c, o, g),
         NEW n \in 0..Len(s), In([off |-> u, msg |-> p], s, n)
  PROVE  c[p] \notin {"new", "reserved"} /\ g[p] = id /\ o[p] = u
  <1>1. PICK i \in 1..n : s[i] = [off |-> u, msg |-> p]
    BY DEF In
  <1>2. i \in 1..Len(s)
    OBVIOUS
  <1>3. s[i] # Torn
    <2>1. [off |-> u, msg |-> p] \in Message
      BY DEF Message
    <2> QED
      BY <2>1, <1>1, FrameKinds
  <1>4. s[i].msg = p /\ s[i].off = u
    BY <1>1
  <1>5. /\ s[i] = [off |-> o[p], msg |-> p] /\ g[p] = id
        /\ c[p] \notin {"new", "reserved"}
    BY <1>2, <1>3, <1>4 DEF Authentic
  <1> QED
    BY <1>4, <1>5

\* A message on disk is past its append, and in the segment it was sent to.
LEMMA OnDiskIs ==
  ASSUME TInv, SInv, NEW p \in Sender, OnDisk(p)
  PROVE  /\ pc[p] \notin {"new", "reserved"}
         /\ \/ /\ seg[p] \in DOMAIN segment
               /\ In(FrameOf(p), segment[seg[p]], Len(segment[seg[p]]))
            \/ /\ seg[p] \in DOMAIN archive
               /\ In(FrameOf(p), archive[seg[p]], Len(archive[seg[p]]))
  <1>0. off[p] \in Offset
    BY DEF TInv, SendTypes
  <1>1. ASSUME NEW id \in DOMAIN segment,
               In(FrameOf(p), segment[id], Len(segment[id]))
        PROVE  pc[p] \notin {"new", "reserved"} /\ seg[p] = id
    <2>1. segment[id] \in Seq(Frame) /\ Authentic(segment[id], id, pc, off, seg)
      BY DEF TInv, DiskTypes, SInv, FilesOK
    <2>2. Len(segment[id]) \in 0..Len(segment[id])
      BY <2>1
    <2> QED
      BY <1>0, <1>1, <2>1, <2>2, FrameInFile DEF FrameOf
  <1>2. ASSUME NEW id \in DOMAIN archive,
               In(FrameOf(p), archive[id], Len(archive[id]))
        PROVE  pc[p] \notin {"new", "reserved"} /\ seg[p] = id
    <2>1. archive[id] \in Seq(Frame) /\ Authentic(archive[id], id, pc, off, seg)
      BY DEF TInv, DiskTypes, SInv, FilesOK
    <2>2. Len(archive[id]) \in 0..Len(archive[id])
      BY <2>1
    <2> QED
      BY <1>0, <1>2, <2>1, <2>2, FrameInFile DEF FrameOf
  <1> QED
    BY <1>1, <1>2 DEF OnDisk

\* Steps that leave the files alone
LEMMA FilesFrame ==
  ASSUME TInv, FilesOK, UNCHANGED <<segment, archive, active, up>>,
         \A q \in Sender : pc[q] \notin {"new", "reserved"} =>
            pc'[q] \notin {"new", "reserved"} /\ off'[q] = off[q]
              /\ seg'[q] = seg[q],
         exposed \subseteq exposed', queued' \subseteq queued
  PROVE  FilesOK'
  <1>1. /\ \A id \in DOMAIN segment : segment[id] \in Seq(Frame)
        /\ \A id \in DOMAIN archive : archive[id] \in Seq(Frame)
    BY DEF TInv, DiskTypes
  <1>2. ASSUME NEW id \in DOMAIN segment
        PROVE  /\ Clean(segment[id])
               /\ Authentic(segment[id], id, pc', off', seg')
               /\ Exposed(segment[id], exposed')
    <2>1. /\ Clean(segment[id]) /\ Authentic(segment[id], id, pc, off, seg)
          /\ Exposed(segment[id], exposed)
      BY DEF FilesOK
    <2> QED
      BY <1>1, <2>1, AuthenticStays
  <1>3. ASSUME NEW id \in DOMAIN archive
        PROVE  /\ Clean(archive[id])
               /\ Authentic(archive[id], id, pc', off', seg')
    <2>1. Clean(archive[id]) /\ Authentic(archive[id], id, pc, off, seg)
      BY DEF FilesOK
    <2> QED
      BY <1>1, <2>1, AuthenticStays
  <1>4. ASSUME NEW q \in queued'
        PROVE  /\ q \in queued /\ seg'[q] = seg[q] /\ FrameOf(q)' = FrameOf(q)
               /\ ~OnDisk(q)'
    <2>1. q \in queued /\ q \in Sender /\ pc[q] \notin {"new", "reserved"}
      BY DEF TInv, SendTypes
    <2>2. seg'[q] = seg[q] /\ FrameOf(q)' = FrameOf(q)
      BY <2>1 DEF FrameOf
    <2> QED
      BY <2>1, <2>2 DEF FilesOK, OnDisk
  <1> QED
    BY <1>2, <1>3, <1>4 DEF FilesOK

----------------------------------------------------------------------------
(* The invariant of the messages, step by step *)

\* A send that has not appended has no frame anywhere.
LEMMA NotOnDisk ==
  ASSUME TInv, FilesOK, NEW p \in Sender, pc[p] \in {"new", "reserved"},
         NEW u \in Offset
  PROVE  /\ \A id \in DOMAIN segment :
              ~In([off |-> u, msg |-> p], segment[id], Len(segment[id]))
         /\ \A id \in DOMAIN archive :
              ~In([off |-> u, msg |-> p], archive[id], Len(archive[id]))
  <1>1. ASSUME NEW id \in DOMAIN segment,
               In([off |-> u, msg |-> p], segment[id], Len(segment[id]))
        PROVE  FALSE
    <2>1. segment[id] \in Seq(Frame) /\ Authentic(segment[id], id, pc, off, seg)
      BY DEF TInv, DiskTypes, FilesOK
    <2>2. Len(segment[id]) \in 0..Len(segment[id])
      BY <2>1
    <2> QED
      BY <1>1, <2>1, <2>2, FrameInFile
  <1>2. ASSUME NEW id \in DOMAIN archive,
               In([off |-> u, msg |-> p], archive[id], Len(archive[id]))
        PROVE  FALSE
    <2>1. archive[id] \in Seq(Frame) /\ Authentic(archive[id], id, pc, off, seg)
      BY DEF TInv, DiskTypes, FilesOK
    <2>2. Len(archive[id]) \in 0..Len(archive[id])
      BY <2>1
    <2> QED
      BY <1>2, <2>1, <2>2, FrameInFile
  <1> QED
    BY <1>1, <1>2

\* Numbers the comparisons are about
LEMMA Numbers ==
  ASSUME TInv
  PROVE  /\ \A p \in Sender : off[p] \in Nat /\ seg[p] \in Nat
         /\ next_offset \in Nat /\ active \in Nat /\ released \in Int
         /\ \A g \in Group : committed[g] \in Int /\ committed[g] >= -1
         /\ \A g \in Group : cursor[g] \in Int /\ cursor[g] >= -1
         /\ \A g \in Group : \A o \in out[g] : o \in Nat
         /\ \A o \in DOMAIN memory : o \in Nat
         /\ scan.active \in Nat /\ scan.commit \in Int
         /\ \A id \in DOMAIN segment \cup DOMAIN archive : id \in Nat
  <1>1. /\ \A o \in Offset : o \in Nat
        /\ \A o \in Offset \cup {NoCommit} : o \in Int /\ o >= -1
        /\ \A o \in Offset \cup {-1, Cardinality(Sender)} : o \in Int /\ o >= -1
    BY SenderCount DEF Offset, NoCommit
  <1>2. \A n \in 0..MaxSegment : n \in Nat
    BY SenderCount, BoundsAssumption DEF MaxSegment
  <1>3. \A p \in Sender : off[p] \in Nat /\ seg[p] \in Nat
    BY <1>1, <1>2 DEF TInv, SendTypes
  <1>4. next_offset \in Nat /\ active \in Nat /\ released \in Int
    BY <1>1 DEF TInv, WriterTypes, ScanTypes
  <1>5. /\ \A g \in Group : committed[g] \in Int /\ committed[g] >= -1
        /\ \A g \in Group : cursor[g] \in Int /\ cursor[g] >= -1
    BY <1>1 DEF TInv, GroupTypes
  <1>6. \A g \in Group : \A o \in out[g] : o \in Nat
    <2> TAKE g \in Group
    <2>1. out[g] \in SUBSET Offset
      BY DEF TInv, GroupTypes
    <2> QED
      BY <1>1, <2>1
  <1>7. \A o \in DOMAIN memory : o \in Nat
    BY <1>1 DEF TInv, WriterTypes
  <1>8. scan.active \in Nat /\ scan.commit \in Int
    BY <1>1 DEF TInv, ScanTypes
  <1>9. \A id \in DOMAIN segment \cup DOMAIN archive : id \in Nat
    BY DEF TInv, DiskTypes
  <1> QED
    BY <1>3, <1>4, <1>5, <1>6, <1>7, <1>8, <1>9

\* Messages: send reserves an offset nobody in flight has.
LEMMA KeepSend ==
  ASSUME TInv, SInv, TInv', NEW p \in Sender, Send(p)
  PROVE  SInv'
  <1> USE DEF SInv
  <1>1. /\ pc[p] = "new" /\ up
        /\ \A q \in Sender : q # p => pc'[q] = pc[q] /\ off'[q] = off[q]
        /\ \/ pc'[p] = "failed" /\ off' = off /\ next_offset' = next_offset
           \/ /\ pc'[p] = "reserved" /\ off'[p] = next_offset
              /\ next_offset' = next_offset + 1
        /\ UNCHANGED <<disk, progress, up, active, memory, seg, queued, sync, scan,
                       reading, bounds, history>>
    BY DEF Send, Step, TInv, SendTypes
  <1>q. p \notin queued /\ ~Live(p) /\ queued \subseteq Sender
    BY <1>1 DEF TInv, SendTypes, Live, LivePc
  <1>2. \A q \in Sender : off[q] \in Nat /\ off'[q] \in Nat /\ off'[q] \in Offset
    BY Numbers, SenderCount DEF TInv, SendTypes, Offset
  <1>3. next_offset \in Nat /\ next_offset' >= next_offset /\ next_offset' \in Nat
    BY <1>1, Numbers
  <1>4. FilesOK'
    BY <1>1, FilesFrame DEF history, disk
  <1>5. \E t \in DOMAIN segment' : Top(t)'
    BY <1>1 DEF Top, disk
  <1>6. Archived'
    BY <1>1 DEF Archived, disk, history
  <1>7. \A q \in Sender : q # p => FrameOf(q)' = FrameOf(q)
    BY <1>1 DEF FrameOf
  <1>8. SendsOK'
    <2>1. \A i \in 1..Len(pending) : pending[i] \in Sender /\ pending[i] # p
      BY <1>1 DEF SendsOK, TInv, SendTypes
    <2>2. \A q \in batch : q \in Sender /\ q # p
      BY <1>1 DEF SendsOK, TInv, SendTypes
    <2>3. \A q \in Sender : pc'[q] \in {"appended", "waiting", "acked"} => q # p
      BY <1>1
    <2>4. \A q \in Acked' : q \in Acked /\ q # p
      BY <1>1, <2>3 DEF Acked
    <2>5. \A q \in Acked' : Kept(q)' \/ q \in astray'
      BY <1>1, <1>7, <2>4 DEF SendsOK, Kept, Released, Misplaced, disk, history,
        progress, Acked
    <2>6. \A q \in Acked' : InMemory(q)' \/ Released(q)' \/ Misplaced(q)'
                           \/ q \in astray'
      BY <1>1, <2>4 DEF SendsOK, InMemory, Released, Misplaced, history, progress,
        Acked
    <2>7. \A q \in Sender : pc'[q] = "waiting" => InMemory(q)'
      BY <1>1, <2>3 DEF SendsOK, InMemory
    <2>8. \A q \in Sender \ (queued' \cup astray') :
            pc'[q] \in {"appended", "waiting"} /\ seg'[q] \in DOMAIN segment' =>
              In(FrameOf(q)', segment'[seg'[q]], Len(segment'[seg'[q]]))
      BY <1>1, <1>7, <2>3 DEF SendsOK, disk, history
    <2> QED
      BY <1>1, <2>1, <2>2, <2>5, <2>6, <2>7, <2>8 DEF SendsOK, sync
  <1>e. \A q \in Sender : q # p => (Exempt(q) => Exempt(q)')
    BY <1>1 DEF Exempt, Misplaced, history, progress
  <1>9. OffsetsApart'
    <2>1. \A q \in Acked' : /\ q \in Acked /\ q # p /\ off'[q] = off[q]
                            /\ (Exempt(q) => Exempt(q)') /\ q \in Sender
      BY <1>1, <1>e DEF Acked
    <2>2. \A q \in Sender : q # p /\ Live(q)' =>
             Live(q) /\ off'[q] = off[q] /\ off[q] < next_offset
      BY <1>1 DEF OffsetsApart, Live
    <2>3. \A q \in Acked : off[q] < next_offset \/ Exempt(q)
      BY <1>1 DEF OffsetsApart
    <2>4. CASE pc'[p] = "failed"
      <3>1. ~Live(p)'
        BY <1>1, <1>q, <2>4 DEF Live, LivePc
      <3>2. next_offset' = next_offset
        BY <1>1, <2>4
      <3> QED
        BY <2>1, <2>2, <2>3, <3>1, <3>2 DEF OffsetsApart
    <2>5. CASE pc'[p] = "reserved"
      <3>1. off'[p] = next_offset /\ next_offset' = next_offset + 1
        BY <1>1, <2>5
      <3>2. \A q \in Sender : Live(q)' => off'[q] < next_offset'
        BY <1>2, <1>3, <2>2, <3>1
      <3>3. \A q \in Acked' : off'[q] < next_offset' \/ Exempt(q)'
        BY <1>2, <1>3, <2>1, <2>3, <3>1
      <3>4. \A x, q \in Sender :
              x # q /\ Live(x)' /\ Live(q)' => off'[x] # off'[q]
        BY <1>2, <1>3, <2>2, <3>1 DEF OffsetsApart
      <3>5. \A x \in Acked', q \in Sender :
              x # q /\ Live(q)' => off'[x] # off'[q] \/ Exempt(x)'
        <4> TAKE x \in Acked', q \in Sender
        <4>1. x \in Acked /\ x \in Sender /\ off'[x] = off[x]
              /\ (Exempt(x) => Exempt(x)')
          BY <2>1
        <4>2. CASE q = p
          BY <1>2, <1>3, <2>3, <3>1, <4>1, <4>2
        <4>3. CASE q # p
          BY <2>2, <4>1, <4>3 DEF OffsetsApart
        <4> QED
          BY <4>2, <4>3
      <3> QED
        BY <3>2, <3>3, <3>4, <3>5 DEF OffsetsApart
    <2> QED
      BY <1>1, <2>4, <2>5
  <1>10. LastCounts'
    <2> SUFFICES ASSUME NEW q \in Sender, OnDisk(q)'
                 PROVE  /\ off'[q] >= next_offset' => seg'[q] < active'
                        /\ \A x \in Sender : x # q /\ off'[x] = off'[q] =>
                             /\ pc'[x] = "reserved" => seg'[q] < active'
                             /\ pc'[x] \in {"appended", "waiting", "acked"} =>
                                  seg'[q] < seg'[x] \/ Exempt(x)'
      BY DEF LastCounts
    <2>1. q # p
      <3> SUFFICES ASSUME q = p PROVE FALSE
        OBVIOUS
      <3>1. FrameOf(p)' = [off |-> off'[p], msg |-> p]
        BY DEF FrameOf
      <3>2. /\ \A id \in DOMAIN segment :
                 ~In(FrameOf(p)', segment[id], Len(segment[id]))
            /\ \A id \in DOMAIN archive :
                 ~In(FrameOf(p)', archive[id], Len(archive[id]))
        BY <1>1, <1>2, <3>1, NotOnDisk
      <3> QED
        BY <1>1, <3>2 DEF OnDisk, disk
    <2>2. OnDisk(q)
      BY <1>1, <1>7, <2>1 DEF OnDisk, disk
    <2>3. off'[q] = off[q] /\ (off[q] >= next_offset => seg[q] < active)
      BY <1>1, <2>1, <2>2 DEF LastCounts
    <2>4. off'[q] >= next_offset' => seg'[q] < active'
      BY <1>1, <1>2, <1>3, <2>3
    <2>5. ASSUME NEW x \in Sender, x # q, off'[x] = off'[q]
          PROVE  /\ pc'[x] = "reserved" => seg'[q] < active'
                 /\ pc'[x] \in {"appended", "waiting", "acked"} =>
                      seg'[q] < seg'[x] \/ Exempt(x)'
      <3>1. CASE x = p
        BY <1>1, <1>2, <1>3, <2>3, <2>5, <3>1
      <3>2. CASE x # p
        BY <1>1, <1>e, <2>2, <2>3, <2>5, <3>2 DEF LastCounts
      <3> QED
        BY <3>1, <3>2
    <2> QED
      BY <2>4, <2>5
  <1>11. ProgressOK'
    <2>1. /\ \A o \in DOMAIN memory : o < next_offset'
          /\ \A g \in Group : /\ committed[g] < next_offset'
                              /\ \A o \in out[g] : o < next_offset'
      BY <1>1, <1>3, Numbers DEF ProgressOK
    <2> QED
      BY <1>1, <2>1 DEF ProgressOK, progress, reading, history
  <1> QED
    BY <1>4, <1>5, <1>6, <1>8, <1>9, <1>10, <1>11

----------------------------------------------------------------------------
(* What steps leave as it is *)

\* No step hides that a message was written in front of a lower offset, or
\* that its write went astray.
LEMMA ExemptStays ==
  ASSUME UNCHANGED <<off, archiving>>, exposed \subseteq exposed',
         astray \subseteq astray', NEW q \in Sender
  PROVE  (Misplaced(q) => Misplaced(q)') /\ (Exempt(q) => Exempt(q)')
  BY DEF Misplaced, Exempt

\* Offsets in use stay apart while no send reserves one.
LEMMA ApartStays ==
  ASSUME OffsetsApart, UNCHANGED <<off, archiving, next_offset>>,
         exposed \subseteq exposed', astray \subseteq astray', up' => up,
         \A q \in Sender : Live(q)' => Live(q),
         \A q \in Sender : pc'[q] = "acked" => pc[q] \in {"acked", "waiting"}
  PROVE  OffsetsApart'
  <1>1. \A q \in Sender : Exempt(q) => Exempt(q)'
    BY ExemptStays
  <1>2. ASSUME NEW x \in Acked'
        PROVE  x \in Sender /\ (x \in Acked \/ Live(x))
    BY DEF Acked, LivePc, Live
  <1>3. \A x \in Sender : Live(x)' => off'[x] < next_offset'
    BY DEF OffsetsApart
  <1>4. up' => \A x \in Acked' : off'[x] < next_offset' \/ Exempt(x)'
    BY <1>1, <1>2 DEF OffsetsApart
  <1>5. \A x, y \in Sender : x # y /\ Live(x)' /\ Live(y)' => off'[x] # off'[y]
    BY DEF OffsetsApart
  <1>6. \A x \in Acked', y \in Sender :
          x # y /\ Live(y)' => off'[x] # off'[y] \/ Exempt(x)'
    BY <1>1, <1>2 DEF OffsetsApart
  <1> QED
    BY <1>3, <1>4, <1>5, <1>6 DEF OffsetsApart

\* The frame that counts stays last while no frame is written.
LEMMA LastStays ==
  ASSUME TInv, LastCounts, UNCHANGED <<off, seg, archiving, next_offset>>,
         exposed \subseteq exposed', astray \subseteq astray', up' => up,
         active' \in Nat, active' >= active,
         \A q \in Sender : OnDisk(q)' => OnDisk(q),
         \A q \in Sender : pc'[q] = "reserved" => pc[q] = "reserved",
         \A q \in Sender : pc'[q] \in {"appended", "waiting", "acked"} =>
                           pc[q] \in {"appended", "waiting", "acked"}
  PROVE  LastCounts'
  <1> SUFFICES ASSUME NEW q \in Sender, OnDisk(q)'
               PROVE  /\ up' /\ off'[q] >= next_offset' => seg'[q] < active'
                      /\ \A x \in Sender : x # q /\ off'[x] = off'[q] =>
                           /\ pc'[x] = "reserved" => seg'[q] < active'
                           /\ pc'[x] \in {"appended", "waiting", "acked"} =>
                                seg'[q] < seg'[x] \/ Exempt(x)'
    BY DEF LastCounts
  <1>1. OnDisk(q)
    OBVIOUS
  <1>2. active \in Nat /\ seg[q] \in Nat
    BY Numbers
  <1>3. seg[q] < active => seg'[q] < active'
    BY <1>2
  <1>4. \A x \in Sender : Exempt(x) => Exempt(x)'
    BY ExemptStays
  <1> QED
    BY <1>1, <1>3, <1>4 DEF LastCounts

\* An acknowledged message stays what it was where files are left alone.
LEMMA KeptStays ==
  ASSUME TInv, TInv', UNCHANGED <<segment, archive, archiving, off, seg>>,
         exposed \subseteq exposed', astray \subseteq astray',
         released' >= released,
         \A id \in DOMAIN segment : synced'[id] >= synced[id],
         NEW q \in Sender
  PROVE  /\ Kept(q) => Kept(q)'
         /\ Released(q) => Released(q)'
  <1>1. FrameOf(q)' = FrameOf(q)
    BY DEF FrameOf
  <1>2. Released(q) => Released(q)'
    <2>1. released' \in Int
      BY SenderCount DEF TInv, ScanTypes, Offset, NoCommit
    <2> QED
      BY <2>1, Numbers DEF Released
  <1>3. Misplaced(q) => Misplaced(q)'
    BY ExemptStays
  <1>4. ASSUME seg[q] \in DOMAIN segment,
               In(FrameOf(q), segment[seg[q]], synced[seg[q]])
        PROVE  In(FrameOf(q)', segment'[seg'[q]], synced'[seg'[q]])
    <2>1. synced[seg[q]] \in Nat /\ synced'[seg[q]] \in Nat
          /\ synced'[seg[q]] >= synced[seg[q]]
      <3>1. /\ synced[seg[q]] \in 0..Len(segment[seg[q]])
            /\ synced'[seg[q]] \in 0..Len(segment[seg[q]])
            /\ segment[seg[q]] \in Seq(Frame)
        BY <1>4 DEF TInv, DiskTypes
      <3> QED
        BY <1>4, <3>1
    <2>2. \A i \in 1..synced[seg[q]] : i \in 1..synced'[seg[q]]
      BY <2>1
    <2> QED
      BY <1>1, <1>4, <2>2 DEF In
  <1> QED
    BY <1>1, <1>2, <1>3, <1>4 DEF Kept

\* The sends stay as they are while what their messages rest on does.
LEMMA SendsStay ==
  ASSUME SendsOK,
         UNCHANGED <<pc, off, seg, pending, batch, memory, archiving>>,
         exposed \subseteq exposed', astray \subseteq astray', up' => up,
         queued \cup astray \subseteq queued' \cup astray',
         \A q \in Sender : Kept(q) => Kept(q)' \/ q \in astray',
         \A q \in Sender : Released(q) => Released(q)',
         \A q \in Sender : seg[q] \in DOMAIN segment' =>
            seg[q] \in DOMAIN segment /\ segment'[seg[q]] = segment[seg[q]]
  PROVE  SendsOK'
  <1>1. \A q \in Sender : FrameOf(q)' = FrameOf(q) /\ (Misplaced(q) => Misplaced(q)')
    BY ExemptStays DEF FrameOf
  <1>2. Acked' = Acked /\ \A q \in Acked : q \in Sender
    BY DEF Acked
  <1>3. \A q \in Sender : InMemory(q)' = InMemory(q)
    BY DEF InMemory
  <1>4. \A q \in Acked' : Kept(q)' \/ q \in astray'
    BY <1>2 DEF SendsOK
  <1>5. up' => \A q \in Acked' :
                 InMemory(q)' \/ Released(q)' \/ Misplaced(q)' \/ q \in astray'
    BY <1>1, <1>2, <1>3 DEF SendsOK
  <1>6. \A q \in Sender \ (queued' \cup astray') :
          pc'[q] \in {"appended", "waiting"} /\ seg'[q] \in DOMAIN segment' =>
            In(FrameOf(q)', segment'[seg'[q]], Len(segment'[seg'[q]]))
    BY <1>1 DEF SendsOK
  <1>7. \A q \in Sender : pc'[q] = "waiting" => InMemory(q)'
    BY <1>3 DEF SendsOK
  <1> QED
    BY <1>4, <1>5, <1>6, <1>7 DEF SendsOK

\* A message stays where it is while files grow.
LEMMA GrowthKeeps ==
  ASSUME TInv, DOMAIN segment \subseteq DOMAIN segment',
         \A id \in DOMAIN segment :
           /\ synced'[id] = synced[id] /\ segment'[id] \in Seq(Frame)
           /\ Len(segment'[id]) >= Len(segment[id])
           /\ \A i \in 1..Len(segment[id]) : segment'[id][i] = segment[id][i],
         UNCHANGED <<archive, archiving, released>>, exposed \subseteq exposed',
         NEW q \in Sender, off'[q] = off[q], seg'[q] = seg[q],
         seg[q] \in DOMAIN segment' => seg[q] \in DOMAIN segment
  PROVE  /\ Kept(q) => Kept(q)'
         /\ seg[q] \in DOMAIN segment
              /\ In(FrameOf(q), segment[seg[q]], Len(segment[seg[q]]))
            => In(FrameOf(q)', segment'[seg'[q]], Len(segment'[seg'[q]]))
  <1>1. FrameOf(q)' = FrameOf(q)
    BY DEF FrameOf
  <1>2. ASSUME NEW id \in DOMAIN segment
        PROVE  /\ Len(segment[id]) \in Nat /\ synced[id] \in 0..Len(segment[id])
               /\ Len(segment'[id]) \in Nat
    BY DEF TInv, DiskTypes
  <1>3. ASSUME seg[q] \in DOMAIN segment,
               NEW n \in 0..Len(segment[seg[q]]),
               In(FrameOf(q), segment[seg[q]], n)
        PROVE  In(FrameOf(q)', segment'[seg'[q]], n)
    <2>1. PICK i \in 1..n : segment[seg[q]][i] = FrameOf(q)
      BY <1>3 DEF In
    <2>2. i \in 1..Len(segment[seg[q]])
      BY <1>2, <1>3
    <2>3. segment'[seg[q]][i] = segment[seg[q]][i]
      BY <1>3, <2>2
    <2> QED
      BY <1>1, <2>1, <2>3 DEF In
  <1>4. ASSUME Kept(q) PROVE Kept(q)'
    <2>1. CASE seg[q] \in DOMAIN segment
                 /\ In(FrameOf(q), segment[seg[q]], synced[seg[q]])
      <3>1. In(FrameOf(q)', segment'[seg'[q]], synced[seg[q]])
        BY <1>2, <1>3, <2>1
      <3> QED
        BY <2>1, <3>1 DEF Kept
    <2>2. CASE /\ seg[q] \notin DOMAIN segment /\ archiving
               /\ seg[q] \in DOMAIN archive
               /\ In(FrameOf(q), archive[seg[q]], Len(archive[seg[q]]))
      BY <1>1, <2>2 DEF Kept
    <2>3. CASE ~archiving /\ (Released(q) \/ Misplaced(q))
      BY <2>3 DEF Kept, Released, Misplaced
    <2> QED
      BY <1>4, <2>1, <2>2, <2>3 DEF Kept
  <1>5. ASSUME seg[q] \in DOMAIN segment,
               In(FrameOf(q), segment[seg[q]], Len(segment[seg[q]]))
        PROVE  In(FrameOf(q)', segment'[seg'[q]], Len(segment'[seg'[q]]))
    <2>1. In(FrameOf(q)', segment'[seg'[q]], Len(segment[seg[q]]))
      BY <1>2, <1>3, <1>5
    <2>2. \A i \in 1..Len(segment[seg[q]]) : i \in 1..Len(segment'[seg[q]])
      BY <1>2, <1>5
    <2> QED
      BY <2>1, <2>2 DEF In
  <1> QED
    BY <1>4, <1>5

----------------------------------------------------------------------------
(* Appends and their writes *)

\* What an append makes of the files: at most one more, and that is empty.
LEMMA OpenedIs ==
  ASSUME TInv, SInv, up, NEW fits,
         OpenTarget(fits) \/ UNCHANGED <<segment, synced, active>>,
         UNCHANGED <<archive, uploaded>>
  PROVE  /\ active' \in Nat /\ active' >= active /\ active \in Nat
         /\ DOMAIN segment' = DOMAIN segment \cup {active'}
         /\ \A id \in DOMAIN segment :
              segment'[id] = segment[id] /\ synced'[id] = synced[id]
         /\ active' \notin DOMAIN segment => segment'[active'] = <<>>
         /\ \A id \in DOMAIN segment' : id =< active'
         /\ \A id \in DOMAIN archive : id < active'
         /\ \A q \in Sender : /\ seg[q] =< active'
                              /\ seg[q] = active' => active' \in DOMAIN segment
         /\ \A i \in 1..Len(segment'[active']) : segment'[active'][i] # Torn
  <1>1. /\ active \in Nat /\ active \in DOMAIN segment /\ DiskTypes
        /\ \A id \in DOMAIN segment \cup DOMAIN archive : id \in Nat
        /\ \A q \in Sender : seg[q] \in Nat
    BY Numbers DEF TInv, WriterTypes
  <1>2. /\ \A id \in DOMAIN segment : id =< active
        /\ \A id \in DOMAIN archive : id < active
        /\ \A q \in Sender : seg[q] =< active
    BY DEF SInv, Top
  <1>3. active' \in {active, active + 1}
    BY DEF OpenTarget, TargetSegment
  <1>4. /\ DOMAIN segment' = DOMAIN segment \cup {active'}
        /\ \A id \in DOMAIN segment :
             segment'[id] = segment[id] /\ synced'[id] = synced[id]
        /\ active' \notin DOMAIN segment => segment'[active'] = <<>>
    <2>1. CASE OpenTarget(fits)
      <3>1. active' \in Nat
        BY <1>1, <1>3
      <3> QED
        BY <1>1, <2>1, <3>1, CreateDisk DEF OpenTarget
    <2>2. CASE UNCHANGED <<segment, synced, active>>
      BY <1>1, <2>2
    <2> QED
      BY <2>1, <2>2
  <1>5. \A i \in 1..Len(segment'[active']) : segment'[active'][i] # Torn
    <2>1. CASE active' = active
      BY <1>1, <1>4, <2>1 DEF SInv, FilesOK
    <2>2. CASE active' = active + 1
      <3>1. segment'[active'] = <<>>
        BY <1>1, <1>2, <1>4, <2>2
      <3> QED
        BY <3>1
    <2> QED
      BY <1>3, <2>1, <2>2
  <1> QED
    BY <1>1, <1>2, <1>3, <1>4, <1>5

\* Messages: an append that hands out its write, or fails.
LEMMA KeepAppending ==
  ASSUME TInv, SInv, TInv', NEW p \in Sender, pc[p] = "reserved", NEW fits,
         OpenTarget(fits) \/ UNCHANGED <<segment, synced, active>>,
         \/ /\ pc' = [pc EXCEPT ![p] = "failed"] /\ UNCHANGED <<seg, queued>>
         \/ /\ pc' = [pc EXCEPT ![p] = "appended"]
            /\ seg' = [seg EXCEPT ![p] = active'] /\ queued' = queued \cup {p},
         UNCHANGED <<archive, uploaded, progress, up, next_offset, memory, off,
                     sync, scan, reading, history>>
  PROVE  SInv'
  <1> USE DEF SInv
  <1>1. up
    BY DEF TInv, SendTypes, LivePc, WriterTypes
  <1>2. /\ pc'[p] \in {"appended", "failed"}
        /\ pc'[p] = "appended" => seg'[p] = active' /\ queued' = queued \cup {p}
        /\ pc'[p] = "failed" => seg'[p] = seg[p] /\ queued' = queued
        /\ \A q \in Sender : q # p => pc'[q] = pc[q] /\ seg'[q] = seg[q]
        /\ p \notin queued /\ queued \subseteq Sender
    BY DEF TInv, SendTypes
  <1>3. /\ active' \in Nat /\ active' >= active /\ active \in Nat
        /\ DOMAIN segment' = DOMAIN segment \cup {active'}
        /\ \A id \in DOMAIN segment :
             segment'[id] = segment[id] /\ synced'[id] = synced[id]
        /\ active' \notin DOMAIN segment => segment'[active'] = <<>>
        /\ \A id \in DOMAIN segment' : id =< active'
        /\ \A id \in DOMAIN archive : id < active'
        /\ \A q \in Sender : /\ seg[q] =< active'
                             /\ seg[q] = active' => active' \in DOMAIN segment
        /\ \A i \in 1..Len(segment'[active']) : segment'[active'][i] # Torn
    BY <1>1, OpenedIs
  <1>4. UNCHANGED <<archiving, exposed, released, astray>>
    BY DEF progress, history
  <1>5. \A q \in Sender : /\ FrameOf(q)' = FrameOf(q)
                          /\ seg[q] \in DOMAIN segment' => seg[q] \in DOMAIN segment
    BY <1>3 DEF FrameOf
  <1>6. ASSUME NEW q \in Sender, OnDisk(q)' PROVE OnDisk(q)
    <2>1. ASSUME NEW id \in DOMAIN segment',
                 In(FrameOf(q), segment'[id], Len(segment'[id]))
          PROVE  id \in DOMAIN segment /\ segment'[id] = segment[id]
      <3>1. segment'[id] # <<>>
        BY <2>1 DEF In
      <3> QED
        BY <1>3, <3>1
    <2> QED
      BY <1>5, <1>6, <2>1 DEF OnDisk
  <1>7. ~OnDisk(p)
    <2>1. off[p] \in Offset
      BY DEF TInv, SendTypes
    <2> QED
      BY <2>1, NotOnDisk DEF OnDisk, FrameOf
  <1>8. \A q \in Sender : pc[q] \notin {"new", "reserved"} =>
           pc'[q] \notin {"new", "reserved"} /\ off'[q] = off[q] /\ seg'[q] = seg[q]
    BY <1>2
  <1>9. FilesOK'
    <2>1. ASSUME NEW id \in DOMAIN segment'
          PROVE  /\ Clean(segment'[id])
                 /\ Authentic(segment'[id], id, pc', off', seg')
                 /\ Exposed(segment'[id], exposed')
      <3>1. CASE id \in DOMAIN segment
        <4>1. segment'[id] = segment[id]
          BY <1>3, <3>1
        <4>2. /\ Clean(segment[id]) /\ Authentic(segment[id], id, pc, off, seg)
              /\ Exposed(segment[id], exposed) /\ segment[id] \in Seq(Frame)
          BY <3>1 DEF FilesOK, TInv, DiskTypes
        <4>3. /\ Authentic(segment[id], id, pc', off', seg')
              /\ Exposed(segment[id], exposed')
          BY <1>4, <1>8, <4>2, AuthenticStays
        <4> QED
          BY <4>1, <4>2, <4>3
      <3>2. CASE id \notin DOMAIN segment
        <4>1. segment'[id] = <<>>
          BY <1>3, <3>2
        <4>2. \A i \in 1..Len(<<>>) : FALSE
          OBVIOUS
        <4> QED
          BY <4>1, <4>2 DEF Clean, Authentic, Exposed
      <3> QED
        BY <3>1, <3>2
    <2>2. ASSUME NEW id \in DOMAIN archive
          PROVE  Clean(archive[id]) /\ Authentic(archive[id], id, pc', off', seg')
      <3>1. /\ Clean(archive[id]) /\ Authentic(archive[id], id, pc, off, seg)
            /\ archive[id] \in Seq(Frame)
        BY DEF FilesOK, TInv, DiskTypes
      <3> QED
        BY <1>4, <1>8, <3>1, AuthenticStays
    <2>3. ASSUME NEW q \in queued', seg'[q] \in DOMAIN segment'
          PROVE  \A i \in 1..Len(segment'[seg'[q]]) : segment'[seg'[q]][i] # Torn
      <3>1. CASE q = p
        BY <1>2, <1>3, <2>3, <3>1
      <3>2. CASE q # p
        <4>1. q \in queued /\ q \in Sender /\ seg'[q] = seg[q]
          BY <1>2, <2>3, <3>2
        <4>2. seg[q] \in DOMAIN segment /\ segment'[seg[q]] = segment[seg[q]]
          BY <1>3, <1>5, <2>3, <4>1
        <4> QED
          BY <4>1, <4>2 DEF FilesOK
      <3> QED
        BY <3>1, <3>2
    <2>4. \A q \in queued' : ~OnDisk(q)'
      BY <1>2, <1>6, <1>7 DEF FilesOK
    <2> QED
      BY <1>3, <2>1, <2>2, <2>3, <2>4 DEF FilesOK
  <1>10. \E t \in DOMAIN segment' : Top(t)'
    <2>1. \A q \in Sender : seg'[q] =< active'
      BY <1>2, <1>3
    <2> QED
      BY <1>3, <2>1 DEF Top
  <1>11. Archived'
    <2>1. \A id \in uploaded : id \in DOMAIN archive
      BY DEF TInv, DiskTypes
    <2>2. \A id \in DOMAIN archive : id \in DOMAIN segment' => id \in DOMAIN segment
      BY <1>3, Numbers
    <2> QED
      BY <1>3, <1>4, <2>1, <2>2 DEF Archived
  <1>12. ASSUME NEW q \in Sender, q # p
         PROVE  /\ Kept(q) => Kept(q)'
                /\ seg[q] \in DOMAIN segment
                     /\ In(FrameOf(q), segment[seg[q]], Len(segment[seg[q]]))
                   => In(FrameOf(q)', segment'[seg'[q]], Len(segment'[seg'[q]]))
    <2>1. \A id \in DOMAIN segment :
            /\ synced'[id] = synced[id] /\ segment'[id] \in Seq(Frame)
            /\ Len(segment'[id]) >= Len(segment[id])
            /\ \A i \in 1..Len(segment[id]) : segment'[id][i] = segment[id][i]
      BY <1>3 DEF TInv, DiskTypes
    <2> QED
      BY <1>2, <1>3, <1>4, <1>5, <1>12, <2>1, GrowthKeeps
  <1>13. SendsOK'
    <2>1. \A i \in 1..Len(pending) : pending[i] \in Sender /\ pending[i] # p
      BY DEF SendsOK, TInv, SendTypes
    <2>2. \A q \in batch : q \in Sender /\ q # p
      BY DEF SendsOK, TInv, SendTypes
    <2>3. \A q \in Acked' : q \in Acked /\ q \in Sender /\ q # p
      BY <1>2 DEF Acked
    <2>4. \A q \in Acked' : Kept(q)' \/ q \in astray'
      BY <1>4, <1>12, <2>3 DEF SendsOK
    <2>5. \A q \in Acked' : InMemory(q)' \/ Released(q)' \/ Misplaced(q)'
                            \/ q \in astray'
      BY <1>1, <1>4, <2>3 DEF SendsOK, InMemory, Released, Misplaced
    <2>6. \A q \in Sender : pc'[q] = "waiting" => InMemory(q)'
      BY <1>2 DEF SendsOK, InMemory
    <2>7. ASSUME NEW q \in Sender \ (queued' \cup astray'),
                 pc'[q] \in {"appended", "waiting"}, seg'[q] \in DOMAIN segment'
          PROVE  In(FrameOf(q)', segment'[seg'[q]], Len(segment'[seg'[q]]))
      <3>1. q # p /\ q \in Sender \ (queued \cup astray)
        BY <1>2, <1>4, <2>7
      <3> QED
        BY <1>2, <1>5, <1>12, <2>7, <3>1 DEF SendsOK
    <2> QED
      BY <1>1, <1>2, <2>1, <2>2, <2>4, <2>5, <2>6, <2>7 DEF SendsOK, sync
  <1>14. \A q \in Sender : Exempt(q) => Exempt(q)'
    BY <1>4, ExemptStays
  <1>15. OffsetsApart'
    <2>1. \A q \in Sender : Live(q)' => Live(q)
      BY <1>2 DEF Live, LivePc
    <2>2. \A q \in Sender : pc'[q] = "acked" => pc[q] = "acked"
      BY <1>2
    <2> QED
      BY <1>1, <1>4, <2>1, <2>2, ApartStays
  <1>16. LastCounts'
    <2> SUFFICES ASSUME NEW q \in Sender, OnDisk(q)'
                 PROVE  /\ off'[q] >= next_offset' => seg'[q] < active'
                        /\ \A x \in Sender : x # q /\ off'[x] = off'[q] =>
                             /\ pc'[x] = "reserved" => seg'[q] < active'
                             /\ pc'[x] \in {"appended", "waiting", "acked"} =>
                                  seg'[q] < seg'[x] \/ Exempt(x)'
      BY DEF LastCounts
    <2>1. OnDisk(q) /\ q # p
      BY <1>6, <1>7
    <2>2. /\ off[q] >= next_offset => seg[q] < active
          /\ \A x \in Sender : x # q /\ off[x] = off[q] =>
               /\ pc[x] = "reserved" => seg[q] < active
               /\ pc[x] \in {"appended", "waiting", "acked"} =>
                    seg[q] < seg[x] \/ Exempt(x)
      BY <1>1, <2>1 DEF LastCounts
    <2>3. seg'[q] = seg[q] /\ (seg[q] < active => seg'[q] < active')
      BY <1>2, <1>3, <2>1, Numbers
    <2>4. ASSUME NEW x \in Sender, x # q, off'[x] = off'[q]
          PROVE  /\ pc'[x] = "reserved" => seg'[q] < active'
                 /\ pc'[x] \in {"appended", "waiting", "acked"} =>
                      seg'[q] < seg'[x] \/ Exempt(x)'
      <3>1. CASE x = p
        BY <1>2, <2>2, <2>3, <2>4, <3>1
      <3>2. CASE x # p
        BY <1>2, <1>14, <2>2, <2>3, <2>4, <3>2
      <3> QED
        BY <3>1, <3>2
    <2> QED
      BY <2>2, <2>3, <2>4
  <1>17. ProgressOK'
    BY DEF ProgressOK, progress, reading, history
  <1> QED
    BY <1>9, <1>10, <1>11, <1>13, <1>15, <1>16, <1>17

\* An append puts nothing into a file yet.
LEMMA KeepAppendFrame ==
  ASSUME TInv, SInv, TInv', NEW p \in Sender, NEW fits, AppendFrame(p, fits)
  PROVE  SInv'
  <1>1. /\ pc[p] = "reserved" /\ OpenTarget(fits)
        /\ pc' = [pc EXCEPT ![p] = "appended"]
        /\ seg' = [seg EXCEPT ![p] = active'] /\ queued' = queued \cup {p}
        /\ UNCHANGED <<archive, uploaded, progress, up, next_offset, memory, off,
                       sync, scan, reading, history>>
    BY DEF AppendFrame, Step
  <1> QED
    BY <1>1, KeepAppending

\* An append that fails leaves the files as they are, or begins an empty one.
LEMMA KeepAppendFails ==
  ASSUME TInv, SInv, TInv', NEW p \in Sender, NEW opened \in BOOLEAN, NEW fits,
         AppendFails(p, opened, fits)
  PROVE  SInv'
  <1>1. /\ pc[p] = "reserved"
        /\ OpenTarget(fits) \/ UNCHANGED <<segment, synced, active>>
        /\ pc' = [pc EXCEPT ![p] = "failed"] /\ UNCHANGED <<seg, queued>>
        /\ UNCHANGED <<archive, uploaded, progress, up, next_offset, memory, off,
                       sync, scan, reading, history>>
    BY DEF AppendFails, Step
  <1> QED
    BY <1>1, KeepAppending

\* Steps that leave the files and the writer's place alone
LEMMA QuietFiles ==
  ASSUME TInv, SInv, up, up',
         UNCHANGED <<segment, archive, uploaded, archiving, active, next_offset,
                     off, seg>>,
         exposed \subseteq exposed', astray \subseteq astray',
         queued' \subseteq queued,
         \A q \in Sender : pc'[q] \in LivePc => pc[q] \in LivePc,
         \A q \in Sender : pc'[q] = "acked" => pc[q] \in {"acked", "waiting"},
         \A q \in Sender : pc'[q] \in {"new", "reserved"} => pc'[q] = pc[q],
         \A q \in Sender : pc'[q] \in {"appended", "waiting", "acked"} =>
                           pc[q] \in {"appended", "waiting", "acked"}
  PROVE  /\ FilesOK' /\ (\E t \in DOMAIN segment' : Top(t)') /\ Archived'
         /\ OffsetsApart' /\ LastCounts'
  <1> USE DEF SInv
  <1>1. FilesOK'
    <2>1. \A q \in Sender : pc[q] \notin {"new", "reserved"} =>
            pc'[q] \notin {"new", "reserved"} /\ off'[q] = off[q]
              /\ seg'[q] = seg[q]
      OBVIOUS
    <2> QED
      BY <2>1, FilesFrame
  <1>2. \E t \in DOMAIN segment' : Top(t)'
    BY DEF Top
  <1>3. Archived'
    BY DEF Archived
  <1>4. OffsetsApart'
    <2>1. \A q \in Sender : Live(q)' => Live(q)
      BY DEF Live
    <2> QED
      BY <2>1, ApartStays
  <1>5. LastCounts'
    <2>1. \A q \in Sender : OnDisk(q)' => OnDisk(q)
      BY DEF OnDisk, FrameOf
    <2>2. active' \in Nat /\ active' >= active
      BY Numbers
    <2> QED
      BY <2>1, <2>2, LastStays
  <1> QED
    BY <1>1, <1>2, <1>3, <1>4, <1>5

\* A write that does not reach a file is known to be astray.
LEMMA KeepWriteLost ==
  ASSUME TInv, SInv, TInv', NEW p \in queued, queued' = queued \ {p},
         astray' = astray \cup {p}, exposed \subseteq exposed',
         UNCHANGED <<segment, synced, archive, uploaded, progress, up, writer, pc,
                     off, seg, sync, scan, reading, released>>
  PROVE  SInv'
  <1> USE DEF SInv
  <1>1. up /\ up' /\ queued' \subseteq queued /\ astray \subseteq astray'
        /\ queued \cup astray \subseteq queued' \cup astray'
    BY DEF TInv, SendTypes, WriterTypes
  <1>2. UNCHANGED <<archiving, active, next_offset, memory, pending, batch>>
    BY DEF progress, writer, sync
  <1>3. /\ FilesOK' /\ (\E t \in DOMAIN segment' : Top(t)') /\ Archived'
        /\ OffsetsApart' /\ LastCounts'
    BY <1>1, <1>2, QuietFiles
  <1>4. \A q \in Sender : (Kept(q) => Kept(q)') /\ (Released(q) => Released(q)')
    <2>1. /\ released' >= released
          /\ \A id \in DOMAIN segment : synced'[id] >= synced[id]
      BY Numbers DEF TInv, DiskTypes
    <2> QED
      BY <1>1, <1>2, <2>1, KeptStays
  <1>5. SendsOK'
    BY <1>1, <1>2, <1>4, SendsStay
  <1>6. ProgressOK'
    BY <1>2 DEF ProgressOK, progress, reading
  <1> QED
    BY <1>3, <1>5, <1>6

\* One frame more at the end of a file without torn frames, by a sender that
\* had none there
LEMMA OneFrameMore ==
  ASSUME TInv, NEW s \in Seq(Frame), NEW p \in Sender,
         pc[p] \notin {"new", "reserved"},
         \A i \in 1..Len(s) : s[i] # Torn, Authentic(s, seg[p], pc, off, seg),
         ~In(FrameOf(p), s, Len(s))
  PROVE  LET r == Append(s, FrameOf(p))
         IN  /\ r \in Seq(Frame) /\ Len(s) \in Nat /\ Len(r) = Len(s) + 1
             /\ r[Len(r)] = FrameOf(p) /\ \A i \in 1..Len(s) : r[i] = s[i]
             /\ Clean(r) /\ \A i \in 1..Len(r) : r[i] # Torn
             /\ Authentic(r, seg[p], pc, off, seg)
  <1> DEFINE f == FrameOf(p)
             r == Append(s, f)
  <1>1. f \in Frame /\ f # Torn /\ f.msg = p /\ f.off = off[p]
        /\ f = [off |-> off[p], msg |-> p]
    <2>1. off[p] \in Offset
      BY DEF TInv, SendTypes
    <2>2. f \in Message /\ f.msg = p /\ f.off = off[p]
      BY <2>1 DEF FrameOf, Message
    <2> QED
      BY <2>2, FrameKinds DEF FrameOf
  <1>2. r = Append(s, FrameOf(p))
    OBVIOUS
  <1> HIDE DEF f
  <1>3. /\ r \in Seq(Frame) /\ Len(s) \in Nat /\ Len(r) = Len(s) + 1
        /\ r[Len(r)] = f /\ \A i \in 1..Len(s) : r[i] = s[i]
    BY <1>1, LongerFile
  <1> HIDE DEF r
  <1>4. \A i \in 1..Len(r) : i \in 1..Len(s) \/ i = Len(r)
    BY <1>3
  <1>5. \A i \in 1..Len(r) : r[i] # Torn
    BY <1>1, <1>3, <1>4
  <1>6. Clean(r)
    BY <1>5 DEF Clean
  <1>7. \A i \in 1..Len(s) : s[i].msg # p
    BY <1>1 DEF Authentic, In, f
  <1>8. ASSUME NEW i \in 1..Len(r)
        PROVE  /\ r[i] = [off |-> off[r[i].msg], msg |-> r[i].msg]
               /\ seg[r[i].msg] = seg[p] /\ pc[r[i].msg] \notin {"new", "reserved"}
    <2>1. CASE i \in 1..Len(s)
      BY <1>3, <2>1 DEF Authentic
    <2>2. CASE i = Len(r)
      BY <1>1, <1>3, <2>2
    <2> QED
      BY <1>4, <2>1, <2>2
  <1>9. ASSUME NEW i \in 1..Len(r), NEW j \in 1..Len(r), r[i].msg = r[j].msg
        PROVE  i = j
    <2>1. CASE i \in 1..Len(s) /\ j \in 1..Len(s)
      BY <1>3, <1>9, <2>1 DEF Authentic
    <2>2. CASE i = Len(r) \/ j = Len(r)
      BY <1>1, <1>3, <1>4, <1>7, <1>9, <2>2
    <2> QED
      BY <1>4, <2>1, <2>2
  <1> QED
    BY <1>2, <1>3, <1>5, <1>6, <1>8, <1>9 DEF Authentic, f

\* Messages: the frame comes to be the last of its file.
LEMMA KeepWritten ==
  ASSUME TInv, SInv, TInv', NEW p \in queued, WriteLands(p),
         seg[p] \in DOMAIN segment
  PROVE  SInv'
  <1> USE DEF SInv
  <1> DEFINE S == seg[p]
             s == segment[S]
             r == segment'[S]
             f == FrameOf(p)
  <1>1. /\ queued' = queued \ {p}
        /\ segment' = [segment EXCEPT ![S] = Append(@, f)]
        /\ exposed' = exposed \cup
             {y.off : y \in {x \in Range(Whole(s)) : x.off > off[p]}}
        /\ astray' = IF S \notin uploaded THEN astray ELSE astray \cup {p}
        /\ UNCHANGED <<synced, archive, uploaded, progress, up, writer, pc, off,
                       seg, sync, scan, reading, bounds, released>>
    BY DEF WriteLands
  <1>2. /\ up /\ p \in Sender /\ pc[p] \notin {"new", "reserved"} /\ Live(p)
        /\ queued \subseteq Sender
    BY DEF TInv, SendTypes, WriterTypes, Live
  <1>3. UNCHANGED <<archiving, active, next_offset, memory, pending, batch>>
    BY <1>1 DEF progress, writer, sync
  <1>4. exposed \subseteq exposed' /\ astray \subseteq astray'
    BY <1>1
  <1>5. /\ DOMAIN segment' = DOMAIN segment /\ r = Append(s, f)
        /\ \A id \in DOMAIN segment : id # S => segment'[id] = segment[id]
    BY <1>1
  <1>6. /\ s \in Seq(Frame) /\ \A i \in 1..Len(s) : s[i] # Torn
        /\ Authentic(s, S, pc, off, seg) /\ Exposed(s, exposed)
        /\ ~In(f, s, Len(s)) /\ Clean(s)
    BY DEF TInv, DiskTypes, FilesOK, OnDisk
  <1>7. \A i \in 1..Len(s) : s[i].off > off[p] => s[i].off \in exposed'
    <2> SUFFICES ASSUME NEW i \in 1..Len(s), s[i].off > off[p]
                 PROVE  s[i].off \in exposed'
      OBVIOUS
    <2>1. i \in 1..Len(Whole(s)) /\ Whole(s)[i] = s[i] /\ Whole(s) \in Seq(Message)
      <3> HIDE DEF s
      <3> QED
        BY <1>6, CleanWhole, WholeIs
    <2>2. s[i] \in Range(Whole(s))
      BY <2>1 DEF Range
    <2> QED
      BY <1>1, <2>2
  <1>8. /\ r \in Seq(Frame) /\ Len(s) \in Nat /\ Len(r) = Len(s) + 1
        /\ r[Len(r)] = f /\ \A i \in 1..Len(s) : r[i] = s[i]
        /\ Clean(r) /\ \A i \in 1..Len(r) : r[i] # Torn
        /\ Authentic(r, S, pc, off, seg)
    <2> HIDE DEF s, r
    <2> QED
      BY <1>2, <1>5, <1>6, OneFrameMore
  <1>e. Exposed(r, exposed')
    <2> SUFFICES ASSUME NEW i \in 1..Len(r), NEW j \in 1..Len(r), i < j,
                        r[i].off > r[j].off
                 PROVE  r[i].off \in exposed'
      BY DEF Exposed
    <2>1. i \in 1..Len(s) /\ r[i] = s[i]
      BY <1>8
    <2>2. CASE j \in 1..Len(s)
      BY <1>4, <1>6, <1>8, <2>1, <2>2 DEF Exposed
    <2>3. CASE j = Len(r)
      <3>1. f.off = off[p]
        BY DEF FrameOf
      <3> QED
        BY <1>7, <1>8, <2>1, <2>3, <3>1
    <2> QED
      BY <1>8, <2>2, <2>3
  <1>9. \A q \in Sender : FrameOf(q)' = FrameOf(q) /\ (q # p => FrameOf(q) # f)
    BY <1>1 DEF FrameOf
  <1> HIDE DEF f
  <1>10. ASSUME NEW q \in Sender, q # p, OnDisk(q)' PROVE OnDisk(q)
    <2>1. ASSUME NEW id \in DOMAIN segment,
                 In(FrameOf(q), segment'[id], Len(segment'[id]))
          PROVE  In(FrameOf(q), segment[id], Len(segment[id]))
      <3>1. CASE id # S
        BY <1>5, <2>1, <3>1
      <3>2. CASE id = S
        <4>1. PICK i \in 1..Len(r) : r[i] = FrameOf(q)
          BY <2>1, <3>2 DEF In
        <4>2. i \in 1..Len(s) /\ s[i] = FrameOf(q)
          BY <1>8, <1>9, <1>10, <4>1
        <4> QED
          BY <3>2, <4>2 DEF In
      <3> QED
        BY <3>1, <3>2
    <2> QED
      BY <1>1, <1>5, <1>9, <1>10, <2>1 DEF OnDisk
  <1>11. FilesOK'
    <2>1. ASSUME NEW id \in DOMAIN segment'
          PROVE  /\ Clean(segment'[id])
                 /\ Authentic(segment'[id], id, pc', off', seg')
                 /\ Exposed(segment'[id], exposed')
      <3>1. CASE id = S
        BY <1>1, <1>8, <1>e, <3>1
      <3>2. CASE id # S
        <4>1. id \in DOMAIN segment /\ segment'[id] = segment[id]
          BY <1>5, <3>2
        <4>2. /\ Clean(segment[id]) /\ Authentic(segment[id], id, pc, off, seg)
              /\ Exposed(segment[id], exposed) /\ segment[id] \in Seq(Frame)
          BY <4>1 DEF FilesOK, TInv, DiskTypes
        <4>3. Exposed(segment[id], exposed')
          BY <1>4, <4>2 DEF Exposed
        <4> QED
          BY <1>1, <4>1, <4>2, <4>3
      <3> QED
        BY <3>1, <3>2
    <2>2. \A id \in DOMAIN archive :
            Clean(archive[id]) /\ Authentic(archive[id], id, pc', off', seg')
      BY <1>1 DEF FilesOK
    <2>3. \A i \in 1..Len(segment'[active]) : segment'[active][i] # Torn
      <3>1. active \in DOMAIN segment
        BY <1>2 DEF TInv, WriterTypes
      <3> QED
        BY <1>2, <1>5, <1>8, <3>1 DEF FilesOK
    <2>4. ASSUME NEW q \in queued', seg'[q] \in DOMAIN segment'
          PROVE  \A i \in 1..Len(segment'[seg'[q]]) : segment'[seg'[q]][i] # Torn
      <3>1. q \in queued /\ seg'[q] = seg[q] /\ seg[q] \in DOMAIN segment
        BY <1>1, <1>5, <2>4
      <3> QED
        BY <1>5, <1>8, <3>1 DEF FilesOK
    <2>5. \A q \in queued' : ~OnDisk(q)'
      BY <1>1, <1>2, <1>10 DEF FilesOK
    <2> QED
      BY <1>1, <1>3, <2>1, <2>2, <2>3, <2>4, <2>5 DEF FilesOK
  <1>12. \E t \in DOMAIN segment' : Top(t)'
    BY <1>1, <1>3, <1>5 DEF Top
  <1>13. Archived'
    <2> SUFFICES ASSUME NEW id \in uploaded \cap DOMAIN segment,
                        NEW i \in 1..Len(segment'[id]), segment'[id][i] # Torn,
                        segment'[id][i].msg \notin astray'
                 PROVE  i \in 1..Len(archive[id])
                        /\ archive[id][i] = segment'[id][i]
      BY <1>1, <1>5 DEF Archived
    <2>1. CASE id # S
      BY <1>4, <1>5, <2>1 DEF Archived
    <2>2. CASE id = S
      <3>1. p \in astray'
        BY <1>1, <2>2
      <3>2. f.msg = p
        BY DEF f, FrameOf
      <3>3. i # Len(r)
        BY <1>8, <2>2, <3>1, <3>2
      <3>4. i \in 1..Len(s) /\ r[i] = s[i]
        BY <1>8, <2>2, <3>3
      <3> QED
        BY <1>4, <2>2, <3>4 DEF Archived
    <2> QED
      BY <2>1, <2>2
  <1>14. ASSUME NEW q \in Sender
         PROVE  /\ Kept(q) => Kept(q)'
                /\ seg[q] \in DOMAIN segment
                     /\ In(FrameOf(q), segment[seg[q]], Len(segment[seg[q]]))
                   => In(FrameOf(q)', segment'[seg'[q]], Len(segment'[seg'[q]]))
    <2>1. ASSUME NEW id \in DOMAIN segment
          PROVE  /\ synced'[id] = synced[id] /\ segment'[id] \in Seq(Frame)
                 /\ Len(segment'[id]) >= Len(segment[id])
                 /\ \A i \in 1..Len(segment[id]) : segment'[id][i] = segment[id][i]
      <3>1. CASE id = S
        BY <1>1, <1>8, <3>1
      <3>2. CASE id # S
        BY <1>1, <1>5, <3>2 DEF TInv, DiskTypes
      <3> QED
        BY <3>1, <3>2
    <2> QED
      BY <1>1, <1>3, <1>4, <1>5, <2>1, GrowthKeeps
  <1>15. SendsOK'
    <2>1. Acked' = Acked /\ Acked \subseteq Sender
      BY <1>1 DEF Acked
    <2>2. \A q \in Acked' : Kept(q)' \/ q \in astray'
      BY <1>4, <1>14, <2>1 DEF SendsOK
    <2>3. \A q \in Acked' : InMemory(q)' \/ Released(q)' \/ Misplaced(q)'
                            \/ q \in astray'
      BY <1>1, <1>2, <1>3, <1>4, <2>1 DEF SendsOK, InMemory, Released, Misplaced
    <2>4. \A q \in Sender : pc'[q] = "waiting" => InMemory(q)'
      BY <1>1, <1>3 DEF SendsOK, InMemory
    <2>5. ASSUME NEW q \in Sender \ (queued' \cup astray'),
                 pc'[q] \in {"appended", "waiting"}, seg'[q] \in DOMAIN segment'
          PROVE  In(FrameOf(q)', segment'[seg'[q]], Len(segment'[seg'[q]]))
      <3>1. CASE q = p
        <4>1. FrameOf(q)' = f /\ seg'[q] = S /\ Len(r) \in 1..Len(r)
          BY <1>1, <1>8, <1>9, <3>1 DEF f
        <4> QED
          BY <1>8, <4>1 DEF In
      <3>2. CASE q # p
        <4>1. q \in Sender \ (queued \cup astray)
          BY <1>1, <1>4, <2>5, <3>2
        <4> QED
          BY <1>1, <1>5, <1>14, <2>5, <4>1 DEF SendsOK
      <3> QED
        BY <3>1, <3>2
    <2> QED
      BY <1>1, <1>2, <1>3, <2>2, <2>3, <2>4, <2>5 DEF SendsOK
  <1>16. \A q \in Sender : Exempt(q) => Exempt(q)'
    BY <1>1, <1>3, <1>4, ExemptStays
  <1>17. OffsetsApart'
    <2>1. \A q \in Sender : Live(q)' => Live(q)
      BY <1>1 DEF Live
    <2> QED
      BY <1>1, <1>2, <1>3, <1>4, <2>1, ApartStays
  <1>18. LastCounts'
    <2> SUFFICES ASSUME NEW q \in Sender, OnDisk(q)'
                 PROVE  /\ off[q] >= next_offset => seg[q] < active
                        /\ \A x \in Sender : x # q /\ off[x] = off[q] =>
                             /\ pc[x] = "reserved" => seg[q] < active
                             /\ pc[x] \in {"appended", "waiting", "acked"} =>
                                  seg[q] < seg[x] \/ Exempt(x)'
      BY <1>1, <1>3 DEF LastCounts
    <2>1. CASE q = p
      <3>1. ~(off[q] >= next_offset)
        BY <1>2, <2>1, Numbers DEF OffsetsApart
      <3>2. ASSUME NEW x \in Sender, x # q, off[x] = off[q],
                   pc[x] \in {"reserved", "appended", "waiting", "acked"}
            PROVE  pc[x] = "acked" /\ Exempt(x)'
        <4>1. ~Live(x)
          BY <1>2, <2>1, <3>2 DEF OffsetsApart
        <4>2. x \in Acked /\ pc[x] = "acked"
          BY <3>2, <4>1 DEF Live, LivePc, Acked
        <4> QED
          BY <1>2, <1>16, <2>1, <3>2, <4>2 DEF OffsetsApart
      <3> QED
        BY <3>1, <3>2
    <2>2. CASE q # p
      BY <1>2, <1>10, <1>16, <2>2 DEF LastCounts
    <2> QED
      BY <2>1, <2>2
  <1>19. ProgressOK'
    BY <1>1, <1>3 DEF ProgressOK, progress, reading
  <1> QED
    BY <1>11, <1>12, <1>13, <1>15, <1>17, <1>18, <1>19

\* Messages: a write is done, or is lost.
LEMMA KeepWriteStep ==
  ASSUME TInv, SInv, TInv', TornTails # "any", NEW p \in Sender, WriteStep(p)
  PROVE  SInv'
  <1>1. ASSUME NEW torn \in BOOLEAN, WriteFails(p, torn) PROVE SInv'
    <2>1. /\ p \in queued /\ queued' = queued \ {p} /\ astray' = astray \cup {p}
          /\ UNCHANGED <<segment, synced, archive, uploaded, progress, up, writer,
                         pc, off, seg, sync, scan, reading, exposed, released>>
      BY <1>1 DEF WriteFails
    <2> QED
      BY <2>1, KeepWriteLost
  <1>2. CASE WriteLands(p)
    <2>1. p \in queued
      BY <1>2 DEF WriteLands
    <2>2. CASE seg[p] \notin DOMAIN segment
      <3>1. /\ queued' = queued \ {p} /\ astray' = astray \cup {p}
            /\ exposed \subseteq exposed'
            /\ UNCHANGED <<segment, synced, archive, uploaded, progress, up, writer,
                           pc, off, seg, sync, scan, reading, released>>
        BY <1>2, <2>2 DEF WriteLands
      <3> QED
        BY <2>1, <3>1, KeepWriteLost
    <2> QED
      BY <1>2, <2>1, <2>2, KeepWritten
  <1> QED
    BY <1>1, <1>2 DEF WriteStep

\* Messages: the sync of an append fails, and the send with it.
LEMMA KeepAppendSyncFails ==
  ASSUME TInv, SInv, TInv', NEW p \in Sender, AppendSyncFails(p)
  PROVE  SInv'
  <1> USE DEF SInv
  <1>1. /\ pc[p] = "appended" /\ pc'[p] = "failed"
        /\ \A q \in Sender : q # p => pc'[q] = pc[q]
        /\ UNCHANGED <<disk, progress, up, next_offset, active, memory, off, seg,
                       queued, sync, scan, reading, history>>
    BY DEF AppendSyncFails, Step, TInv, SendTypes
  <1>2. UNCHANGED <<segment, synced, archive, uploaded, archiving, exposed, released,
                    astray, pending, batch>>
    BY <1>1 DEF disk, progress, history, sync
  <1>3. up /\ up'
    BY <1>1 DEF TInv, SendTypes, LivePc, WriterTypes
  <1>4. /\ FilesOK' /\ (\E t \in DOMAIN segment' : Top(t)') /\ Archived'
        /\ OffsetsApart' /\ LastCounts'
    <2>1. \A q \in Sender : /\ pc'[q] \in LivePc => pc[q] \in LivePc
                            /\ pc'[q] = "acked" => pc[q] \in {"acked", "waiting"}
                            /\ pc'[q] \in {"new", "reserved"} => pc'[q] = pc[q]
                            /\ pc'[q] \in {"appended", "waiting", "acked"} =>
                                 pc[q] \in {"appended", "waiting", "acked"}
      BY <1>1 DEF LivePc
    <2> QED
      BY <1>1, <1>2, <1>3, <2>1, QuietFiles
  <1>5. SendsOK'
    <2>1. \A i \in 1..Len(pending) : pending[i] \in Sender /\ pending[i] # p
      BY <1>1 DEF SendsOK, TInv, SendTypes
    <2>2. \A q \in batch : q \in Sender /\ q # p
      BY <1>1 DEF SendsOK, TInv, SendTypes
    <2>3. \A q \in Acked' : q \in Acked /\ q \in Sender /\ q # p
      BY <1>1 DEF Acked
    <2>4. \A q \in Sender : /\ FrameOf(q)' = FrameOf(q) /\ InMemory(q)' = InMemory(q)
                            /\ Kept(q)' = Kept(q) /\ Released(q)' = Released(q)
                            /\ Misplaced(q)' = Misplaced(q)
      BY <1>1, <1>2 DEF FrameOf, InMemory, Kept, Released, Misplaced
    <2>5. \A q \in Sender \ (queued' \cup astray') :
            pc'[q] \in {"appended", "waiting"} /\ seg'[q] \in DOMAIN segment' =>
              In(FrameOf(q)', segment'[seg'[q]], Len(segment'[seg'[q]]))
      BY <1>1, <1>2, <2>4 DEF SendsOK
    <2>6. \A q \in Sender : pc'[q] = "waiting" => InMemory(q)'
      BY <1>1, <2>4 DEF SendsOK
    <2>7. /\ \A q \in Acked' : Kept(q)' \/ q \in astray'
          /\ \A q \in Acked' : InMemory(q)' \/ Released(q)' \/ Misplaced(q)'
                               \/ q \in astray'
      BY <1>2, <1>3, <2>3, <2>4 DEF SendsOK
    <2> QED
      BY <1>1, <1>2, <2>1, <2>2, <2>5, <2>6, <2>7 DEF SendsOK
  <1>6. ProgressOK'
    BY <1>1 DEF ProgressOK, progress, reading, history
  <1> QED
    BY <1>4, <1>5, <1>6

\* A message becomes visible at its own offset only.
LEMMA KeepEnqueue ==
  ASSUME TInv, SInv, TInv', NEW p \in Sender, Enqueue(p)
  PROVE  SInv'
  <1> USE DEF SInv
  <1>1. /\ pc[p] = "appended"
        /\ UNCHANGED <<disk, progress, up, next_offset, active, off, seg, queued,
                       batch, scan, reading, bounds, history>>
    BY DEF Enqueue
  <1>2. /\ \A q \in Sender : q # p => pc'[q] = pc[q]
        /\ \/ pc'[p] = "failed" /\ UNCHANGED <<memory, pending>>
           \/ /\ memory' = [o \in DOMAIN memory \cup {off[p]} |->
                              IF o = off[p] THEN p ELSE memory[o]]
              /\ pending' = Append(pending, p) /\ pc'[p] = "waiting"
    BY DEF Enqueue, Step, TInv, SendTypes
  <1>3. up
    BY <1>1 DEF TInv, SendTypes, LivePc, WriterTypes
  <1>4. UNCHANGED <<segment, synced, archive, uploaded, archiving, exposed, released,
                    astray>>
    BY <1>1 DEF disk, progress, history
  <1>5. FilesOK'
    BY <1>1, <1>2, <1>4, FilesFrame
  <1>6. \E t \in DOMAIN segment' : Top(t)'
    BY <1>1, <1>4 DEF Top
  <1>7. Archived'
    BY <1>4 DEF Archived
  <1>8. /\ \A q \in Sender : Live(q)' => Live(q)
        /\ \A q \in Sender : pc'[q] = "acked" => pc[q] = "acked"
        /\ \A q \in Sender : pc'[q] = "reserved" => pc[q] = "reserved"
        /\ \A q \in Sender : pc'[q] \in {"appended", "waiting", "acked"} =>
                             pc[q] \in {"appended", "waiting", "acked"}
    BY <1>1, <1>2 DEF Live, LivePc
  <1>9. OffsetsApart'
    BY <1>1, <1>3, <1>4, <1>8, ApartStays
  <1>10. LastCounts'
    <2>1. \A q \in Sender : OnDisk(q)' => OnDisk(q)
      BY <1>1, <1>4 DEF OnDisk, FrameOf
    <2>2. active' \in Nat /\ active' >= active
      BY <1>1, Numbers
    <2> QED
      BY <1>1, <1>3, <1>4, <1>8, <2>1, <2>2, LastStays
  <1>11. ASSUME NEW q \in Sender, q # p, pc'[q] \in {"waiting", "acked"}
         PROVE  InMemory(q) => InMemory(q)' \/ Exempt(q)
    <2>1. off[q] # off[p] \/ Exempt(q)
      <3>1. CASE pc[q] = "waiting"
        BY <1>1, <1>11, <3>1 DEF OffsetsApart, Live, LivePc
      <3>2. CASE pc[q] = "acked"
        BY <1>1, <1>11, <3>2 DEF OffsetsApart, Live, LivePc, Acked
      <3> QED
        BY <1>2, <1>11, <3>1, <3>2
    <2> QED
      BY <1>1, <1>2, <2>1 DEF InMemory
  <1>12. SendsOK'
    <2>0. pending \in Seq(Sender) /\ batch \subseteq Sender
      BY DEF TInv, SendTypes
    <2>1. \A i \in 1..Len(pending) : pending[i] \in Sender /\ pending[i] # p
                                     /\ pc[pending[i]] = "waiting"
      BY <1>1, <2>0 DEF SendsOK
    <2>2. \A q \in batch : q \in Sender /\ q # p
      BY <1>1, <2>0 DEF SendsOK
    <2>3. \A q \in Acked' : q \in Acked /\ q \in Sender /\ q # p
      BY <1>1, <1>2 DEF Acked
    <2>4. \A q \in Acked' : Kept(q)' \/ q \in astray'
      BY <1>1, <1>4, <2>3 DEF SendsOK, Kept, Released, Misplaced, FrameOf
    <2>5. \A q \in Acked' : InMemory(q)' \/ Released(q)' \/ Misplaced(q)'
                            \/ q \in astray'
      <3> TAKE q \in Acked'
      <3>1. InMemory(q) \/ Released(q) \/ Misplaced(q) \/ q \in astray
        BY <1>3, <2>3 DEF SendsOK
      <3>2. pc'[q] = "acked" /\ q \in Sender /\ q # p
        BY <2>3 DEF Acked
      <3> QED
        BY <1>1, <1>4, <1>11, <3>1, <3>2 DEF Released, Misplaced, Exempt
    <2>6. ASSUME NEW q \in Sender, pc'[q] = "waiting" PROVE InMemory(q)'
      <3>1. CASE q = p
        BY <1>1, <1>2, <2>6, <3>1 DEF InMemory
      <3>2. CASE q # p
        <4>1. pc[q] = "waiting" /\ InMemory(q)
          BY <1>2, <2>6, <3>2 DEF SendsOK
        <4>2. off[q] # off[p]
          BY <1>1, <3>2, <4>1 DEF OffsetsApart, Live, LivePc
        <4> QED
          BY <1>1, <1>2, <4>1, <4>2 DEF InMemory
      <3> QED
        BY <3>1, <3>2
    <2>7. \A q \in Sender \ (queued' \cup astray') :
            pc'[q] \in {"appended", "waiting"} /\ seg'[q] \in DOMAIN segment' =>
              In(FrameOf(q)', segment'[seg'[q]], Len(segment'[seg'[q]]))
      <3>1. \A q \in Sender : pc'[q] \in {"appended", "waiting"} =>
                              pc[q] \in {"appended", "waiting"}
        BY <1>1, <1>2
      <3> QED
        BY <1>1, <1>4, <3>1 DEF SendsOK, FrameOf
    <2>8. /\ \A i \in 1..Len(pending') : pc'[pending'[i]] = "waiting"
          /\ \A i, j \in 1..Len(pending') : pending'[i] = pending'[j] => i = j
          /\ \A i \in 1..Len(pending') : pending'[i] \notin batch
      <3>1. CASE pending' = pending
        BY <1>2, <2>1, <3>1 DEF SendsOK
      <3>2. CASE pending' = Append(pending, p) /\ pc'[p] = "waiting"
        <4>1. /\ Len(pending) \in Nat /\ Len(pending') = Len(pending) + 1
              /\ pending'[Len(pending) + 1] = p
              /\ \A i \in 1..Len(pending) : pending'[i] = pending[i]
          BY <2>0, <3>2
        <4>2. \A i \in 1..Len(pending') : i \in 1..Len(pending)
                                          \/ i = Len(pending) + 1
          BY <4>1
        <4> QED
          BY <1>2, <2>1, <2>2, <3>2, <4>1, <4>2 DEF SendsOK
      <3> QED
        BY <1>2, <3>1, <3>2
    <2>9. \A q \in batch' : pc'[q] = "waiting"
      BY <1>1, <1>2, <2>2 DEF SendsOK
    <2> QED
      BY <1>1, <2>4, <2>5, <2>6, <2>7, <2>8, <2>9 DEF SendsOK
  <1>13. ProgressOK'
    <2>1. \A o \in DOMAIN memory' : o < next_offset
      BY <1>1, <1>2, <1>3 DEF ProgressOK, OffsetsApart, Live, LivePc
    <2> QED
      BY <1>1, <2>1 DEF ProgressOK, progress, reading, history
  <1> QED
    BY <1>5, <1>6, <1>7, <1>9, <1>10, <1>12, <1>13

\* The drain task takes waiters over as they are.
LEMMA KeepDrainTake ==
  ASSUME TInv, SInv, TInv', DrainTake
  PROVE  SInv'
  <1> USE DEF SInv
  <1> DEFINE n == Min({Len(pending), MaxBatch})
  <1>1. n \in 0..Len(pending)
    <2>1. {Len(pending), MaxBatch} \in SUBSET Nat /\ {Len(pending), MaxBatch} # {}
      BY BoundsAssumption DEF TInv, SendTypes
    <2>2. n \in {Len(pending), MaxBatch} /\ n =< Len(pending)
      BY <2>1, MinOfNats
    <2> QED
      BY <2>1, <2>2
  <1>2. pending \in Seq(Sender) /\ Len(pending) \in Nat
    BY DEF TInv, SendTypes
  <1>3. /\ up /\ batch' = ToSet(SubSeq(pending, 1, n))
        /\ pending' = SubSeq(pending, n + 1, Len(pending))
        /\ UNCHANGED <<disk, progress, up, writer, sends, scan, reading, bounds,
                       history>>
    BY DEF DrainTake
  <1> HIDE DEF n
  <1>4. /\ FilesOK' /\ (\E t \in DOMAIN segment' : Top(t)') /\ Archived'
        /\ OffsetsApart' /\ LastCounts'
    BY <1>3, QuietFiles DEF disk, progress, writer, sends, history
  <1>5. SendsOK'
    <2>1. \A x \in batch' : \E i \in 1..n : x = pending[i]
      BY <1>1, <1>2, <1>3 DEF ToSet
    <2>2. /\ Len(pending') = Len(pending) - n
          /\ \A i \in 1..Len(pending') : pending'[i] = pending[i + n]
                                         /\ i + n \in 1..Len(pending)
      BY <1>1, <1>2, <1>3
    <2>3. \A x \in batch' : pc'[x] = "waiting"
      BY <1>1, <1>2, <1>3, <2>1 DEF SendsOK, sends
    <2>4. \A i \in 1..Len(pending') : pc'[pending'[i]] = "waiting"
      <3> TAKE i \in 1..Len(pending')
      <3>1. pending'[i] = pending[i + n] /\ i + n \in 1..Len(pending)
        BY <2>2
      <3>2. pc[pending[i + n]] = "waiting"
        BY <3>1 DEF SendsOK
      <3> QED
        BY <1>3, <3>1, <3>2 DEF sends
    <2>5. ASSUME NEW i \in 1..Len(pending'), NEW j \in 1..Len(pending'),
                 pending'[i] = pending'[j]
          PROVE  i = j
      <3>1. i + n = j + n
        BY <2>2, <2>5 DEF SendsOK
      <3> QED
        BY <1>1, <3>1
    <2>6. ASSUME NEW i \in 1..Len(pending'), pending'[i] \in batch' PROVE FALSE
      <3>1. PICK j \in 1..n : pending'[i] = pending[j]
        BY <2>1, <2>6
      <3>2. j \in 1..Len(pending)
        BY <1>1, <1>2
      <3>3. i + n = j
        BY <2>2, <3>1, <3>2 DEF SendsOK
      <3> QED
        BY <1>1, <3>3
    <2>7. /\ \A q \in Sender \ (queued' \cup astray') :
               pc'[q] \in {"appended", "waiting"} /\ seg'[q] \in DOMAIN segment' =>
                 In(FrameOf(q)', segment'[seg'[q]], Len(segment'[seg'[q]]))
          /\ \A q \in Sender : pc'[q] = "waiting" => InMemory(q)'
          /\ \A q \in Acked' : Kept(q)' \/ q \in astray'
          /\ \A q \in Acked' : InMemory(q)' \/ Released(q)' \/ Misplaced(q)'
                               \/ q \in astray'
      BY <1>3 DEF SendsOK, Acked, Kept, InMemory, Released, Misplaced, FrameOf,
        disk, progress, writer, sends, history
    <2> QED
      BY <2>3, <2>4, <2>5, <2>6, <2>7 DEF SendsOK
  <1>6. ProgressOK'
    BY <1>3 DEF ProgressOK, progress, reading, history, writer
  <1> QED
    BY <1>4, <1>5, <1>6

\* A waiter that is answered with success has its frame synced, or is astray.
LEMMA KeepDrain ==
  ASSUME TInv, SInv, TInv', NEW id, DrainSync(id) \/ DrainFails(id)
  PROVE  SInv'
  <1> USE DEF SInv
  <1> DEFINE served == {p \in batch : seg[p] = id}
  <1>1. PICK l \in {"acked", "failed"} :
          /\ pc' = [p \in Sender |-> IF p \in served THEN l ELSE pc[p]]
          /\ batch' = batch \ served
          /\ l = "acked" => id \in DOMAIN segment /\ synced' = SyncedBy(id)
          /\ l = "failed" => synced' = synced
          /\ astray \subseteq astray'
          /\ l = "acked" => served \cap queued \subseteq astray'
    <2>1. CASE DrainSync(id)
      <3>1. /\ id \in DOMAIN segment /\ synced' = SyncedBy(id)
            /\ pc' = [p \in Sender |-> IF p \in served THEN "acked" ELSE pc[p]]
            /\ batch' = batch \ served
            /\ astray' = astray \cup (queued \cap (batch \ batch'))
        BY <2>1 DEF DrainSync, Answer
      <3>2. served \cap queued \subseteq astray' /\ astray \subseteq astray'
        BY <3>1
      <3> HIDE DEF served
      <3> QED
        BY <3>1, <3>2
    <2>2. CASE DrainFails(id)
      BY <2>2 DEF DrainFails, Answer, disk, history
    <2> QED
      BY <2>1, <2>2
  <1>2. /\ up
        /\ UNCHANGED <<segment, archive, uploaded, progress, up, writer, off, seg,
                       queued, pending, scan, reading, exposed, released>>
    BY DEF DrainSync, DrainFails, disk, history
  <1>3. \A q \in served : q \in Sender /\ pc[q] = "waiting" /\ seg[q] = id
                          /\ q \in batch
    BY DEF TInv, SendTypes, SendsOK
  <1> HIDE DEF served
  <1>4. \A q \in Sender : /\ q \in served => pc'[q] = l /\ pc[q] = "waiting"
                          /\ q \notin served => pc'[q] = pc[q]
    BY <1>1, <1>3
  <1>5. /\ FilesOK' /\ (\E t \in DOMAIN segment' : Top(t)') /\ Archived'
        /\ OffsetsApart' /\ LastCounts'
    <2>1. /\ up' /\ UNCHANGED <<segment, archive, uploaded, archiving, active,
                                next_offset, off, seg, exposed>>
      BY <1>2 DEF progress, writer
    <2>2. /\ \A q \in Sender : pc'[q] \in LivePc => pc[q] \in LivePc
          /\ \A q \in Sender : pc'[q] = "acked" => pc[q] \in {"acked", "waiting"}
          /\ \A q \in Sender : pc'[q] \in {"new", "reserved"} => pc'[q] = pc[q]
          /\ \A q \in Sender : pc'[q] \in {"appended", "waiting", "acked"} =>
                               pc[q] \in {"appended", "waiting", "acked"}
      BY <1>4 DEF LivePc
    <2> QED
      BY <1>1, <1>2, <2>1, <2>2, QuietFiles
  <1>6. \A x \in DOMAIN segment : synced'[x] >= synced[x] /\ synced'[x] \in Nat
    <2> TAKE x \in DOMAIN segment
    <2>1. /\ synced[x] \in 0..Len(segment[x]) /\ segment[x] \in Seq(Frame)
          /\ DOMAIN synced = DOMAIN segment
      BY DEF TInv, DiskTypes
    <2>2. synced'[x] = synced[x] \/ synced'[x] = Len(segment[x])
      BY <1>1, <2>1 DEF SyncedBy
    <2> QED
      BY <2>1, <2>2
  <1>7. SendsOK'
    <2>0. pending \in Seq(Sender) /\ batch \subseteq Sender /\ DOMAIN synced = DOMAIN segment
      BY DEF TInv, SendTypes, DiskTypes
    <2>1. /\ \A i \in 1..Len(pending) : pc'[pending[i]] = "waiting"
          /\ \A i \in 1..Len(pending) : pending[i] \notin batch'
      <3> SUFFICES ASSUME NEW i \in 1..Len(pending)
                   PROVE  pc'[pending[i]] = "waiting" /\ pending[i] \notin batch'
        OBVIOUS
      <3>1. /\ pending[i] \in Sender /\ pending[i] \notin batch
            /\ pc[pending[i]] = "waiting"
        BY <2>0 DEF SendsOK
      <3> QED
        BY <1>1, <1>3, <1>4, <3>1
    <2>2. \A q \in batch' : pc'[q] = "waiting"
      BY <1>1, <1>4, <2>0 DEF SendsOK
    <2>3. \A q \in Sender \ (queued' \cup astray') :
            pc'[q] \in {"appended", "waiting"} /\ seg'[q] \in DOMAIN segment' =>
              In(FrameOf(q)', segment'[seg'[q]], Len(segment'[seg'[q]]))
      BY <1>1, <1>2, <1>4 DEF SendsOK, FrameOf
    <2>4. \A q \in Sender : pc'[q] = "waiting" => InMemory(q)'
      BY <1>2, <1>4 DEF SendsOK, InMemory, writer
    <2>5. ASSUME NEW q \in Acked'
          PROVE  /\ Kept(q)' \/ q \in astray'
                 /\ InMemory(q)' \/ Released(q)' \/ Misplaced(q)' \/ q \in astray'
      <3>0. q \in Sender /\ pc'[q] = "acked"
        BY DEF Acked
      <3>1. CASE q \in served
        <4>1. l = "acked" /\ pc[q] = "waiting" /\ seg[q] = id
          BY <1>3, <1>4, <3>0, <3>1
        <4>2. id \in DOMAIN segment /\ synced' = SyncedBy(id)
          BY <1>1, <4>1
        <4>3. synced'[id] = Len(segment[id])
          BY <2>0, <4>2 DEF SyncedBy
        <4>4. InMemory(q) /\ (\/ q \in astray'
                              \/ In(FrameOf(q), segment[id], Len(segment[id])))
          BY <1>1, <3>0, <3>1, <4>1, <4>2 DEF SendsOK
        <4> QED
          BY <1>2, <4>1, <4>2, <4>3, <4>4 DEF Kept, FrameOf, InMemory, writer
      <3>2. CASE q \notin served
        <4>1. q \in Acked
          BY <1>4, <3>0, <3>2 DEF Acked
        <4>2. \/ q \in astray
              \/ Kept(q) /\ (InMemory(q) \/ Released(q) \/ Misplaced(q))
          BY <1>2, <4>1 DEF SendsOK
        <4>3. /\ UNCHANGED <<segment, archive, archiving, off, seg>>
              /\ exposed \subseteq exposed' /\ released' >= released
              /\ astray \subseteq astray'
          BY <1>1, <1>2, Numbers DEF progress
        <4>4. Kept(q) => Kept(q)'
          BY <1>6, <3>0, <4>3, KeptStays
        <4> QED
          BY <1>2, <4>2, <4>3, <4>4 DEF InMemory, Released, Misplaced, progress, writer
      <3> QED
        BY <3>1, <3>2
    <2> QED
      BY <1>2, <2>1, <2>2, <2>3, <2>4, <2>5 DEF SendsOK
  <1>8. ProgressOK'
    BY <1>2 DEF ProgressOK, progress, reading, writer
  <1> QED
    BY <1>5, <1>7, <1>8

\* Steps of consumers and of the scan: nothing but the groups' progress and the
\* history of what was let go changes.
LEMMA QuietSends ==
  ASSUME TInv, SInv, TInv', up, released' >= released,
         UNCHANGED <<disk, archiving, up, writer, sends, sync, bounds, exposed, astray>>,
         ProgressOK'
  PROVE  SInv'
  <1>0. /\ UNCHANGED <<segment, synced, archive, uploaded, next_offset, active,
                       memory, pc, off, seg, queued, pending, batch>>
        /\ up' /\ exposed \subseteq exposed'
    BY DEF disk, writer, sends, sync
  <1>1. /\ FilesOK' /\ (\E t \in DOMAIN segment' : Top(t)') /\ Archived'
        /\ OffsetsApart' /\ LastCounts'
    BY <1>0, QuietFiles
  <1>2. \A id \in DOMAIN segment : synced'[id] >= synced[id]
    <2> TAKE id \in DOMAIN segment
    <2>1. synced[id] \in 0..Len(segment[id])
      BY DEF TInv, DiskTypes
    <2> QED
      BY <1>0, <2>1
  <1>3. \A q \in Sender : (Kept(q) => Kept(q)') /\ (Released(q) => Released(q)')
    BY <1>0, <1>2, KeptStays
  <1>4. SendsOK'
    BY <1>0, <1>3, SendsStay DEF SInv
  <1> QED
    BY <1>1, <1>4 DEF SInv

\* Groups move forward, over what was delivered to them.
LEMMA KeepConsume ==
  ASSUME TInv, SInv, TInv', NEW g \in Group, Consume(g)
  PROVE  SInv'
  <1>0. /\ committed \in [Group -> Offset \cup {NoCommit}]
        /\ cursor \in [Group -> Offset \cup {-1, Cardinality(Sender)}]
        /\ out \in [Group -> SUBSET Offset] /\ registered \subseteq Group
    BY DEF TInv, GroupTypes
  <1>n. /\ next_offset \in Nat /\ released \in Int
        /\ \A h \in Group : committed[h] \in Int /\ committed[h] >= -1
        /\ \A h \in Group : cursor[h] \in Int /\ cursor[h] >= -1
        /\ \A h \in Group : \A o \in out[h] : o \in Nat
        /\ \A o \in DOMAIN memory : o \in Nat
    BY Numbers
  <1>1. CASE Subscribe(g)
    <2>1. /\ up /\ cursor[g] = -1 /\ registered' = registered \cup {g}
          /\ cursor' = [cursor EXCEPT ![g] = committed[g] + 1]
          /\ UNCHANGED <<disk, archiving, capacity, committed, up, writer, sends,
                         sync, scan, out, bounds, history>>
      BY <1>1 DEF Subscribe
    <2>2. /\ cursor'[g] = committed[g] + 1 /\ out[g] = {}
          /\ \A h \in Group : h # g => cursor'[h] = cursor[h]
      BY <1>0, <2>1 DEF SInv, ProgressOK
    <2>3. cursor'[g] # -1 /\ committed[g] < cursor'[g]
      BY <1>n, <2>2
    <2>4. ProgressOK'
      BY <2>1, <2>2, <2>3 DEF SInv, ProgressOK, writer, history
    <2> QED
      BY <1>n, <2>1, <2>4, QuietSends DEF history
  <1>2. ASSUME NEW max \in PollSizes, Poll(g, max) PROVE SInv'
    <2> DEFINE read == ReadFrom(cursor[g], max)
    <2>1. /\ up /\ cursor[g] >= 0 /\ read # {}
          /\ out' = [out EXCEPT ![g] = @ \cup read]
          /\ cursor' = [cursor EXCEPT ![g] = Max(read) + 1]
          /\ UNCHANGED <<disk, progress, up, writer, sends, sync, scan, bounds,
                         history>>
      BY <1>2 DEF Poll
    <2>2. /\ read \subseteq DOMAIN memory /\ \A o \in read : o >= cursor[g]
          /\ Max(read) \in read /\ \A o \in read : o =< Max(read)
      BY <2>1, ReadIs
    <2> DEFINE m == Max(read)
    <2> HIDE DEF read, m
    <2>3. m \in Nat /\ m >= cursor[g] /\ \A o \in read : o \in Nat /\ o < m + 1
      <3>1. m \in read
        BY <2>2 DEF m
      <3>2. \A o \in read : o \in Nat /\ o =< m
        BY <1>n, <2>2 DEF m
      <3>3. m >= cursor[g] /\ m \in Nat
        BY <2>2, <3>1, <3>2
      <3> QED
        BY <3>2, <3>3
    <2>4. /\ cursor'[g] = m + 1 /\ out'[g] = out[g] \cup read
          /\ \A h \in Group : h # g => cursor'[h] = cursor[h] /\ out'[h] = out[h]
      BY <1>0, <2>1 DEF m
    <2>5. /\ cursor[g] # -1 /\ g \in registered /\ committed[g] < cursor[g]
          /\ \A o \in out[g] : o > committed[g] /\ o < cursor[g]
      BY <1>n, <2>1 DEF SInv, ProgressOK
    <2>6. /\ cursor'[g] # -1 /\ committed[g] < cursor'[g]
          /\ \A o \in out'[g] : o > committed[g] /\ o < cursor'[g]
      <3>1. \A o \in read : o > committed[g] /\ o < m + 1
        BY <1>n, <2>2, <2>3, <2>5
      <3>2. \A o \in out[g] : o > committed[g] /\ o < m + 1
        BY <1>n, <2>3, <2>5
      <3> QED
        BY <1>n, <2>3, <2>4, <2>5, <3>1, <3>2
    <2>7. /\ \A o \in read : o < next_offset
          /\ \A o \in out[g] : o < next_offset
      BY <2>1, <2>2 DEF SInv, ProgressOK
    <2>8. ProgressOK'
      BY <2>1, <2>4, <2>5, <2>6, <2>7 DEF SInv, ProgressOK, writer, history, progress
    <2> QED
      BY <1>n, <2>1, <2>8, QuietSends DEF history, progress
  <1>3. ASSUME NEW o \in out[g], Ack(g, o) PROVE SInv'
    <2>1. /\ up /\ committed' = [committed EXCEPT ![g] = o]
          /\ out' = [out EXCEPT ![g] = {x \in @ : x > o}]
          /\ UNCHANGED <<disk, archiving, capacity, registered, up, writer, sends,
                         sync, scan, cursor, bounds, history>>
      BY <1>3 DEF Ack
    <2>2. /\ committed'[g] = o /\ out'[g] = {x \in out[g] : x > o}
          /\ \A h \in Group : h # g => committed'[h] = committed[h] /\ out'[h] = out[h]
      BY <1>0, <2>1
    <2>3. /\ o > committed[g] /\ o < cursor[g] /\ o < next_offset /\ o \in Nat
          /\ cursor[g] # -1 /\ g \in registered
      BY <1>n, <2>1 DEF SInv, ProgressOK
    <2>4. released # NoCommit => \E h \in registered : committed'[h] >= released
      <3> SUFFICES ASSUME released # NoCommit
                   PROVE  \E h \in registered : committed'[h] >= released
        OBVIOUS
      <3>1. PICK h \in registered : committed[h] >= released
        BY DEF SInv, ProgressOK
      <3>2. committed'[h] >= released
        BY <1>0, <1>n, <2>2, <2>3, <3>1
      <3> QED
        BY <3>2
    <2>5. /\ \A h \in Group \ registered : committed'[h] = NoCommit /\ cursor[h] = -1
          /\ \A h \in Group : cursor[h] = -1 => out'[h] = {}
      BY <2>2, <2>3 DEF SInv, ProgressOK
    <2>6. \A h \in Group : \A x \in out'[h] : x > committed'[h] /\ x < cursor[h]
      BY <2>2 DEF SInv, ProgressOK
    <2>7. \A h \in Group : cursor[h] # -1 => committed'[h] < cursor[h]
      BY <2>2, <2>3 DEF SInv, ProgressOK
    <2>8. \A h \in Group : /\ committed'[h] < next_offset
                           /\ \A x \in out'[h] : x < next_offset
      BY <2>1, <2>2, <2>3 DEF SInv, ProgressOK
    <2>9. ProgressOK'
      BY <2>1, <2>4, <2>5, <2>6, <2>7, <2>8 DEF SInv, ProgressOK, writer, history
    <2> QED
      BY <1>n, <2>1, <2>9, QuietSends DEF history
  <1> QED
    BY <1>1, <1>2, <1>3 DEF Consume

\* A scan records what it is about to let go.
LEMMA KeepReapScan ==
  ASSUME TInv, SInv, TInv', ReapScan
  PROVE  SInv'
  <1>1. /\ up /\ scan' = [active |-> active, commit |-> LeastCommit]
        /\ LeastCommit # NoCommit
        /\ released' = Max({released, PassedByAll})
        /\ UNCHANGED <<disk, progress, up, writer, sends, sync, reading, bounds,
                       exposed, astray>>
    BY DEF ReapScan
  <1>2. GroupTypes /\ ScanTypes
    BY DEF TInv
  <1>3. /\ released' \in {released, LeastCommit} /\ released' >= released
        /\ released' >= LeastCommit
    BY <1>1, <1>2, ReleasedIs
  <1>4. LeastCommit \in Int /\ released \in Int
    BY <1>2, LeastIs, SenderCount DEF ScanTypes, Offset, NoCommit
  <1>5. scan'.commit =< released'
    BY <1>1, <1>3, <1>4
  <1>6. released' # NoCommit => \E g \in registered : committed[g] >= released'
    <2>1. CASE released' = released
      BY <2>1 DEF SInv, ProgressOK
    <2>2. CASE released' = LeastCommit
      <3>1. PICK g \in registered : LeastCommit = committed[g]
        BY <1>1, <1>2, LeastIs
      <3> QED
        BY <1>4, <2>2, <3>1
    <2> QED
      BY <1>3, <2>1, <2>2
  <1>7. ProgressOK'
    BY <1>1, <1>5, <1>6 DEF SInv, ProgressOK, progress, reading, writer
  <1> QED
    BY <1>1, <1>3, <1>7, QuietSends DEF progress

\* A message that is deleted with its segment is in the archive, or every group
\* is past it, or it was misplaced or astray.
LEMMA KeepReap ==
  ASSUME TInv, SInv, TInv', NEW id, Reap(id)
  PROVE  SInv'
  <1> USE DEF SInv
  <1>1. /\ up /\ id \in DOMAIN segment /\ id < scan.active
        /\ archiving => id \in uploaded
        /\ LastOffset(segment[id]) =< scan.commit
        /\ DOMAIN segment' = DOMAIN segment \ {id}
        /\ \A x \in DOMAIN segment' : segment'[x] = segment[x]
        /\ DOMAIN synced' = DOMAIN synced \ {id}
        /\ \A x \in DOMAIN synced' : synced'[x] = synced[x]
        /\ uploaded' = uploaded \ {id}
        /\ UNCHANGED <<archive, progress, up, writer, sends, sync, scan, reading,
                       bounds, history>>
    BY DEF Reap, Reapable, Restrict
  <1>2. UNCHANGED <<archive, archiving, registered, committed, up, next_offset, active,
                    memory, pc, off, seg, queued, pending, batch, scan, cursor, out,
                    exposed, released, astray>>
    BY <1>1 DEF progress, writer, sends, sync, reading, history
  <1>3. id # active /\ active \in DOMAIN segment'
    <2>1. scan.active =< active /\ active \in DOMAIN segment
      BY <1>1 DEF TInv, ScanTypes, WriterTypes
    <2>2. id \in Nat /\ scan.active \in Nat /\ active \in Nat
      BY <1>1, Numbers
    <2> QED
      BY <1>1, <2>1, <2>2
  <1>4. FilesOK'
    <2>1. \A q \in queued : ~OnDisk(q)'
      BY <1>1, <1>2 DEF FilesOK, OnDisk, FrameOf
    <2> QED
      BY <1>1, <1>2, <1>3, <2>1 DEF FilesOK
  <1>5. \E t \in DOMAIN segment' : Top(t)'
    <2>1. Top(active)
      BY <1>1 DEF Top
    <2>2. Top(active)'
      BY <1>1, <1>2, <1>3, <2>1 DEF Top
    <2> QED
      BY <1>2, <1>3, <2>2
  <1>6. Archived'
    BY <1>1, <1>2 DEF Archived
  <1>7. OffsetsApart'
    <2>1. \A q \in Sender : Live(q)' => Live(q)
      BY <1>2 DEF Live
    <2> QED
      BY <1>2, <2>1, ApartStays
  <1>8. LastCounts'
    <2>1. \A q \in Sender : OnDisk(q)' => OnDisk(q)
      BY <1>1, <1>2 DEF OnDisk, FrameOf
    <2>2. active' \in Nat /\ active' >= active
      BY <1>2, Numbers
    <2> QED
      BY <1>2, <2>1, <2>2, LastStays
  <1>9. \A q \in Sender : Released(q)' = Released(q) /\ Misplaced(q)' = Misplaced(q)
                          /\ FrameOf(q)' = FrameOf(q)
    BY <1>2 DEF Released, Misplaced, FrameOf
  <1>10. ASSUME NEW q \in Sender, Kept(q), q \notin astray PROVE Kept(q)'
    <2>1. CASE seg[q] \in DOMAIN segment
                 /\ In(FrameOf(q), segment[seg[q]], synced[seg[q]])
      <3>1. CASE seg[q] # id
        BY <1>1, <1>2, <1>9, <2>1, <3>1 DEF Kept, TInv, DiskTypes
      <3>2. CASE seg[q] = id
        <4> DEFINE s == segment[id]
        <4>1. /\ s \in Seq(Frame) /\ Clean(s) /\ Exposed(s, exposed)
              /\ synced[id] \in 0..Len(s)
          BY <1>1 DEF FilesOK, TInv, DiskTypes
        <4>2. PICK i \in 1..synced[id] : s[i] = FrameOf(q)
          BY <2>1, <3>2 DEF In
        <4> HIDE DEF s
        <4>3. i \in 1..Len(s)
          BY <4>1
        <4>4. s[i] # Torn /\ s[i].off = off[q] /\ s[i].msg = q
          <5>1. FrameOf(q) \in Message
            BY DEF FrameOf, Message, TInv, SendTypes
          <5> QED
            BY <4>2, <5>1, FrameKinds DEF FrameOf
        <4>5. CASE archiving
          <5>1. id \in uploaded /\ id \in DOMAIN segment
            BY <1>1, <4>5
          <5>2. id \in DOMAIN archive
            BY <5>1 DEF TInv, DiskTypes
          <5>3. i \in 1..Len(archive[id]) /\ archive[id][i] = s[i]
            BY <1>10, <4>3, <4>4, <5>1 DEF Archived, s
          <5>4. In(FrameOf(q), archive[id], Len(archive[id]))
            BY <4>2, <5>3 DEF In
          <5> QED
            BY <1>1, <1>2, <1>9, <3>2, <4>5, <5>2, <5>4 DEF Kept
        <4>6. CASE ~archiving
          <5> DEFINE w == Len(Whole(s))
          <5>1. /\ i \in 1..w /\ Whole(s) \in Seq(Message) /\ w =< Len(s)
                /\ \A j \in 1..w : Whole(s)[j] = s[j] /\ s[j] # Torn
            BY <4>1, <4>3, <4>4, CleanWhole, WholeIs
          <5>2. /\ w \in Nat /\ w \in 1..w /\ w \in 1..Len(s) /\ Len(s) \in Nat
                /\ Whole(s) # <<>>
            BY <4>1, <5>1
          <5>3. LastOffset(s) = s[w].off
            BY <5>1, <5>2 DEF LastOffset, Last
          <5>4. s[w] \in Message /\ s[w] # Torn
            BY <5>1, <5>2
          <5>5. s[w].off \in Nat /\ off[q] \in Nat /\ scan.commit \in Int
                /\ released \in Int
            BY <5>4, Numbers, SenderCount DEF Message, Offset
          <5>6. s[w].off =< released
            BY <1>1, <5>3, <5>5 DEF ProgressOK, s
          <5>7. off[q] =< released \/ off[q] \in exposed
            <6>1. CASE off[q] > s[w].off
              <7>1. i < w
                BY <4>4, <5>1, <5>2, <5>5, <6>1
              <7> QED
                BY <4>1, <4>3, <4>4, <5>2, <5>4, <6>1, <7>1 DEF Exposed
            <6>2. CASE ~(off[q] > s[w].off)
              BY <5>5, <5>6, <6>2
            <6> QED
              BY <6>1, <6>2
          <5> QED
            BY <1>2, <4>6, <5>7 DEF Kept, Released, Misplaced
        <4> QED
          BY <4>5, <4>6
      <3> QED
        BY <3>1, <3>2
    <2>2. CASE /\ seg[q] \notin DOMAIN segment /\ archiving
               /\ seg[q] \in DOMAIN archive
               /\ In(FrameOf(q), archive[seg[q]], Len(archive[seg[q]]))
      BY <1>1, <1>2, <1>9, <2>2 DEF Kept
    <2>3. CASE ~archiving /\ (Released(q) \/ Misplaced(q))
      BY <1>2, <1>9, <2>3 DEF Kept
    <2> QED
      BY <1>10, <2>1, <2>2, <2>3 DEF Kept
  <1>11. SendsOK'
    BY <1>1, <1>2, <1>9, <1>10, SendsStay
  <1>12. ProgressOK'
    BY <1>2 DEF ProgressOK
  <1> QED
    BY <1>4, <1>5, <1>6, <1>7, <1>8, <1>11, <1>12

\* A sealed segment is copied as it is.
LEMMA KeepUpload ==
  ASSUME TInv, SInv, TInv', NEW id, NEW marked \in BOOLEAN, Upload(id, marked)
  PROVE  SInv'
  <1> USE DEF SInv
  <1>1. /\ up /\ id \in DOMAIN segment /\ id < active /\ id \notin uploaded
        /\ DOMAIN archive' = DOMAIN archive \cup {id} /\ archive'[id] = segment[id]
        /\ \A x \in DOMAIN archive : x # id => archive'[x] = archive[x]
        /\ uploaded' \subseteq uploaded \cup {id}
        /\ UNCHANGED <<segment, synced, progress, up, writer, sends, sync, scan,
                       reading, bounds, history>>
    BY DEF Upload, Sealed
  <1>2. UNCHANGED <<archiving, registered, committed, up, next_offset, active,
                    memory, pc, off, seg, queued, pending, batch, scan, cursor, out,
                    exposed, released, astray>>
    BY <1>1 DEF progress, writer, sends, sync, reading, history
  <1>3. FilesOK'
    <2>1. \A q \in queued : ~OnDisk(q)'
      BY <1>1, <1>2 DEF FilesOK, OnDisk, FrameOf
    <2> QED
      BY <1>1, <1>2, <2>1 DEF FilesOK
  <1>4. \E t \in DOMAIN segment' : Top(t)'
    BY <1>1, <1>2 DEF Top
  <1>5. Archived'
    <2>1. \A x \in uploaded : x \in DOMAIN archive
      BY DEF TInv, DiskTypes
    <2> QED
      BY <1>1, <1>2, <2>1 DEF Archived
  <1>6. OffsetsApart'
    <2>1. \A q \in Sender : Live(q)' => Live(q)
      BY <1>2 DEF Live
    <2> QED
      BY <1>2, <2>1, ApartStays
  <1>7. LastCounts'
    <2>1. \A q \in Sender : OnDisk(q)' => OnDisk(q)
      BY <1>1, <1>2 DEF OnDisk, FrameOf
    <2>2. active' \in Nat /\ active' >= active
      BY <1>2, Numbers
    <2> QED
      BY <1>2, <2>1, <2>2, LastStays
  <1>8. \A q \in Sender : (Kept(q) => Kept(q)') /\ (Released(q) => Released(q)')
    BY <1>1, <1>2 DEF Kept, Released, Misplaced, FrameOf
  <1>9. SendsOK'
    BY <1>1, <1>2, <1>8, SendsStay
  <1>10. ProgressOK'
    BY <1>2 DEF ProgressOK
  <1> QED
    BY <1>3, <1>4, <1>5, <1>6, <1>7, <1>9, <1>10

\* The end of the process: files keep what was synced, and lose no more than
\* their ends.
LEMMA KeepEnds ==
  ASSUME TInv, SInv, TInv', Ends, DOMAIN segment' = DOMAIN segment,
         \A id \in DOMAIN segment :
           /\ Clean(segment'[id])
           /\ \A i \in 1..Len(segment'[id]) : segment'[id][i] # Torn =>
                i \in 1..Len(segment[id]) /\ segment'[id][i] = segment[id][i]
           /\ \A i \in 1..synced[id] :
                i \in 1..synced'[id] /\ segment'[id][i] = segment[id][i]
  PROVE  SInv'
  <1> USE DEF SInv
  <1>1. /\ up /\ ~up'
        /\ pc' = [p \in Sender |-> IF pc[p] \in {"new", "acked", "failed"}
                                   THEN pc[p] ELSE "lost"]
        /\ memory' = <<>> /\ pending' = <<>> /\ batch' = {} /\ queued' = {}
        /\ scan' = NoScan
        /\ cursor' = [g \in Group |-> -1] /\ out' = [g \in Group |-> {}]
        /\ UNCHANGED <<archive, uploaded, archiving, registered, committed,
                       next_offset, active, off, seg, exposed, released, astray>>
    BY DEF Ends, progress, history
  <1>2. /\ \A q \in Sender : ~Live(q)'
        /\ \A q \in Sender : pc'[q] = "acked" <=> pc[q] = "acked"
        /\ \A q \in Sender : pc'[q] \notin {"appended", "waiting", "reserved"}
        /\ \A q \in Sender : pc[q] \notin {"new", "reserved"} =>
              pc'[q] \notin {"new", "reserved"} /\ off'[q] = off[q]
                /\ seg'[q] = seg[q]
    BY <1>1 DEF Live, LivePc
  <1>3. FilesOK'
    <2>1. ASSUME NEW id \in DOMAIN segment
          PROVE  /\ Clean(segment'[id])
                 /\ Authentic(segment'[id], id, pc', off', seg')
                 /\ Exposed(segment'[id], exposed')
      <3>1. /\ segment[id] \in Seq(Frame) /\ segment'[id] \in Seq(Frame)
            /\ Authentic(segment[id], id, pc, off, seg)
            /\ Exposed(segment[id], exposed)
        BY DEF FilesOK, TInv, DiskTypes
      <3>2. /\ Authentic(segment'[id], id, pc, off, seg)
            /\ Exposed(segment'[id], exposed)
        BY <3>1, PartOfFile
      <3>3. exposed \subseteq exposed'
        BY <1>1
      <3> QED
        BY <1>2, <3>1, <3>2, <3>3, AuthenticStays
    <2>2. ASSUME NEW id \in DOMAIN archive
          PROVE  Clean(archive[id]) /\ Authentic(archive[id], id, pc', off', seg')
      <3>1. /\ Clean(archive[id]) /\ Authentic(archive[id], id, pc, off, seg)
            /\ archive[id] \in Seq(Frame)
        BY DEF FilesOK, TInv, DiskTypes
      <3> QED
        BY <1>1, <1>2, <3>1, AuthenticStays
    <2> QED
      BY <1>1, <2>1, <2>2 DEF FilesOK
  <1>4. \E t \in DOMAIN segment' : Top(t)'
    BY <1>1 DEF Top
  <1>5. Archived'
    BY <1>1 DEF Archived
  <1>6. ASSUME NEW q \in Sender, Kept(q) PROVE Kept(q)'
    <2>1. FrameOf(q)' = FrameOf(q)
      BY <1>1 DEF FrameOf
    <2>2. CASE seg[q] \in DOMAIN segment
                 /\ In(FrameOf(q), segment[seg[q]], synced[seg[q]])
      <3>1. PICK i \in 1..synced[seg[q]] : segment[seg[q]][i] = FrameOf(q)
        BY <2>2 DEF In
      <3>2. i \in 1..synced'[seg[q]] /\ segment'[seg[q]][i] = FrameOf(q)
        BY <2>2, <3>1
      <3>3. In(FrameOf(q)', segment'[seg'[q]], synced'[seg'[q]])
        BY <1>1, <2>1, <3>2 DEF In
      <3> QED
        BY <1>1, <2>2, <3>3 DEF Kept
    <2>3. CASE /\ seg[q] \notin DOMAIN segment /\ archiving
               /\ seg[q] \in DOMAIN archive
               /\ In(FrameOf(q), archive[seg[q]], Len(archive[seg[q]]))
      BY <1>1, <2>1, <2>3 DEF Kept
    <2>4. CASE ~archiving /\ (Released(q) \/ Misplaced(q))
      BY <1>1, <2>4 DEF Kept, Released, Misplaced
    <2> QED
      BY <1>6, <2>2, <2>3, <2>4 DEF Kept
  <1>7. SendsOK'
    <2>1. \A q \in Acked' : q \in Acked /\ q \in Sender
      BY <1>2 DEF Acked
    <2>2. \A q \in Acked' : Kept(q)' \/ q \in astray'
      BY <1>1, <1>6, <2>1 DEF SendsOK
    <2>3. \A i \in 1..Len(pending') : FALSE
      BY <1>1
    <2> QED
      BY <1>1, <1>2, <2>2, <2>3 DEF SendsOK
  <1>8. OffsetsApart'
    BY <1>1, <1>2 DEF OffsetsApart
  <1>9. LastCounts'
    <2>1. ASSUME NEW q \in Sender, OnDisk(q)' PROVE OnDisk(q)
      <3>1. FrameOf(q)' = FrameOf(q) /\ FrameOf(q) # Torn
        <4>1. FrameOf(q) \in Message
          BY DEF FrameOf, Message, TInv, SendTypes
        <4> QED
          BY <1>1, <4>1, FrameKinds DEF FrameOf
      <3>2. ASSUME NEW id \in DOMAIN segment,
                   In(FrameOf(q), segment'[id], Len(segment'[id]))
            PROVE  In(FrameOf(q), segment[id], Len(segment[id]))
        BY <3>1, <3>2 DEF In
      <3> QED
        BY <1>1, <2>1, <3>1, <3>2 DEF OnDisk
    <2>2. active' \in Nat /\ active' >= active
      BY <1>1, Numbers
    <2>3. /\ \A q \in Sender : pc'[q] = "reserved" => pc[q] = "reserved"
          /\ \A q \in Sender : pc'[q] \in {"appended", "waiting", "acked"} =>
                               pc[q] \in {"appended", "waiting", "acked"}
      BY <1>2
    <2> QED
      BY <1>1, <2>1, <2>2, <2>3, LastStays
  <1>10. ProgressOK'
    <2>1. scan'.commit = NoCommit /\ NoCommit = -1
      BY <1>1 DEF NoScan, NoCommit
    <2>2. released \in Int /\ released >= -1
      BY SenderCount DEF TInv, ScanTypes, Offset, NoCommit
    <2>3. scan'.commit =< released'
      BY <1>1, <2>1, <2>2
    <2> QED
      BY <1>1, <2>3 DEF ProgressOK
  <1> QED
    BY <1>3, <1>4, <1>5, <1>7, <1>8, <1>9, <1>10

\* A crash: what was written stays, with part of a frame behind it at most.
LEMMA KeepCrash ==
  ASSUME TInv, SInv, TInv', TornTails # "any", NEW cut, Crash(cut)
  PROVE  SInv'
  <1> USE DEF SInv
  <1>1. /\ Ends /\ up /\ UNCHANGED synced /\ cut \subseteq Writing
        /\ \A id \in cut : MayTear(segment[id]) /\ id \in DOMAIN segment
        /\ DOMAIN segment' = DOMAIN segment
        /\ \A id \in DOMAIN segment :
             segment'[id] = IF id \in cut THEN Append(segment[id], Torn)
                            ELSE segment[id]
    BY DEF Crash, Ends
  <1>2. ASSUME NEW id \in DOMAIN segment
        PROVE  /\ segment[id] \in Seq(Frame) /\ Clean(segment[id])
               /\ Len(segment[id]) \in Nat /\ synced[id] \in 0..Len(segment[id])
    BY DEF TInv, DiskTypes, FilesOK
  <1>3. ASSUME NEW id \in DOMAIN segment
        PROVE  /\ Clean(segment'[id])
               /\ \A i \in 1..Len(segment'[id]) : segment'[id][i] # Torn =>
                    i \in 1..Len(segment[id]) /\ segment'[id][i] = segment[id][i]
               /\ \A i \in 1..synced[id] :
                    i \in 1..synced'[id] /\ segment'[id][i] = segment[id][i]
    <2>1. CASE id \notin cut
      BY <1>1, <1>2, <2>1
    <2>2. CASE id \in cut
      <3> DEFINE s == segment[id]
                 r == segment'[id]
      <3>1. /\ s \in Seq(Frame) /\ Len(s) \in Nat /\ synced[id] \in 0..Len(s)
            /\ Torn \in Frame /\ Whole(s) # <<>> /\ r = Append(s, Torn)
        BY <1>1, <1>2, <2>2 DEF MayTear, Frame
      <3>2. \A i \in 1..Len(s) : s[i] # Torn
        <4>1. PICK q \in queued : id = seg[q]
          BY <1>1, <2>2 DEF Writing
        <4> QED
          BY <4>1 DEF FilesOK
      <3>3. synced'[id] = synced[id]
        BY <1>1
      <3> HIDE DEF s, r
      <3>4. Len(s) >= 1
        <4>1. Whole(s) \in Seq(Message) /\ Len(Whole(s)) =< Len(s)
          BY <3>1, WholeIs
        <4>2. Len(Whole(s)) # 0
          BY <3>1, <4>1
        <4> QED
          BY <3>1, <4>1, <4>2
      <3>5. /\ Len(r) = Len(s) + 1 /\ r[Len(s) + 1] = Torn
            /\ \A i \in 1..Len(s) : r[i] = s[i]
        BY <3>1, LongerFile
      <3>6. \A i \in 1..Len(r) : i \in 1..Len(s) \/ i = Len(s) + 1
        BY <3>1, <3>5
      <3>7. Clean(r)
        BY <3>1, <3>2, <3>4, <3>5, <3>6 DEF Clean
      <3>8. \A i \in 1..synced[id] : i \in 1..Len(s)
        BY <3>1
      <3> QED
        BY <3>3, <3>5, <3>6, <3>7, <3>8 DEF s, r
    <2> QED
      BY <2>1, <2>2
  <1> QED
    BY <1>1, <1>3, KeepEnds

\* A power failure: files lose an end that was not synced.
LEMMA KeepPowerFailure ==
  ASSUME TInv, SInv, TInv', TornTails # "any", PowerFailure
  PROVE  SInv'
  <1> USE DEF SInv
  <1>0. Ends /\ DiskTypes
    BY DEF PowerFailure, TInv
  <1>1. /\ DOMAIN segment' = DOMAIN segment
        /\ \A id \in DOMAIN segment :
             segment'[id] \in Remnants(segment[id], synced[id], id \in Writing)
        /\ \A id \in DOMAIN segment : synced'[id] = Len(segment'[id])
    BY <1>0, PowerIs
  <1>2. ASSUME NEW id \in DOMAIN segment
        PROVE  /\ Clean(segment'[id])
               /\ \A i \in 1..Len(segment'[id]) : segment'[id][i] # Torn =>
                    i \in 1..Len(segment[id]) /\ segment'[id][i] = segment[id][i]
               /\ \A i \in 1..synced[id] :
                    i \in 1..synced'[id] /\ segment'[id][i] = segment[id][i]
    <2> DEFINE s == segment[id]
               r == segment'[id]
               n == synced[id]
               more == id \in Writing
    <2>1. /\ s \in Seq(Frame) /\ Clean(s) /\ Len(s) \in Nat /\ n \in 0..Len(s)
          /\ r \in Remnants(s, n, more) /\ synced'[id] = Len(r)
          /\ more \in BOOLEAN
      BY <1>0, <1>1 DEF DiskTypes, FilesOK
    <2>w. more => \A i \in 1..Len(s) : s[i] # Torn
      BY DEF FilesOK, Writing
    <2> HIDE DEF s, r, n, more
    <2>2. PICK k \in n..Len(s) :
              /\ \A i \in 1..k : r[i] = s[i]
              /\ \/ Len(r) = k
                 \/ /\ k < Len(s) \/ more
                    /\ Len(r) = k + 1 /\ r[k + 1] = Torn
                    /\ MayTear(SubSeq(s, 1, k))
      BY <2>1, RemnantIs
    <2>3. k \in Nat /\ k \in 0..Len(s) /\ n =< k /\ n \in Nat
      BY <2>1
    <2>4. CASE Len(r) = k
      <3>1. \A i \in 1..k : i \in 1..Len(s) /\ r[i] = s[i]
        BY <2>1, <2>2, <2>3
      <3>2. ASSUME NEW i \in 1..k
            PROVE  r[i] = Torn => i = k /\ i > 1
        <4>1. s[i] = Torn => i = Len(s) /\ i > 1
          BY <2>1, <3>1 DEF Clean
        <4> QED
          BY <2>1, <2>3, <3>1, <4>1
      <3>3. Clean(r)
        BY <2>4, <3>2 DEF Clean
      <3>4. \A i \in 1..n : i \in 1..k
        BY <2>3
      <3> QED
        BY <2>1, <2>4, <3>1, <3>3, <3>4 DEF s, r, n
    <2>5. CASE /\ k < Len(s) \/ more
               /\ Len(r) = k + 1 /\ r[k + 1] = Torn
               /\ MayTear(SubSeq(s, 1, k))
      <3>1. \A i \in 1..k : i \in 1..Len(s) /\ r[i] = s[i]
                           /\ (k < Len(s) => i # Len(s))
        BY <2>1, <2>2, <2>3, <2>5
      <3>2. \A i \in 1..k : r[i] # Torn
        BY <2>1, <2>5, <2>w, <3>1 DEF Clean
      <3>3. k >= 1
        <4>1. Whole(SubSeq(s, 1, k)) # <<>>
          BY <2>5 DEF MayTear
        <4>2. SubSeq(s, 1, k) \in Seq(Frame) /\ Len(SubSeq(s, 1, k)) = k
          BY <2>1, <2>3
        <4>3. /\ Whole(SubSeq(s, 1, k)) \in Seq(Message)
              /\ Len(Whole(SubSeq(s, 1, k))) =< k
          BY <4>2, WholeIs
        <4>4. Len(Whole(SubSeq(s, 1, k))) # 0
          BY <4>1, <4>3
        <4> QED
          BY <2>3, <4>3, <4>4
      <3>4. \A i \in 1..Len(r) : i \in 1..k \/ i = k + 1
        BY <2>3, <2>5
      <3>5. Clean(r)
        BY <2>3, <2>5, <3>2, <3>3, <3>4 DEF Clean
      <3>6. \A i \in 1..n : i \in 1..k /\ i \in 1..Len(r)
        BY <2>3, <2>5
      <3> QED
        BY <2>1, <2>5, <3>1, <3>4, <3>5, <3>6 DEF s, r, n
    <2> QED
      BY <2>2, <2>4, <2>5
  <1> QED
    BY <1>0, <1>1, <1>2, KeepEnds

----------------------------------------------------------------------------
----------------------------------------------------------------------------
(* The restart *)

\* A frame of a file that the replay reads is found by it.
LEMMA FoundByReplay ==
  ASSUME TInv, SInv, NEW q \in Sender, NEW id \in DOMAIN segment \cup DOMAIN archive,
         NEW s \in Seq(Frame), Clean(s), Readable(id) = Whole(s),
         NEW n \in 0..Len(s), In(FrameOf(q), s, n)
  PROVE  \E at \in Stored : at[1] = id /\ FrameAt(at) = FrameOf(q)
  <1>1. PICK i \in 1..n : s[i] = FrameOf(q)
    BY DEF In
  <1>2. i \in 1..Len(s)
    OBVIOUS
  <1>3. s[i] # Torn
    <2>1. FrameOf(q) \in Message
      BY DEF FrameOf, Message, TInv, SendTypes
    <2> QED
      BY <1>1, <2>1, FrameKinds
  <1>4. i \in 1..Len(Whole(s)) /\ Whole(s)[i] = s[i]
    BY <1>2, <1>3, CleanWhole
  <1>5. i \in 1..Len(Readable(id))
    BY <1>4
  <1> DEFINE at == <<id, i>>
  <1>6. at \in Stored
    BY <1>5 DEF Stored
  <1>7. at[1] = id /\ FrameAt(at) = FrameOf(q)
    BY <1>1, <1>4 DEF FrameAt
  <1> QED
    BY <1>6, <1>7

\* A frame the replay finds is what its sender wrote, where it wrote it.
LEMMA StoredAuthentic ==
  ASSUME TInv, SInv, NEW at \in Stored
  PROVE  /\ FrameAt(at).msg \in Sender /\ FrameAt(at).off = off[FrameAt(at).msg]
         /\ seg[FrameAt(at).msg] = at[1] /\ OnDisk(FrameAt(at).msg)
  <1> DEFINE id == at[1]
             i == at[2]
             m == FrameAt(at).msg
  <1>1. /\ id \in DOMAIN segment \cup DOMAIN archive /\ i \in 1..Len(Readable(id))
        /\ m \in Sender /\ FrameAt(at) = Readable(id)[i]
    BY StoredIs DEF FrameAt
  <1>2. Readable(id) \in Seq(Message)
    BY ReadableIs
  <1>3. i \in 1..Len(Readable(id)) /\ Readable(id) # <<>>
    BY <1>1, <1>2
  <1> HIDE DEF id, i, m
  <1>4. ASSUME NEW s \in Seq(Frame), Authentic(s, id, pc, off, seg),
               Readable(id) = Whole(s)
        PROVE  /\ FrameAt(at) = FrameOf(m) /\ seg[m] = id
               /\ In(FrameOf(m), s, Len(s))
    <2>1. /\ Len(Whole(s)) =< Len(s) /\ Len(Whole(s)) \in Nat /\ Len(s) \in Nat
          /\ Whole(s)[i] = s[i] /\ s[i] # Torn
      BY <1>2, <1>3, <1>4, WholeIs
    <2>2. i \in 1..Len(s)
      BY <1>3, <1>4, <2>1
    <2>3. s[i] = FrameAt(at)
      BY <1>1, <1>4, <2>1
    <2>4. s[i].msg = m
      BY <2>3 DEF m
    <2>5. s[i] = [off |-> off[m], msg |-> m] /\ seg[m] = id
      BY <1>4, <2>1, <2>2, <2>4 DEF Authentic
    <2> QED
      BY <2>2, <2>3, <2>5 DEF FrameOf, In
  <1>5. CASE id \in DOMAIN segment /\ Readable(id) = Whole(segment[id])
    <2>1. segment[id] \in Seq(Frame) /\ Authentic(segment[id], id, pc, off, seg)
      BY <1>5 DEF TInv, DiskTypes, SInv, FilesOK
    <2>2. /\ FrameAt(at) = FrameOf(m) /\ seg[m] = id
          /\ In(FrameOf(m), segment[id], Len(segment[id]))
      BY <1>4, <1>5, <2>1
    <2>3. OnDisk(m)
      BY <1>5, <2>2 DEF OnDisk
    <2> QED
      BY <1>1, <2>2, <2>3 DEF FrameOf, id, m
  <1>6. CASE id \in DOMAIN archive /\ Readable(id) = Whole(archive[id])
    <2>1. archive[id] \in Seq(Frame) /\ Authentic(archive[id], id, pc, off, seg)
      BY <1>6 DEF TInv, DiskTypes, SInv, FilesOK
    <2>2. /\ FrameAt(at) = FrameOf(m) /\ seg[m] = id
          /\ In(FrameOf(m), archive[id], Len(archive[id]))
      BY <1>4, <1>6, <2>1
    <2>3. OnDisk(m)
      BY <1>6, <2>2 DEF OnDisk
    <2> QED
      BY <1>1, <2>2, <2>3 DEF FrameOf, id, m
  <1> QED
    BY <1>3, <1>5, <1>6, ReadableIs

\* An acknowledged message that was not let go is found.
LEMMA KeptIsStored ==
  ASSUME TInv, SInv, NEW p \in Sender, Kept(p)
  PROVE  \/ \E at \in Stored : at[1] = seg[p] /\ FrameAt(at) = FrameOf(p)
         \/ ~archiving /\ (Released(p) \/ Misplaced(p))
  <1> DEFINE id == seg[p]
  <1>1. CASE id \in DOMAIN segment /\ In(FrameOf(p), segment[id], synced[id])
    <2>1. /\ segment[id] \in Seq(Frame) /\ Clean(segment[id])
          /\ synced[id] \in 0..Len(segment[id])
      BY <1>1 DEF TInv, DiskTypes, SInv, FilesOK
    <2>2. segment[id] # <<>>
      BY <1>1, <2>1 DEF In
    <2>3. Readable(id) = Whole(segment[id])
      BY <1>1, <2>2 DEF Readable
    <2> QED
      BY <1>1, <2>1, <2>3, FoundByReplay
  <1>2. CASE /\ id \notin DOMAIN segment /\ archiving /\ id \in DOMAIN archive
             /\ In(FrameOf(p), archive[id], Len(archive[id]))
    <2>1. archive[id] \in Seq(Frame) /\ Clean(archive[id])
      BY <1>2 DEF TInv, DiskTypes, SInv, FilesOK
    <2>2. Len(archive[id]) \in 0..Len(archive[id])
      BY <2>1
    <2>3. Readable(id) = Whole(archive[id])
      BY <1>2 DEF Readable
    <2> QED
      BY <1>2, <2>1, <2>2, <2>3, FoundByReplay
  <1> QED
    BY <1>1, <1>2 DEF Kept

\* What the replay puts at the offset of an acknowledged message is that message.
LEMMA ReplayedIsLast ==
  ASSUME TInv, SInv, Fits, NEW p \in Acked, NEW at \in Replayed,
         at[1] = seg[p], FrameAt(at) = FrameOf(p)
  PROVE  \/ off[p] \in DOMAIN ReplayedMemory /\ ReplayedMemory[off[p]] = p
         \/ Exempt(p)
  <1>0. p \in Sender /\ pc[p] = "acked" /\ \A x \in Replayed : x \in Stored
    BY DEF Acked, Replayed
  <1>1. FrameAt(at).off = off[p] /\ FrameAt(at).msg = p
    BY DEF FrameOf
  <1>2. off[p] \in DOMAIN ReplayedMemory
    BY <1>1, ReplayIs
  <1>3. PICK b \in Replayed :
          /\ FrameAt(b).off = off[p] /\ ReplayedMemory[off[p]] = FrameAt(b).msg
          /\ \A x \in Replayed : FrameAt(x).off = off[p] => x = b \/ Before(x, b)
    BY <1>2, ReplayIs
  <1> DEFINE q == FrameAt(b).msg
  <1>4. q \in Sender /\ off[q] = off[p] /\ seg[q] = b[1] /\ OnDisk(q)
    BY <1>0, <1>3, StoredAuthentic
  <1> HIDE DEF q
  <1>5. CASE q = p
    BY <1>2, <1>3, <1>5 DEF q
  <1>6. CASE q # p
    <2>1. seg[q] < seg[p] \/ Exempt(p)
      BY <1>0, <1>4, <1>6 DEF SInv, LastCounts
    <2>2. at # b
      BY <1>1, <1>6 DEF q
    <2>3. Before(at, b)
      BY <1>1, <1>3, <2>2
    <2>4. ~(b[1] < at[1])
      <3>1. at[1] \in Nat /\ b[1] \in Nat
        BY <1>0, <1>4, Numbers
      <3> QED
        BY <2>3, <3>1 DEF Before
    <2> QED
      BY <1>4, <2>1, <2>4
  <1> QED
    BY <1>5, <1>6

\* Messages: recovery replays everything that counts and numbers above it.
LEMMA KeepOpen ==
  ASSUME TInv, SInv, TInv', Open
  PROVE  SInv'
  <1> USE DEF SInv
  <1>1. /\ ~up /\ Fits /\ up' /\ memory' = ReplayedMemory
        /\ next_offset' = ResumeOffset /\ active' = ResumeSegment
        /\ released' = Max({released, PassedByAll})
        /\ UNCHANGED <<archive, uploaded, archiving, registered, committed, pc, off,
                       seg, queued, pending, batch, scan, cursor, out, exposed,
                       astray>>
    BY DEF Open, progress, sends, sync, reading
  <1>2. /\ active' \in Nat
        /\ DOMAIN segment' = DOMAIN segment \cup {active'}
        /\ \A id \in DOMAIN segment :
             segment'[id] = segment[id] /\ synced'[id] = synced[id]
        /\ active' \notin DOMAIN segment => segment'[active'] = <<>>
        /\ \A id \in DOMAIN segment \cup DOMAIN archive : id =< active'
    BY OpenDisk
  <1>3. /\ queued' = {} /\ \A q \in Sender : pc[q] \notin LivePc /\ pc'[q] = pc[q]
        /\ \A q \in Sender : ~Live(q)'
    BY <1>1 DEF TInv, SendTypes, Live
  <1>4. PICK t \in DOMAIN segment : Top(t)
    OBVIOUS
  <1>5. \/ active' = t /\ \A at \in Stored : at[1] < t
        \/ active' = t + 1
    <2>1. \A id \in DOMAIN segment \cup DOMAIN archive : id =< t
      <3>1. t \in Nat /\ \A id \in DOMAIN segment \cup DOMAIN archive : id \in Nat
        BY Numbers
      <3> QED
        BY <1>4, <3>1 DEF Top
    <2> QED
      BY <1>1, <2>1, ResumeSegmentIs
  <1>n. /\ t \in Nat /\ active' >= t /\ \A q \in Sender : seg[q] \in Nat /\ off[q] \in Nat
        /\ \A id \in DOMAIN segment \cup DOMAIN archive : id \in Nat
    BY <1>5, Numbers
  <1>6. segment'[active'] = <<>>
    <2>1. CASE active' = t /\ \A at \in Stored : at[1] < t
      <3>1. segment[t] \in Seq(Frame) /\ Clean(segment[t])
        BY DEF TInv, DiskTypes, FilesOK
      <3> SUFFICES ASSUME segment[t] # <<>> PROVE FALSE
        BY <1>2, <2>1
      <3>2. Readable(t) = Whole(segment[t])
        BY DEF Readable
      <3>3. Whole(segment[t]) # <<>> /\ Whole(segment[t]) \in Seq(Message)
        BY <3>1, CleanWhole, WholeIs
      <3>4. Len(Readable(t)) \in Nat /\ Len(Readable(t)) # 0
        BY <3>2, <3>3
      <3>5. <<t, 1>> \in Stored
        BY <3>4 DEF Stored
      <3>6. <<t, 1>>[1] < t
        BY <2>1, <3>5
      <3> QED
        BY <1>n, <3>6
    <2>2. CASE active' = t + 1
      <3>1. active' \notin DOMAIN segment
        BY <1>4, <1>n, <2>2 DEF Top
      <3> QED
        BY <1>2, <3>1
    <2> QED
      BY <1>5, <2>1, <2>2
  <1>7. \A i \in 1..Len(segment'[active']) : FALSE
    BY <1>6
  <1>8. FilesOK'
    <2>1. ASSUME NEW id \in DOMAIN segment'
          PROVE  /\ Clean(segment'[id]) /\ Authentic(segment'[id], id, pc, off, seg)
                 /\ Exposed(segment'[id], exposed)
      <3>1. CASE id \in DOMAIN segment
        BY <1>2, <3>1 DEF FilesOK
      <3>2. CASE id = active'
        BY <1>7, <3>2 DEF Clean, Authentic, Exposed
      <3> QED
        BY <1>2, <3>1, <3>2
    <2> QED
      BY <1>1, <1>3, <1>7, <2>1 DEF FilesOK
  <1>9. \E x \in DOMAIN segment' : Top(x)'
    <2>1. \A id \in DOMAIN archive : id < active'
      BY <1>4, <1>n, <1>2 DEF Top
    <2>2. \A q \in Sender : seg[q] =< active'
      BY <1>4, <1>n, <1>2 DEF Top
    <2>3. \A id \in DOMAIN segment' : id =< active'
      BY <1>2
    <2> QED
      BY <1>1, <1>2, <2>1, <2>2, <2>3 DEF Top
  <1>10. Archived'
    <2>1. ASSUME NEW id \in uploaded \cap DOMAIN segment',
                 NEW i \in 1..Len(segment'[id]), segment'[id][i] # Torn,
                 segment'[id][i].msg \notin astray
          PROVE  i \in 1..Len(archive[id]) /\ archive[id][i] = segment'[id][i]
      <3>1. id # active'
        BY <1>7
      <3> QED
        BY <1>2, <2>1, <3>1 DEF Archived
    <2> QED
      BY <1>1, <2>1 DEF Archived
  <1>11. GroupTypes /\ ScanTypes
    BY DEF TInv
  <1>12. /\ released' \in {released, LeastCommit} /\ released' >= released
         /\ released' >= LeastCommit /\ released' \in Int
         /\ LeastCommit \in Int /\ released \in Int
    <2>1. released' \in {released, LeastCommit} /\ released' >= released
          /\ released' >= LeastCommit
      BY <1>1, <1>11, ReleasedIs
    <2>2. LeastCommit \in Int /\ released \in Int
      BY <1>11, LeastIs, SenderCount DEF ScanTypes, Offset, NoCommit
    <2> QED
      BY <2>1, <2>2
  <1>13. \A q \in Sender : /\ Released(q) => Released(q)'
                           /\ Misplaced(q)' = Misplaced(q)
                           /\ Exempt(q)' = Exempt(q)
                           /\ FrameOf(q)' = FrameOf(q)
    BY <1>1, <1>n, <1>12 DEF Released, Misplaced, Exempt, FrameOf
  <1>14. Acked' = Acked /\ \A p \in Acked : p \in Sender /\ (Kept(p) \/ p \in astray)
    BY <1>1 DEF Acked, SendsOK
  <1>15. ASSUME NEW p \in Acked, p \notin astray PROVE Kept(p)'
    <2>0. p \in Sender /\ Kept(p)
      BY <1>14, <1>15
    <2>1. CASE seg[p] \in DOMAIN segment
                 /\ In(FrameOf(p), segment[seg[p]], synced[seg[p]])
      BY <1>1, <1>2, <1>13, <2>0, <2>1 DEF Kept
    <2>2. CASE /\ seg[p] \notin DOMAIN segment /\ archiving
               /\ seg[p] \in DOMAIN archive
               /\ In(FrameOf(p), archive[seg[p]], Len(archive[seg[p]]))
      <3>1. seg[p] \notin DOMAIN segment'
        <4>1. seg[p] < t
          BY <1>4, <2>2 DEF Top
        <4> QED
          BY <1>n, <1>2, <2>0, <2>2, <4>1
      <3> QED
        BY <1>1, <1>13, <2>0, <2>2, <3>1 DEF Kept
    <2>3. CASE ~archiving /\ (Released(p) \/ Misplaced(p))
      BY <1>1, <1>13, <2>0, <2>3 DEF Kept
    <2> QED
      BY <2>0, <2>1, <2>2, <2>3 DEF Kept
  <1>16. ASSUME NEW p \in Acked
         PROVE  InMemory(p)' \/ Released(p)' \/ Exempt(p)
    <2> SUFFICES ASSUME p \notin astray
                 PROVE  InMemory(p)' \/ Released(p)' \/ Exempt(p)
      BY DEF Exempt
    <2>0. p \in Sender /\ Kept(p)
      BY <1>14
    <2>1. ASSUME NEW at \in Stored, at[1] = seg[p], FrameAt(at) = FrameOf(p)
          PROVE  InMemory(p)' \/ Released(p)' \/ Exempt(p)
      <3>1. FrameAt(at).off = off[p]
        BY <2>1 DEF FrameOf
      <3>2. CASE off[p] > LeastCommit
        <4>1. at \in Replayed
          BY <3>1, <3>2 DEF Replayed
        <4>2. \/ off[p] \in DOMAIN ReplayedMemory /\ ReplayedMemory[off[p]] = p
              \/ Exempt(p)
          BY <1>1, <2>1, <4>1, ReplayedIsLast
        <4> QED
          BY <1>1, <2>0, <4>2 DEF InMemory
      <3>3. CASE ~(off[p] > LeastCommit)
        BY <1>1, <1>n, <1>12, <2>0, <3>3 DEF Released
      <3> QED
        BY <3>2, <3>3
    <2> QED
      BY <1>13, <2>0, <2>1, KeptIsStored DEF Exempt
  <1>17. SendsOK'
    <2>1. \A q \in Sender : pc'[q] \notin {"appended", "waiting"}
      BY <1>3 DEF LivePc
    <2> QED
      BY <1>1, <1>13, <1>14, <1>15, <1>16, <2>1 DEF SendsOK, Exempt
  <1>18. /\ next_offset' \in Nat
         /\ \A at \in Stored : FrameAt(at).off < next_offset'
         /\ \A g \in registered : committed[g] < next_offset'
    BY <1>1, ResumeOffsetIs
  <1>19. ASSUME NEW p \in Acked PROVE off[p] < next_offset' \/ Exempt(p)
    <2> SUFFICES ASSUME p \notin astray PROVE off[p] < next_offset' \/ Exempt(p)
      BY DEF Exempt
    <2>0. p \in Sender /\ Kept(p)
      BY <1>14
    <2>1. CASE \E at \in Stored : at[1] = seg[p] /\ FrameAt(at) = FrameOf(p)
      BY <1>18, <2>1 DEF FrameOf
    <2>2. CASE Released(p)
      <3>1. off[p] =< released /\ released # NoCommit
        BY <1>n, <1>12, <2>0, <2>2 DEF Released, NoCommit
      <3>2. PICK g \in registered : committed[g] >= released
        BY <3>1 DEF ProgressOK
      <3>3. committed[g] < next_offset' /\ committed[g] \in Int
        BY <1>18, Numbers DEF TInv, GroupTypes
      <3> QED
        BY <1>n, <1>12, <1>18, <2>0, <3>1, <3>2, <3>3
    <2> QED
      BY <2>0, <2>1, <2>2, KeptIsStored DEF Exempt
  <1>20. OffsetsApart'
    BY <1>1, <1>3, <1>13, <1>14, <1>19 DEF OffsetsApart
  <1>21. LastCounts'
    <2> SUFFICES ASSUME NEW q \in Sender, OnDisk(q)'
                 PROVE  /\ off[q] >= next_offset' => seg[q] < active'
                        /\ \A x \in Sender : x # q /\ off[x] = off[q] =>
                             /\ pc[x] = "reserved" => seg[q] < active'
                             /\ pc[x] \in {"appended", "waiting", "acked"} =>
                                  seg[q] < seg[x] \/ Exempt(x)
      BY <1>1, <1>13 DEF LastCounts
    <2>1. OnDisk(q)
      <3>1. ASSUME NEW id \in DOMAIN segment',
                   In(FrameOf(q), segment'[id], Len(segment'[id]))
            PROVE  id \in DOMAIN segment
                   /\ In(FrameOf(q), segment[id], Len(segment[id]))
        <4>1. id # active'
          BY <1>7, <3>1 DEF In
        <4> QED
          BY <1>2, <3>1, <4>1
      <3> QED
        BY <1>1, <1>13, <3>1 DEF OnDisk
    <2>2. \A x \in Sender : pc[x] # "reserved"
      BY <1>3 DEF LivePc
    <2>3. off[q] >= next_offset' => seg[q] < active'
      <3>1. CASE seg[q] \in DOMAIN segment
                   /\ In(FrameOf(q), segment[seg[q]], Len(segment[seg[q]]))
        <4> DEFINE s == segment[seg[q]]
        <4>1. s \in Seq(Frame) /\ Clean(s) /\ s # <<>>
          BY <3>1 DEF TInv, DiskTypes, FilesOK, In
        <4>2. Len(s) \in 0..Len(s) /\ Readable(seg[q]) = Whole(s)
          BY <3>1, <4>1 DEF Readable
        <4>3. PICK at \in Stored : FrameAt(at) = FrameOf(q)
          BY <3>1, <4>1, <4>2, FoundByReplay
        <4>4. off[q] < next_offset'
          BY <1>18, <4>3 DEF FrameOf
        <4> QED
          BY <1>n, <1>18, <4>4
      <3>2. CASE seg[q] \in DOMAIN archive
        BY <1>4, <1>n, <1>2, <3>2 DEF Top
      <3> QED
        BY <2>1, <3>1, <3>2, OnDiskIs
    <2> QED
      BY <2>1, <2>2, <2>3 DEF LastCounts
  <1>22. ProgressOK'
    <2>1. \A o \in DOMAIN memory' : o < next_offset'
      <3> TAKE o \in DOMAIN memory'
      <3>1. PICK at \in Replayed : FrameAt(at).off = o
        BY <1>1, ReplayIs
      <3> QED
        BY <1>18, <3>1 DEF Replayed
    <2>2. \A g \in Group : committed[g] < next_offset' /\ out[g] = {}
      <3> TAKE g \in Group
      <3>1. out[g] = {}
        BY <1>1 DEF ProgressOK
      <3>2. CASE g \in registered
        BY <1>18, <3>1, <3>2
      <3>3. CASE g \notin registered
        BY <1>18, <3>1, <3>3 DEF ProgressOK, NoCommit
      <3> QED
        BY <3>2, <3>3
    <2>3. scan'.commit =< released'
      BY <1>1, <1>12, Numbers DEF ProgressOK
    <2>4. released' # NoCommit => \E g \in registered : committed[g] >= released'
      <3>1. CASE released' = released
        BY <3>1 DEF ProgressOK
      <3>2. CASE released' = LeastCommit /\ released' # NoCommit
        <4>1. PICK g \in registered : LeastCommit = committed[g]
          BY <1>11, <3>2, LeastIs
        <4> QED
          BY <1>12, <3>2, <4>1
      <3> QED
        BY <1>12, <3>1, <3>2
    <2> QED
      BY <1>1, <2>1, <2>2, <2>3, <2>4 DEF ProgressOK
  <1> QED
    BY <1>8, <1>9, <1>10, <1>17, <1>20, <1>21, <1>22

----------------------------------------------------------------------------
(* The invariant and what follows from it *)

\* Nothing was sent.
LEMMA MessagesInit == Init => SInv
  <1> SUFFICES ASSUME Init PROVE SInv
    OBVIOUS
  <1>1. /\ DOMAIN segment = {0} /\ segment[0] = <<>> /\ DOMAIN archive = {}
        /\ uploaded = {} /\ up /\ active = 0 /\ DOMAIN memory = {}
        /\ next_offset = 0 /\ registered = {} /\ pending = <<>> /\ batch = {}
        /\ queued = {} /\ astray = {}
        /\ \A p \in Sender : pc[p] = "new" /\ seg[p] = 0 /\ off[p] = 0
        /\ \A g \in Group : committed[g] = NoCommit /\ cursor[g] = -1 /\ out[g] = {}
        /\ scan.commit = NoCommit /\ released = NoCommit
    BY DEF Init, NoScan
  <1>2. \A i \in 1..Len(<<>>) : FALSE
    OBVIOUS
  <1>3. FilesOK
    BY <1>1, <1>2 DEF FilesOK, Clean, Authentic, Exposed
  <1>4. \E t \in DOMAIN segment : Top(t)
    BY <1>1 DEF Top
  <1>5. Archived
    BY <1>1 DEF Archived
  <1>6. SendsOK
    BY <1>1, <1>2 DEF SendsOK, Acked
  <1>7. OffsetsApart
    BY <1>1 DEF OffsetsApart, Acked, Live, LivePc
  <1>8. LastCounts
    <2>1. \A q \in Sender : ~OnDisk(q)
      BY <1>1, <1>2 DEF OnDisk, In
    <2> QED
      BY <2>1 DEF LastCounts
  <1>9. ProgressOK
    <2>1. NoCommit = -1
      BY DEF NoCommit
    <2> QED
      BY <1>1, <2>1 DEF ProgressOK
  <1> QED
    BY <1>3, <1>4, <1>5, <1>6, <1>7, <1>8, <1>9 DEF SInv

\* Messages: nothing happens.
LEMMA MessagesStutter ==
  ASSUME SInv, UNCHANGED vars
  PROVE  SInv'
  <1>1. UNCHANGED <<segment, synced, archive, uploaded, archiving, registered,
                    committed, up, next_offset, active, memory, pc, off, seg,
                    queued, pending, batch, scan, cursor, out, exposed, released,
                    astray>>
    BY DEF vars, disk, progress, writer, sends, sync, reading, history
  <1>2. FilesOK' /\ (\E t \in DOMAIN segment' : Top(t)') /\ Archived'
    BY <1>1 DEF SInv, FilesOK, Top, Archived, OnDisk, FrameOf
  <1>3. SendsOK' /\ OffsetsApart'
    BY <1>1 DEF SInv, SendsOK, OffsetsApart, Acked, Kept, InMemory, Released,
      Misplaced, Exempt, Live, FrameOf
  <1>4. LastCounts' /\ ProgressOK'
    BY <1>1 DEF SInv, LastCounts, ProgressOK, OnDisk, Misplaced, Exempt, FrameOf
  <1> QED
    BY <1>2, <1>3, <1>4 DEF SInv

\* Every step keeps the invariant.
LEMMA MessagesNext ==
  ASSUME TornTails # "any", TInv, SInv, TInv', [Next]_vars
  PROVE  SInv'
  <1>1. ASSUME NEW p \in Sender, Send(p) \/ SendStep(p) \/ WriteStep(p) PROVE SInv'
    BY <1>1, KeepSend, KeepAppendFrame, KeepAppendFails, KeepAppendSyncFails,
      KeepEnqueue, KeepWriteStep DEF SendStep
  <1>2. CASE Drain
    BY <1>2, KeepDrainTake, KeepDrain DEF Drain
  <1>3. CASE Background
    BY <1>3, KeepReapScan, KeepReap, KeepUpload DEF Background
  <1>4. CASE UNCHANGED vars
    BY <1>4, MessagesStutter
  <1> QED
    BY <1>1, <1>2, <1>3, <1>4, KeepConsume, KeepCrash, KeepPowerFailure, KeepOpen
    DEF Next

\* The invariant holds in every reachable state.
LEMMA MessagesInvariant ==
  ASSUME TornTails # "any"
  PROVE  Spec => [](TInv /\ SInv)
  <1>1. TInv /\ SInv /\ [Next]_vars => (TInv /\ SInv)'
    BY TypeNext, MessagesNext
  <1> QED
    BY <1>1, TypeInit, MessagesInit, PTL DEF Spec

\* A send that returned success survives every rotation, upload, reap, crash,
\* power failure and restart: with an archive for ever, without one until every
\* group there is has committed past it (wait_for_fsync, upload_segment,
\* maybe_reap).  This is where no write is cut within the first frame of a
\* file.  Not covered are two kinds of message the code loses: without an
\* archive one that a lower offset was written behind (Misplaced), and one whose
\* write failed or came too late behind its append (astray).
THEOREM AckedDoSurvive ==
  ASSUME TornTails # "any"
  PROVE  Spec => []AckedSurvives
  <1>1. ASSUME TInv, SInv PROVE AckedSurvives
    <2> SUFFICES ASSUME NEW p \in Acked
                 PROVE  \/ Durable(p) \/ (~archiving /\ Released(p))
                        \/ Misplaced(p) \/ p \in astray
      BY DEF AckedSurvives
    <2>0. p \in Sender /\ (Kept(p) \/ p \in astray) /\ FrameOf(p) # Torn
      <3>1. p \in Sender /\ (Kept(p) \/ p \in astray)
        BY <1>1 DEF Acked, SInv, SendsOK
      <3>2. FrameOf(p) \in Message
        BY <1>1, <3>1 DEF FrameOf, Message, TInv, SendTypes
      <3> QED
        BY <3>1, <3>2, FrameKinds
    <2> DEFINE id == seg[p]
    <2>1. ASSUME NEW s \in Seq(Frame), Clean(s), NEW i \in 1..Len(s), s[i] = FrameOf(p)
          PROVE  FrameOf(p) \in Range(Whole(s))
      <3>1. i \in 1..Len(Whole(s)) /\ Whole(s)[i] = s[i]
        BY <2>0, <2>1, CleanWhole
      <3>2. DOMAIN Whole(s) = 1..Len(Whole(s))
        <4>1. Whole(s) \in Seq(Message)
          BY WholeIs
        <4> QED
          BY <4>1
      <3> QED
        BY <2>1, <3>1, <3>2 DEF Range
    <2>2. CASE id \in DOMAIN segment /\ In(FrameOf(p), segment[id], synced[id])
      <3> DEFINE s == segment[id]
                 n == synced[id]
                 r == SubSeq(s, 1, n)
      <3>1. s \in Seq(Frame) /\ Clean(s) /\ n \in 0..Len(s) /\ Len(s) \in Nat
        BY <1>1, <2>2 DEF TInv, DiskTypes, SInv, FilesOK
      <3>2. PICK i \in 1..n : s[i] = FrameOf(p)
        BY <2>2 DEF In
      <3> HIDE DEF s, n
      <3>3. r \in Seq(Frame) /\ Len(r) = n /\ \A j \in 1..n : r[j] = s[j]
        BY <3>1
      <3> HIDE DEF r
      <3>4. ASSUME NEW j \in 1..n
            PROVE  r[j] = Torn => j = n /\ j > 1
        <4>1. j \in 1..Len(s)
          BY <3>1
        <4>2. s[j] = Torn => j = Len(s) /\ j > 1
          BY <3>1, <4>1 DEF Clean
        <4> QED
          BY <3>1, <3>3, <4>2
      <3>5. Clean(r)
        BY <3>3, <3>4 DEF Clean
      <3>6. FrameOf(p) \in Range(Whole(r))
        BY <2>1, <3>2, <3>3, <3>5
      <3> QED
        BY <2>2, <3>6 DEF Durable, r, s, n
    <2>3. CASE id \in DOMAIN archive /\ In(FrameOf(p), archive[id], Len(archive[id]))
      <3>1. archive[id] \in Seq(Frame) /\ Clean(archive[id])
        BY <1>1, <2>3 DEF TInv, DiskTypes, SInv, FilesOK
      <3>2. FrameOf(p) \in Range(Whole(archive[id]))
        BY <2>1, <2>3, <3>1 DEF In
      <3> QED
        BY <2>3, <3>2 DEF Durable
    <2> QED
      BY <2>0, <2>2, <2>3 DEF Kept
  <1> QED
    BY <1>1, MessagesInvariant, PTL

\* An open client has in memory every acknowledged message that a group has
\* still to commit, however often it was restarted (replay_partition, where the
\* last frame of an offset wins), where no write is cut within the first frame
\* of a file.  Not covered are a group that came when all others were past the
\* message, and the Misplaced and astray messages the code loses.
THEOREM RecoveryIsComplete ==
  ASSUME TornTails # "any"
  PROVE  Spec => []RecoveredComplete
  <1>1. TInv /\ SInv => RecoveredComplete
    BY DEF SInv, SendsOK, RecoveredComplete, InMemory
  <1> QED
    BY <1>1, MessagesInvariant, PTL

\* No restart and no send numbers a message at or below what was committed, or
\* what was acknowledged and is neither Misplaced nor astray (set_next_offset
\* behind the frames and the commits), where no write is cut within the first
\* frame of a file.
THEOREM NextIsAbove ==
  ASSUME TornTails # "any"
  PROVE  Spec => []NextAboveProgress
  <1>1. ASSUME TInv, SInv PROVE NextAboveProgress
    <2>1. \A g \in registered : g \in Group
      BY <1>1 DEF TInv, GroupTypes
    <2> QED
      BY <1>1, <2>1 DEF SInv, OffsetsApart, Exempt, ProgressOK, NextAboveProgress
  <1> QED
    BY <1>1, MessagesInvariant, PTL

----------------------------------------------------------------------------
(* Appends that wait *)

\* A write that is still to be done holds the lock its append took: the send
\* has not gone on and its segment is the active one.
Waits ==
  /\ astray = {}
  /\ \A p \in queued : pc[p] = "appended" /\ seg[p] = active

\* Every step keeps it, if appends wait and no write fails.
LEMMA WaitsNext ==
  ASSUME AppendWaits, ~WritesMayFail, TInv, SInv, Waits, [Next]_vars
  PROVE  Waits'
  <1> USE DEF Waits
  <1>0. /\ pc \in [Sender -> {"new", "reserved", "appended", "waiting",
                              "acked", "failed", "lost"}]
        /\ seg \in [Sender -> 0..MaxSegment] /\ queued \subseteq Sender
        /\ batch \subseteq Sender /\ \A p \in batch : pc[p] = "waiting"
    BY DEF TInv, SendTypes, SInv, SendsOK
  <1>1. ASSUME NEW p \in Sender, Send(p) PROVE Waits'
    BY <1>0, <1>1 DEF Send, Step, history
  <1>2. ASSUME NEW p \in Sender, NEW fits, AppendFrame(p, fits) PROVE Waits'
    <2>1. queued' = {p}
      BY <1>2 DEF AppendFrame, LockFree
    <2> QED
      BY <1>0, <1>2, <2>1 DEF AppendFrame, Step, history
  <1>3. ASSUME NEW p \in Sender, NEW opened, NEW fits, AppendFails(p, opened, fits)
        PROVE  Waits'
    BY <1>3 DEF AppendFails, LockFree, history
  <1>4. ASSUME NEW p \in Sender, AppendSyncFails(p) \/ Enqueue(p) PROVE Waits'
    <2>1. /\ p \notin queued /\ UNCHANGED <<seg, active, queued, history>>
          /\ \A q \in Sender : q # p => pc'[q] = pc[q]
      BY <1>0, <1>4 DEF AppendSyncFails, Enqueue, Step
    <2> QED
      BY <1>0, <2>1 DEF history
  <1>5. ASSUME NEW p \in Sender, WriteStep(p) PROVE Waits'
    <2>1. WriteLands(p)
      BY <1>5 DEF WriteStep, WriteFails
    <2>2. p \in queued /\ up
      BY <2>1 DEF WriteLands, TInv, SendTypes
    <2>3. seg[p] \in DOMAIN segment /\ seg[p] \notin uploaded
      <3>1. PICK t \in DOMAIN segment : Top(t)
        BY DEF SInv
      <3>2. seg[p] = t /\ t \in Nat /\ uploaded \subseteq DOMAIN archive
        BY <2>2, <3>1 DEF Top, TInv, DiskTypes
      <3> QED
        BY <3>1, <3>2 DEF Top
    <2> QED
      BY <1>0, <2>1, <2>3 DEF WriteLands, writer
  <1>6. CASE Drain
    <2>1. ASSUME NEW id, DrainSync(id) PROVE Waits'
      <3>1. /\ queued \cap batch = {} /\ astray' = astray
            /\ \A p \in queued : pc'[p] = pc[p]
        BY <1>0, <2>1 DEF DrainSync, Answer
      <3> QED
        BY <2>1, <3>1 DEF DrainSync, writer
    <2>2. ASSUME NEW id, DrainFails(id) PROVE Waits'
      <3>1. \A p \in queued : pc'[p] = pc[p]
        BY <1>0, <2>2 DEF DrainFails, Answer
      <3> QED
        BY <2>2, <3>1 DEF DrainFails, writer, history
    <2>3. CASE DrainTake
      BY <2>3 DEF DrainTake, sends, writer, history
    <2> QED
      BY <1>6, <2>1, <2>2, <2>3 DEF Drain
  <1>7. ASSUME NEW g \in Group, Consume(g) PROVE Waits'
    BY <1>7 DEF Consume, Subscribe, Poll, Ack, sends, writer, history
  <1>8. CASE Background
    BY <1>8 DEF Background, ReapScan, Reap, Upload, sends, writer, history
  <1>9. ASSUME Ends PROVE Waits'
    BY <1>9 DEF Ends, history
  <1>10. CASE Open
    <2>1. queued = {}
      BY <1>10 DEF Open, TInv, SendTypes
    <2> QED
      BY <1>10, <2>1 DEF Open, sends
  <1>11. CASE UNCHANGED vars
    BY <1>11 DEF vars, sends, writer, history
  <1>12. CASE Next
    <2>1. ASSUME NEW p \in Sender, SendStep(p) PROVE Waits'
      BY <1>2, <1>3, <1>4, <2>1 DEF SendStep
    <2>2. (\E cut \in SUBSET Writing : Crash(cut)) \/ PowerFailure => Ends
      BY DEF Crash, PowerFailure
    <2> QED
      BY <1>1, <1>5, <1>6, <1>7, <1>8, <1>9, <1>10, <1>12, <2>1, <2>2 DEF Next
  <1> QED
    BY <1>11, <1>12

\* Where an append waits for its write, as the server's adapter does
\* (FactoryQueueFs::append), and no write fails behind it, no message is astray:
\* what was acknowledged is durable, or was let go by every group, or is one
\* that a lower offset was written behind without an archive.
THEOREM WaitingSendsSurvive ==
  ASSUME AppendWaits, ~WritesMayFail, TornTails # "any"
  PROVE  Spec => [](AckedSurvives /\ astray = {})
  <1>1. Init => Waits
    BY DEF Init, Waits
  <1>2. TInv /\ SInv /\ Waits /\ [Next]_vars => Waits'
    BY WaitsNext
  <1>3. Waits => astray = {}
    BY DEF Waits
  <1> QED
    BY <1>1, <1>2, <1>3, MessagesInvariant, AckedDoSurvive, PTL DEF Spec
============================================================================
