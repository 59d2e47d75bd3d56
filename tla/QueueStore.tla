----------------------------- MODULE QueueStore -----------------------------
(***************************************************************************)
(* One partition of the queue: producer.rs, disk_tier.rs, group_commit.rs, *)
(* memory_tier.rs, object_tier.rs, reaper.rs and recovery.rs of            *)
(* proximadb-queue, in the strict mode the server uses by default.         *)
(*                                                                         *)
(* A send reserves an offset, appends a frame to the active segment file,  *)
(* makes the message visible in memory and then waits for the              *)
(* group-commit task to sync the file.  Sealed segments are copied to an   *)
(* archive and deleted once every consumer group has committed past them.  *)
(* A restart replays what is left of the segments.                         *)
(*                                                                         *)
(* Each sender sends one message, which bears its name.  A consumer group  *)
(* is its committed offset and its cursor; QueueLease has the protocol     *)
(* that moves them.                                                        *)
(*                                                                         *)
(* An append of fs.rs hands its bytes to a thread and does not wait for    *)
(* the write, whose error nobody sees.  The server's adapter waits, and    *)
(* does not see the error either.  Syncs return when what is in the file   *)
(* is durable.                                                             *)
(***************************************************************************)
EXTENDS Integers, Sequences, FiniteSets, FiniteSetsExt, Functions, SequencesExt

CONSTANTS
  Sender,       \* senders; also the messages
  Group,        \* consumer groups
  Torn,         \* the bytes a write leaves behind when it is cut short
  Capacities,   \* the values memory_capacity may have
  MaxBatch,     \* group_commit_max_batch
  ArchiveModes, \* the values object_archive may have: set or not
  PollSizes,    \* the max a consumer passes to poll
  TornTails,    \* where a write may be cut: "never", "behind_frame", "any"
  AppendWaits,  \* an append waits for its write: the server's adapter does
  WritesMayFail,\* a write may fail after its append has returned
  MaxFails,     \* bound: appends, writes and syncs that fail
  MaxCrashes    \* bound: ends of the process

ASSUME BoundsAssumption ==
  /\ Capacities \subseteq Nat \ {0} /\ MaxBatch \in Nat \ {0}
  /\ MaxFails \in Nat /\ MaxCrashes \in Nat
ASSUME ModeAssumption ==
  /\ ArchiveModes \subseteq BOOLEAN /\ PollSizes \subseteq Nat \ {0}
  /\ TornTails \in {"never", "behind_frame", "any"}
  /\ AppendWaits \in BOOLEAN /\ WritesMayFail \in BOOLEAN
ASSUME SenderAssumption == IsFiniteSet(Sender)

VARIABLES
  segment,      \* disk: segment files by id, each a sequence of frames
  synced,       \* disk: how many leading frames of a segment are durable
  archive,      \* archive: segment copies by id
  uploaded,     \* disk: ids that have an .uploaded marker
  registered,   \* disk: groups that have a directory
  committed,    \* disk: committed offset per group, -1 when it has none
  archiving,    \* config: object_archive is set; no step changes it
  capacity,     \* config: memory_capacity; no step changes it
  up,           \* the client is open
  next_offset,  \* PartitionDiskWriter.next_offset
  active,       \* active_segment_id
  size,         \* active_segment_size, in frames
  memory,       \* RetainedBuf.entries: messages by offset
  pc,           \* step of every send
  off,          \* its offset
  seg,          \* the segment its frame goes to
  queued,       \* sends whose write a thread has still to do
  pending,      \* the group-commit queue, senders in order
  batch,        \* the senders the drain task has taken out of it
  scan,         \* what the reaper's scan read: active id, least commit
  cursor,       \* per group: next_read_offset of its consumer, -1 for none
  out,          \* per group: offsets delivered and not committed
  fails,        \* failed appends, writes and syncs so far
  crashes,      \* ends of the process so far
  exposed,      \* history: offsets a lower one was written behind in the file
  released,     \* history: the highest least commit a scan or a replay acted on
  astray        \* history: sends whose write failed, or came behind the sync
                \*   they were acknowledged for, the upload or the deletion

disk == <<segment, synced, archive, uploaded>>
progress == <<archiving, capacity, registered, committed>>
writer == <<next_offset, active, size, memory>>
sends == <<pc, off, seg, queued>>
sync == <<pending, batch>>
reading == <<cursor, out>>
bounds == <<fails, crashes>>
history == <<exposed, released, astray>>
vars == <<disk, progress, up, writer, sends, sync, scan, reading, bounds,
          history>>

\* No group's commit is known.
NoCommit == -1
NoScan == [active |-> 0, commit |-> NoCommit]

MaxSegment == Cardinality(Sender) + MaxCrashes
Offset == 0..(Cardinality(Sender) - 1)
Frame == [off : Offset, msg : Sender] \cup {Torn}

ASSUME TornAssumption == Torn \notin [off : Offset, msg : Sender]

----------------------------------------------------------------------------
(* Reading segments *)

\* The frames a reader gets out of a file: it stops at the first torn one.
Whole(s) ==
  SubSeq(s, 1, Min({Len(s) + 1} \cup {i \in DOMAIN s : s[i] = Torn}) - 1)

\* last_offset_in_segment: the offset of the last frame, -1 for none
LastOffset(s) == IF Whole(s) = <<>> THEN -1 ELSE Last(Whole(s)).off

\* Mutant of LeastCommit: groups that never committed do not count.
LeastOfCommitted ==
  LET C == {committed[g] : g \in {h \in registered : committed[h] >= 0}}
  IN IF C = {} THEN NoCommit ELSE Min(C)

\* The least committed offset; a group without one, or no group, is none.
LeastCommit ==
  IF registered = {} THEN NoCommit ELSE Min({committed[g] : g \in registered})

\* For the history: what every group there is has committed, -1 for nothing
PassedByAll ==
  IF registered = {} THEN NoCommit ELSE Min({committed[g] : g \in registered})

Sealed(id) == id \in DOMAIN segment /\ id < active

FrameOf(p) == [off |-> off[p], msg |-> p]

----------------------------------------------------------------------------
(* Producer::send *)

\* depth_pct() >= HARD_PCT
HardPressure == Cardinality(DOMAIN memory) * 100 >= 95 * capacity

Step(p, l) == pc' = [pc EXCEPT ![p] = l]

\* The hard-pressure check, then append reserves the offset before it has the
\* writer's lock.  Others may pass the check before this message is in memory.
Send(p) ==
  /\ up /\ pc[p] = "new"
  /\ IF HardPressure
     THEN Step(p, "failed") /\ UNCHANGED <<off, next_offset>>
     ELSE /\ off' = [off EXCEPT ![p] = next_offset]
          /\ next_offset' = next_offset + 1
          /\ Step(p, "reserved")
  /\ UNCHANGED <<disk, progress, up, active, size, memory, seg, queued, sync,
                 scan, reading, bounds, history>>

\* The segment the next frame goes to.  One that has frames is sealed when the
\* next does not fit, which is a matter of their lengths.
TargetSegment(fits) == IF size > 0 /\ ~fits THEN active + 1 ELSE active

\* These files, the ones that are not there created
FilesWith(ids) ==
  [id \in ids |-> IF id \in DOMAIN segment THEN segment[id] ELSE <<>>]

\* How much of them is synced: nothing of a new one
SyncedWith(ids) ==
  [id \in ids |-> IF id \in DOMAIN synced THEN synced[id] ELSE 0]

\* The writer's lock is free: an append that waits keeps it until its write is
\* done.
LockFree == AppendWaits => queued = {}

\* The segment for a frame is opened, and is a new one if it does not fit.
OpenTarget(fits) ==
  /\ active' = TargetSegment(fits)
  /\ segment' = FilesWith(DOMAIN segment \cup {active'})
  /\ synced' = SyncedWith(DOMAIN segment')

\* The rest of append, under the lock: rotate if need be, hand out the write
\* of the frame, count it.
AppendFrame(p, fits) ==
  /\ pc[p] = "reserved" /\ LockFree
  /\ OpenTarget(fits)
  /\ size' = IF active' = active THEN size + 1 ELSE 1
  /\ seg' = [seg EXCEPT ![p] = active']
  /\ queued' = queued \cup {p}
  /\ Step(p, "appended")
  /\ UNCHANGED <<archive, uploaded, progress, up, next_offset, memory, off,
                 sync, scan, reading, bounds, history>>

\* An open fails: of the new segment's file, or of the segment behind that.
AppendFails(p, opened, fits) ==
  /\ pc[p] = "reserved" /\ LockFree
  /\ fails < MaxFails
  /\ IF opened
     THEN OpenTarget(fits) /\ size' = IF active' = active THEN size ELSE 0
     ELSE UNCHANGED <<segment, synced, active, size>>
  /\ fails' = fails + 1
  /\ Step(p, "failed")
  /\ UNCHANGED <<archive, uploaded, progress, up, next_offset, memory, off,
                 seg, queued, sync, scan, reading, crashes, history>>

\* The thread writes the frame behind what is in the file.  A file the reaper
\* has deleted takes the bytes with it.
WriteLands(p) ==
  LET there == seg[p] \in DOMAIN segment
  IN /\ p \in queued
     /\ queued' = queued \ {p}
     /\ segment' = IF there
                   THEN [segment EXCEPT ![seg[p]] = Append(@, FrameOf(p))]
                   ELSE segment
     /\ exposed' = exposed \cup
          {f.off : f \in {x \in Range(Whole(IF there THEN segment[seg[p]]
                                           ELSE <<>>)) : x.off > off[p]}}
     /\ astray' = IF there /\ seg[p] \notin uploaded THEN astray
                  ELSE astray \cup {p}
     /\ UNCHANGED <<synced, archive, uploaded, progress, up, writer, pc, off,
                    seg, sync, scan, reading, bounds, released>>

\* The write fails and may leave a part of the frame.  Its File is gone, and
\* the send goes on.
WriteFails(p, torn) ==
  /\ WritesMayFail /\ p \in queued
  /\ fails < MaxFails
  /\ torn => TornTails = "any" /\ seg[p] \in DOMAIN segment
  /\ queued' = queued \ {p}
  /\ segment' = IF torn THEN [segment EXCEPT ![seg[p]] = Append(@, Torn)]
                ELSE segment
  /\ astray' = astray \cup {p}
  /\ fails' = fails + 1
  /\ UNCHANGED <<synced, archive, uploaded, progress, up, writer, pc, off, seg,
                 sync, scan, reading, crashes, exposed, released>>

\* The adapter's append syncs the file too.  When that fails the send does,
\* and its frame is in the file and not counted.
AppendSyncFails(p) ==
  /\ pc[p] = "appended" /\ p \notin queued
  /\ fails < MaxFails
  /\ size' = IF seg[p] = active THEN size - 1 ELSE size
  /\ fails' = fails + 1
  /\ Step(p, "failed")
  /\ UNCHANGED <<disk, progress, up, next_offset, active, memory, off, seg,
                 queued, sync, scan, reading, crashes, history>>

\* Mutant of MemoryFull: one entry too many is let in.
MemoryOverfull == Cardinality(DOMAIN memory) > capacity

MemoryFull == Cardinality(DOMAIN memory) >= capacity

\* enqueue_with_offset, then the registration in wait_for_fsync.  When memory
\* is full the send is refused and its frame stays in the segment.
Enqueue(p) ==
  /\ pc[p] = "appended"
  /\ AppendWaits => p \notin queued
  /\ IF MemoryFull
     THEN Step(p, "failed") /\ UNCHANGED <<memory, pending>>
     ELSE /\ memory' = [o \in DOMAIN memory \cup {off[p]} |->
                          IF o = off[p] THEN p ELSE memory[o]]
          /\ pending' = Append(pending, p)
          /\ Step(p, "waiting")
  /\ UNCHANGED <<disk, progress, up, next_offset, active, size, off, seg,
                 queued, batch, scan, reading, bounds, history>>

----------------------------------------------------------------------------
(* GroupCommitCoordinator: the drain task *)

\* Take the oldest waiters.
DrainTake ==
  LET n == Min({Len(pending), MaxBatch})
  IN /\ up /\ batch = {} /\ pending # <<>>
     /\ batch' = ToSet(SubSeq(pending, 1, n))
     /\ pending' = SubSeq(pending, n + 1, Len(pending))
     /\ UNCHANGED <<disk, progress, up, writer, sends, scan, reading,
                    bounds, history>>

\* Answer the waiters of one segment.
Answer(id, reply) ==
  LET served == {p \in batch : seg[p] = id}
  IN /\ served # {}
     /\ pc' = [p \in Sender |-> IF p \in served THEN reply ELSE pc[p]]
     /\ batch' = batch \ served

\* Mutant of SyncedBy: the active segment is synced whatever was asked for.
SyncedActive(id) == [synced EXCEPT ![active] = Len(segment[active])]

\* All that is in the file when it is synced becomes durable.
SyncedBy(id) == [synced EXCEPT ![id] = Len(segment[id])]

\* One sync for every segment of the batch.  It does not know of writes that
\* are still to be done.
DrainSync(id) ==
  /\ up /\ id \in DOMAIN segment
  /\ Answer(id, "acked")
  /\ synced' = SyncedBy(id)
  /\ astray' = astray \cup (queued \cap (batch \ batch'))
  /\ UNCHANGED <<segment, archive, uploaded, progress, up, writer, off, seg,
                 queued, pending, scan, reading, bounds, exposed, released>>

\* The sync fails, as it does when the reaper has deleted the file.
DrainFails(id) ==
  /\ up
  /\ id \in DOMAIN segment => fails < MaxFails
  /\ Answer(id, "failed")
  /\ fails' = IF id \in DOMAIN segment THEN fails + 1 ELSE fails
  /\ UNCHANGED <<disk, progress, up, writer, off, seg, queued, pending, scan,
                 reading, crashes, history>>

----------------------------------------------------------------------------
(* Consumers *)

\* A consumer of the group: its lease registers the group, and it resumes
\* behind the committed offset.
Subscribe(g) ==
  /\ up /\ cursor[g] = -1
  /\ registered' = registered \cup {g}
  /\ cursor' = [cursor EXCEPT ![g] = committed[g] + 1]
  /\ UNCHANGED <<disk, archiving, capacity, committed, up, writer, sends,
                 sync, scan, out, bounds, history>>

\* read_from(cursor, max): from the first entry at or behind the cursor, the
\* offsets that follow one another.
ReadFrom(c, max) ==
  LET behind == {o \in DOMAIN memory : o >= c}
  IN {o \in behind : /\ o < Min(behind) + max
                     /\ Min(behind)..o \subseteq behind}

Poll(g, max) ==
  LET read == ReadFrom(cursor[g], max)
  IN /\ up /\ cursor[g] >= 0 /\ read # {}
     /\ out' = [out EXCEPT ![g] = @ \cup read]
     /\ cursor' = [cursor EXCEPT ![g] = Max(read) + 1]
     /\ UNCHANGED <<disk, progress, up, writer, sends, sync, scan,
                    bounds, history>>

\* ack of the deliveries up to an offset
Ack(g, o) ==
  /\ up /\ o \in out[g]
  /\ committed' = [committed EXCEPT ![g] = o]
  /\ out' = [out EXCEPT ![g] = {x \in @ : x > o}]
  /\ UNCHANGED <<disk, archiving, capacity, registered, up, writer, sends,
                 sync, scan, cursor, bounds, history>>

----------------------------------------------------------------------------
(* ObjectTierUploader and Reaper *)

\* upload_segment: the sealed bytes become the archive's copy, and then the
\* marker is written.  Without the marker a later scan copies again.
Upload(id, marked) ==
  /\ up /\ archiving /\ Sealed(id)
  /\ id \notin uploaded
  /\ segment[id] # <<>>
  /\ archive' = [i \in DOMAIN archive \cup {id} |->
                   IF i = id THEN segment[id] ELSE archive[i]]
  /\ uploaded' = IF marked THEN uploaded \cup {id} ELSE uploaded
  /\ UNCHANGED <<segment, synced, progress, up, writer, sends, sync,
                 scan, reading, bounds, history>>

\* scan_once reads the active id and the groups' progress.  A scan that finds
\* nothing to delete changes nothing and is left out.
ReapScan ==
  /\ up
  /\ LeastCommit # NoCommit
  /\ \E id \in DOMAIN segment :
       Sealed(id) /\ LastOffset(segment[id]) =< LeastCommit
  /\ scan' = [active |-> active, commit |-> LeastCommit]
  /\ released' = Max({released, PassedByAll})
  /\ UNCHANGED <<disk, progress, up, writer, sends, sync, reading,
                 bounds, exposed, astray>>

\* maybe_reap: sealed, marked if there is an archive, and committed past.  A
\* segment without a whole frame goes too.
Reapable(id) ==
  /\ id \in DOMAIN segment /\ id < scan.active
  /\ archiving => id \in uploaded
  /\ scan.commit # NoCommit
  /\ LastOffset(segment[id]) =< scan.commit

\* The segment and its marker are deleted.
Reap(id) ==
  /\ up /\ Reapable(id)
  /\ segment' = Restrict(segment, DOMAIN segment \ {id})
  /\ synced' = Restrict(synced, DOMAIN synced \ {id})
  /\ uploaded' = uploaded \ {id}
  /\ UNCHANGED <<archive, progress, up, writer, sends, sync, scan,
                 reading, bounds, history>>

----------------------------------------------------------------------------
(* The process ends *)

\* Whether a segment of these frames may end in a torn one
MayTear(s) ==
  \/ TornTails = "any"
  \/ (TornTails = "behind_frame" /\ Whole(s) # <<>>)

\* Files a write is on its way to
Writing == {seg[p] : p \in queued}

\* What may be left of a file whose first n frames are durable, where more may
\* have been on its way
Remnants(s, n, more) ==
  LET cut == {SubSeq(s, 1, k) : k \in n..Len(s)}
      torn == {x \in cut : MayTear(x) /\ (more \/ x # s)}
  IN cut \cup {Append(c, Torn) : c \in torn}

Ends ==
  /\ up /\ crashes < MaxCrashes
  /\ up' = FALSE
  /\ crashes' = crashes + 1
  /\ pc' = [p \in Sender |-> IF pc[p] \in {"new", "acked", "failed"} THEN pc[p]
                             ELSE "lost"]
  /\ memory' = <<>> /\ pending' = <<>> /\ batch' = {} /\ queued' = {}
  /\ scan' = NoScan
  /\ cursor' = [g \in Group |-> -1]
  /\ out' = [g \in Group |-> {}]
  /\ UNCHANGED <<archive, uploaded, progress, next_offset, active, size, off,
                 seg, fails, history>>

\* A crash or a shutdown: what was written stays, writes on their way are done
\* before it or never, and some of these are cut.
Crash(cut) ==
  /\ Ends
  /\ cut \subseteq Writing \cap DOMAIN segment
  /\ \A id \in cut : MayTear(segment[id])
  /\ segment' = [id \in DOMAIN segment |->
                   IF id \in cut THEN Append(segment[id], Torn)
                   ELSE segment[id]]
  /\ UNCHANGED synced

\* A power failure: what was not synced may be gone, from the end of a file.
PowerFailure ==
  /\ Ends
  /\ LET left == [id \in DOMAIN segment |->
                     Remnants(segment[id], synced[id], id \in Writing)]
     IN \E f \in [DOMAIN segment -> UNION Range(left)] :
          /\ \A id \in DOMAIN segment : f[id] \in left[id]
          /\ segment' = f
  /\ synced' = [id \in DOMAIN segment |-> Len(segment'[id])]

----------------------------------------------------------------------------
(* QueueClient::open after a restart *)

\* Local copies are preferred, unless they are empty placeholders.
Readable(id) ==
  IF id \in DOMAIN segment /\ segment[id] # <<>> THEN Whole(segment[id])
  ELSE IF id \in DOMAIN archive THEN Whole(archive[id])
  ELSE <<>>

Stored == UNION {{id} \X (1..Len(Readable(id))) :
                   id \in DOMAIN segment \cup DOMAIN archive}
FrameAt(at) == Readable(at[1])[at[2]]

\* Replay order: by segment id, then by place in the file
Before(a, b) == a[1] < b[1] \/ (a[1] = b[1] /\ a[2] < b[2])

\* The frames some group has not committed
Replayed == {at \in Stored : FrameAt(at).off > LeastCommit}

\* Every enqueue finds the memory tier below its capacity.
Fits ==
  \A at \in Replayed :
    Cardinality({FrameAt(b).off : b \in {x \in Replayed : Before(x, at)}})
      < capacity

\* The last frame of an offset wins.
ReplayedMemory ==
  [o \in {FrameAt(at).off : at \in Replayed} |->
     LET here == {at \in Replayed : FrameAt(at).off = o}
     IN FrameAt(CHOOSE at \in here :
                  \A b \in here : b = at \/ Before(b, at)).msg]

\* Mutant of ResumeOffset: behind the frames, whatever the groups committed.
ResumeBehindFrames == Max({0} \cup {FrameAt(at).off + 1 : at \in Stored})

\* Behind every frame and every committed offset
ResumeOffset ==
  Max({0} \cup {FrameAt(at).off + 1 : at \in Stored}
          \cup {committed[g] + 1 : g \in registered})

\* advance_past_recovered_segment: never append to a segment that was replayed.
ResumeSegment ==
  LET highest == Max(DOMAIN segment)
      replayed == {at[1] : at \in Stored}
  IN IF replayed = {} \/ highest > Max(replayed) THEN highest
     ELSE Max(replayed) + 1

\* Open the writer and replay.  When memory is too small the client does not
\* open, however often that is tried.
Open ==
  /\ ~up /\ Fits
  /\ up' = TRUE
  /\ memory' = ReplayedMemory
  /\ next_offset' = ResumeOffset
  /\ active' = ResumeSegment
  /\ segment' = FilesWith(DOMAIN segment \cup {active'})
  /\ size' = Len(SelectSeq(segment'[active'], LAMBDA f : f # Torn))
  /\ synced' = SyncedWith(DOMAIN segment')
  /\ released' = Max({released, PassedByAll})
  /\ UNCHANGED <<archive, uploaded, progress, sends, sync, scan,
                 reading, bounds, exposed, astray>>

----------------------------------------------------------------------------
(* A partition opened for the first time *)
Init ==
  /\ segment = [id \in {0} |-> <<>>] /\ synced = [id \in {0} |-> 0]
  /\ archive = <<>> /\ uploaded = {} /\ archiving \in ArchiveModes
  /\ capacity \in Capacities
  /\ registered = {} /\ committed = [g \in Group |-> NoCommit]
  /\ up = TRUE /\ next_offset = 0 /\ active = 0 /\ size = 0
  /\ memory = <<>>
  /\ pc = [p \in Sender |-> "new"]
  /\ off = [p \in Sender |-> 0] /\ seg = [p \in Sender |-> 0]
  /\ queued = {} /\ pending = <<>> /\ batch = {}
  /\ scan = NoScan
  /\ cursor = [g \in Group |-> -1] /\ out = [g \in Group |-> {}]
  /\ fails = 0 /\ crashes = 0
  /\ exposed = {} /\ released = NoCommit /\ astray = {}

SendStep(p) ==
  \/ Enqueue(p) \/ AppendSyncFails(p)
  \/ \E fits \in BOOLEAN :
       \/ AppendFrame(p, fits)
       \/ \E opened \in BOOLEAN : AppendFails(p, opened, fits)

WriteStep(p) ==
  \/ WriteLands(p)
  \/ \E torn \in BOOLEAN : WriteFails(p, torn)

Drain == DrainTake \/ \E id \in 0..MaxSegment : DrainSync(id) \/ DrainFails(id)

Consume(g) ==
  \/ Subscribe(g)
  \/ \E max \in PollSizes : Poll(g, max)
  \/ \E o \in out[g] : Ack(g, o)

Background ==
  \/ ReapScan
  \/ \E id \in 0..MaxSegment :
       Reap(id) \/ \E marked \in BOOLEAN : Upload(id, marked)

Next ==
  \/ \E p \in Sender : Send(p) \/ SendStep(p) \/ WriteStep(p)
  \/ Drain
  \/ \E g \in Group : Consume(g)
  \/ Background
  \/ \E cut \in SUBSET Writing : Crash(cut)
  \/ PowerFailure
  \/ Open

Spec == Init /\ [][Next]_vars

----------------------------------------------------------------------------
(* Properties *)

\* Type invariant of the files, the writer, the sends and the scan.
StoreTypeOK ==
  /\ IsFiniteSet(DOMAIN segment) /\ DOMAIN segment \subseteq 0..MaxSegment
  /\ \A id \in DOMAIN segment : segment[id] \in Seq(Frame)
  /\ DOMAIN synced = DOMAIN segment
  /\ \A id \in DOMAIN segment : synced[id] \in 0..Len(segment[id])
  /\ DOMAIN archive \subseteq 0..MaxSegment
  /\ \A id \in DOMAIN archive : archive[id] \in Seq(Frame)
  /\ uploaded \subseteq DOMAIN archive
  /\ registered \subseteq Group
  /\ committed \in [Group -> Offset \cup {NoCommit}]
  /\ up \in BOOLEAN /\ next_offset \in 0..Cardinality(Sender)
  /\ up => active \in DOMAIN segment
  /\ DOMAIN memory \subseteq Offset /\ Range(memory) \subseteq Sender
  /\ Cardinality(DOMAIN memory) =< capacity
  /\ pc \in [Sender -> {"new", "reserved", "appended", "waiting",
                        "acked", "failed", "lost"}]
  /\ off \in [Sender -> Offset] /\ seg \in [Sender -> 0..MaxSegment]
  /\ pending \in Seq(Sender) /\ batch \subseteq Sender
  /\ queued \subseteq {p \in Sender : pc[p] \notin {"new", "reserved", "lost"}}
  /\ size \in Int /\ astray \subseteq Sender
  /\ cursor \in [Group -> Offset \cup {-1, Cardinality(Sender)}]
  /\ out \in [Group -> SUBSET Offset]

Acked == {p \in Sender : pc[p] = "acked"}
\* A copy of the message that no power failure takes and a replay can reach
Durable(p) ==
  \/ \E id \in DOMAIN segment :
       FrameOf(p) \in Range(Whole(SubSeq(segment[id], 1, synced[id])))
  \/ \E id \in DOMAIN archive : FrameOf(p) \in Range(Whole(archive[id]))

\* Every group there was had committed past the message when it was let go.
Released(p) == off[p] =< released

\* Frames of concurrent sends may lie in a segment in another order than their
\* offsets, and the reaper looks at the last one only.
Misplaced(p) == ~archiving /\ off[p] \in exposed

\* A send that returned success is durable, whatever was rotated, uploaded and
\* reaped since, and however often the process ended: with an archive for ever,
\* without one until every group has committed past it (wait_for_fsync,
\* upload_segment, maybe_reap).  Two kinds of message are not covered, because
\* the code loses them: without an archive one that a lower offset was written
\* behind in its segment (Misplaced), and one whose write failed behind the
\* append, or was done after the sync that acknowledged it or after its
\* segment was copied or deleted (astray).
AckedSurvives ==
  \A p \in Acked : \/ Durable(p) \/ (~archiving /\ Released(p))
                  \/ Misplaced(p) \/ p \in astray

\* What a group has still to commit is in memory when the client is open: no
\* restart leaves out an acknowledged message (replay_partition).  Not covered
\* are messages a group owes that came when all others were past it, and the
\* Misplaced and astray ones the code loses.
RecoveredComplete ==
  up => \A p \in Acked, g \in registered :
          off[p] > committed[g] =>
            \/ off[p] \in DOMAIN memory /\ memory[off[p]] = p
            \/ Released(p) \/ Misplaced(p) \/ p \in astray

\* The next message is numbered behind everything committed, and behind every
\* acknowledged message but the Misplaced and astray ones the code loses: no
\* restart makes an offset a group has passed, which it would never read
\* (set_next_offset).
NextAboveProgress ==
  up => /\ \A p \in Acked : \/ off[p] < next_offset
                            \/ Misplaced(p) \/ p \in astray
        /\ \A g \in registered : committed[g] < next_offset
============================================================================
