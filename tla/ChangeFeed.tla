----------------------------- MODULE ChangeFeed -----------------------------
(***************************************************************************)
(* A change-feed read running beside the canonical WAL: read_changes_since *)
(* (src/services/record_store.rs) over read_entries_since                  *)
(* (src/services/canonical_wal.rs).                                        *)
(*                                                                         *)
(* The reader holds no lock.  It checks that the history it wants is       *)
(* retained, then reads the segment list and the files between two loads   *)
(* of the rotation generation and starts over when they differ; after      *)
(* MaxRetries rounds it reads once under the append lock.  Every load and  *)
(* every file read is a step of its own.                                   *)
(***************************************************************************)
EXTENDS CanonicalWal

CONSTANT MaxRetries   \* MAX_ROTATION_RETRIES
ASSUME RetryAssumption == MaxRetries \in Nat

VARIABLES
  rpc,         \* where the reader is
  query,       \* the read's arguments: [coll, since]
  attempt,     \* rounds started
  generation,  \* the rotation generation this round started on
  files,       \* listed segments this round still has to read, by first_seq
  read_active, \* whether this round reads the active file
  out,         \* chunks of entries read so far, one per file
  failed,      \* a file read of this round failed
  expected     \* history: acknowledged rows the read must account for

readerVars == <<rpc, query, attempt, generation, files, read_active, out,
                failed, expected>>
feedVars == <<walVars, readerVars>>

Idle == [coll |-> NoColl, since |-> 0]

----------------------------------------------------------------------------
\* SegmentSummary::may_contain
MayContain(es) ==
  \E e \in es : e.op.coll = query.coll /\ e.seq > query.since

After(es) == {e \in es : e.seq > query.since}

\* The rows of the read: entries of its collection.
Rows(chunks) ==
  {e \in UNION {chunks[i] : i \in DOMAIN chunks} : e.op.coll = query.coll}

Listed == {s.first : s \in {t \in sealed : MayContain(t.entries)}}

\* read_active_file: trims a whole section, stops at a torn frame, and fails
\* on anything else that is not a frame.
ActiveReadable == tail \in {"clean", "torn", "section"}

----------------------------------------------------------------------------
\* ensure_history_retained, before anything else is read.
FeedStart(c, since) ==
  /\ up /\ rpc = "idle"
  /\ query' = [coll |-> c, since |-> since]
  /\ expected' = {e \in acked : e.op.coll = c /\ e.seq > since}
  /\ rpc' = IF retained_from > since + 1 THEN "gone" ELSE "retained"
  /\ UNCHANGED <<walVars, attempt, generation, files, read_active, out, failed>>

\* change_feed_is_empty: the high-water fast path.
FeedFastPath ==
  /\ up /\ rpc = "retained"
  /\ rpc' = IF collection_max[query.coll] =< query.since THEN "done" ELSE "poll"
  /\ UNCHANGED <<walVars, query, attempt, generation, files, read_active, out,
                 failed, expected>>

\* Load the generation; an odd one costs a round.
FeedPoll ==
  /\ up /\ rpc = "poll"
  /\ attempt < MaxRetries
  /\ IF rotations % 2 = 1
     THEN attempt' = attempt + 1 /\ UNCHANGED <<rpc, generation>>
     ELSE generation' = rotations /\ rpc' = "list" /\ UNCHANGED attempt
  /\ UNCHANGED <<walVars, query, files, read_active, out, failed, expected>>

FeedList ==
  /\ up /\ rpc = "list"
  /\ files' = Listed
  /\ rpc' = "flag"
  /\ UNCHANGED <<walVars, query, attempt, generation, read_active, out, failed,
                 expected>>

FeedFlagActive ==
  /\ up /\ rpc = "flag"
  /\ read_active' = MayContain(active_summary)
  /\ rpc' = "read"
  /\ UNCHANGED <<walVars, query, attempt, generation, files, out, failed,
                 expected>>

\* read_sealed_segment of the oldest listed file; a missing or undecodable
\* file fails the round.
FeedReadSegment ==
  /\ up /\ rpc = "read" /\ ~failed
  /\ files # {}
  /\ LET first == Min(files)
         there == {g \in segments : g.first = first /\ g.good}
     IN /\ failed' = (there = {})
        /\ out' = IF there = {} THEN out
                  ELSE Append(out, After(UNION {g.entries : g \in there}))
        /\ files' = files \ {first}
  /\ UNCHANGED <<walVars, rpc, query, attempt, generation, read_active, expected>>

FeedReadActive ==
  /\ up /\ rpc = "read" /\ ~failed
  /\ files = {} /\ read_active
  /\ failed' = ~ActiveReadable
  /\ out' = IF ActiveReadable THEN Append(out, After(active)) ELSE out
  /\ read_active' = FALSE
  /\ UNCHANGED <<walVars, rpc, query, attempt, generation, files, expected>>

\* Mutant of SameGeneration: the second load is left out.
AnyGeneration == TRUE

SameGeneration == rotations = generation

\* Mutant of FeedRetry: what the round read is kept.
FeedRetryKeeping ==
  rpc' = "poll" /\ attempt' = attempt + 1 /\ failed' = FALSE /\ UNCHANGED out

\* The round is thrown away.
FeedRetry ==
  rpc' = "poll" /\ attempt' = attempt + 1 /\ failed' = FALSE /\ out' = <<>>

\* The second load of the generation decides whether the round counts.
FeedRecheck ==
  /\ up /\ rpc = "read"
  /\ failed \/ (files = {} /\ ~read_active)
  /\ IF SameGeneration
     THEN /\ rpc' = IF failed THEN "error" ELSE "done"
          /\ UNCHANGED <<attempt, out, failed>>
     ELSE FeedRetry
  /\ files' = {} /\ read_active' = FALSE
  /\ UNCHANGED <<walVars, query, generation, expected>>

\* Mutant of OutOfRounds: off by one, the guard never comes into play.
BeyondRounds == attempt > MaxRetries

OutOfRounds == attempt = MaxRetries

\* The starvation guard: one read under the append lock, which no rotation,
\* truncation or append can overlap.
FeedReadLocked ==
  /\ up /\ rpc = "poll"
  /\ OutOfRounds
  /\ pc = "idle"
  /\ LET there == {g \in segments : g.first \in Listed}
         fromActive == MayContain(active_summary)
         ok == /\ \A n \in Listed : \E g \in there : g.first = n /\ g.good
               /\ fromActive => ActiveReadable
     IN /\ rpc' = IF ok THEN "done" ELSE "error"
        /\ out' = <<After(UNION {g.entries : g \in there}),
                    IF fromActive THEN After(active) ELSE {}>>
  /\ UNCHANGED <<walVars, query, attempt, generation, files, read_active,
                 failed, expected>>

ReaderReset ==
  /\ rpc' = "idle" /\ query' = Idle /\ attempt' = 0 /\ generation' = 0
  /\ files' = {} /\ read_active' = FALSE /\ out' = <<>> /\ failed' = FALSE
  /\ expected' = {}

\* The caller takes the answer.
FeedReturn ==
  /\ rpc \in {"gone", "done", "error"}
  /\ ReaderReset
  /\ UNCHANGED walVars

----------------------------------------------------------------------------
FeedInit ==
  /\ Init
  /\ rpc = "idle" /\ query = Idle /\ attempt = 0 /\ generation = 0
  /\ files = {} /\ read_active = FALSE /\ out = <<>> /\ failed = FALSE
  /\ expected = {}

ReaderStep ==
  \/ FeedFastPath \/ FeedPoll \/ FeedList \/ FeedFlagActive
  \/ FeedReadSegment \/ FeedReadActive \/ FeedRecheck \/ FeedReadLocked
  \/ FeedReturn

\* The WAL's own steps; a crash ends the reader too.
FeedNext ==
  \/ \E c \in Coll, since \in 0..MaxSeq : FeedStart(c, since)
  \/ ReaderStep
  \/ (CallStep \/ LockHolderStep \/ OpenStep) /\ UNCHANGED readerVars
  \/ CrashStep /\ ReaderReset

FeedSpec == FeedInit /\ [][FeedNext]_feedVars

\* The runtime keeps scheduling a started read and whoever holds the append
\* lock; the lock is fair, so a waiting reader gets it.
FeedFairSpec ==
  /\ FeedSpec
  /\ WF_feedVars(ReaderStep)
  /\ SF_feedVars(FeedReadLocked)
  /\ WF_feedVars(LockHolderStep /\ UNCHANGED readerVars)

----------------------------------------------------------------------------
(* Properties *)

\* A read that answers returns every row acknowledged before it began that was
\* not truncated meanwhile: no rotation may hide rows on their way from the
\* active file into a segment (the seqlock of read_entries_since).
FeedComplete ==
  rpc = "done" => \A e \in expected : e.seq >= retained_from => e \in Rows(out)

\* No row is delivered twice: a rotation between listing and reading must not
\* show a row both in its new segment and in the active file.
FeedNoDuplicates ==
  rpc = "done" => \A i, j \in DOMAIN out : i # j => out[i] \cap out[j] = {}

\* A segment deleted by a truncation during the read is retried, not reported:
\* with undamaged files a read never fails.
FeedNeverFails == rpc # "error"

\* A started read ends, even under a storm of rotations: bounded rounds, then
\* one under the append lock.
FeedTerminates == (rpc # "idle") ~> (rpc = "idle")
=============================================================================
