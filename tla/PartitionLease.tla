--------------------------- MODULE PartitionLease ---------------------------
(***************************************************************************)
(* The write lease of one collection: PartitionLeaseStore and              *)
(* PartitionLeaseManager of src/cluster/partition_lease.rs, the write gate *)
(* of src/api_handlers/record_ops_service.rs, the lease check of           *)
(* src/services/write_lease.rs and the token provider of                   *)
(* write_ahead_log/recovery_token.rs.                                      *)
(*                                                                         *)
(* The lease is a log of versions in an object store.  A claim reads the   *)
(* newest version, decides, and commits the next one with a create-only    *)
(* put; a lost put is settled by reading again.  Pods keep their identity  *)
(* over a restart.  Every WAL batch of a pod carries a token: the          *)
(* generation of the pod's incarnation, and a number.                      *)
(*                                                                         *)
(* All clocks agree.  A claim uses one reading of the clock, taken before  *)
(* it starts, to its end.                                                  *)
(***************************************************************************)
EXTENDS Integers, Sequences, FiniteSets, Functions

CONSTANTS
  Pod,          \* pods, by self_pod_id
  Caller,       \* the concurrent requests of a pod
  NoPod,        \* no binding
  Ttl,          \* lease_ms
  Stall,        \* bound: how long a call goes on with its clock reading
  MaxTime,      \* bound: the clock
  MaxVersion,   \* bound: versions in the lease log
  MaxTokens,    \* bound: different tokens
  MaxCalls,     \* bound: calls under way at one time
  MaxRestarts   \* bound: restarts of pods

ASSUME LeaseBounds ==
  /\ Ttl \in Nat \ {0} /\ Stall \in Nat /\ MaxTime \in Nat
  /\ MaxVersion \in Nat /\ MaxTokens \in Nat
  /\ MaxCalls \in Nat /\ MaxRestarts \in Nat
ASSUME NoPodAssumption == NoPod \notin Pod /\ "renew" \notin Caller

VARIABLES
  now,          \* the wall clock
  log,          \* the lease log: PartitionLease by version
  registry,     \* per pod: PrimaryPodRegistry's binding, or NoPod
  incarnation,  \* per pod: writer_incarnations, generation 0 for no entry
  token_state,  \* per pod: TokenState, epoch 0 for none
  call,         \* per task of a pod: where its claim is
  process,      \* per pod: how often it was restarted
  tokens        \* history: the tokens issued

vars == <<now, log, registry, incarnation, token_state, call, process, tokens>>
memory == <<registry, incarnation, token_state>>

Task == Pod \X (Caller \cup {"renew"})
PodOf(k) == k[1]

\* holder_pod, generation, expires_at_ms
Lease == [holder : Pod, gen : Nat, exp : Nat]
NoLease == [holder |-> NoPod, gen |-> 0, exp |-> 0]

\* What a claim is for
Goal == {"own", "begin", "recover", "check", "renew_binding",
         "renew_incarnation"}

\* Where it is: "won" and "refused" hold an outcome not yet acted upon.
Stage == {"idle", "read", "commit", "lost", "won", "refused", "granted"}

IdleCall == [stage |-> "idle", goal |-> "own", start |-> 0, parent |-> 0,
             lease |-> NoLease, retried |-> FALSE]
Granted == [IdleCall EXCEPT !.stage = "granted"]
NoIncarnation == [gen |-> 0, exp |-> 0]
NoToken == [epoch |-> 0, next |-> 0, exp |-> 0]

----------------------------------------------------------------------------
(* The lease log *)

Latest == IF log = <<>> THEN NoLease ELSE log[Len(log)]

Expired(lease, t) == t >= lease.exp

\* ClaimMode::AlwaysBump; every other claim is RenewOrTakeover.
AlwaysBump(goal) == goal \in {"begin", "recover"}

\* Mutant of NextGeneration: a takeover of a dead lease keeps its generation.
SameGeneration(lease, p, goal, t) ==
  IF lease = NoLease THEN 1
  ELSE IF AlwaysBump(goal) THEN lease.gen + 1 ELSE lease.gen

\* The generation a claim writes behind lease: only a live lease of this pod is
\* renewed in place.
NextGeneration(lease, p, goal, t) ==
  IF lease.holder = p /\ ~Expired(lease, t) /\ ~AlwaysBump(goal)
  THEN lease.gen ELSE lease.gen + 1

Moved(k, change) == call' = [call EXCEPT ![k] = change]

\* The same claim, one step on
At(c, stage, parent, lease) ==
  [stage |-> stage, goal |-> c.goal, start |-> c.start, parent |-> parent,
   lease |-> lease, retried |-> c.retried]

\* The outcome of a claim: LeaseOutcome::Acquired or HeldByOther
Ended(c, stage, lease) ==
  [stage |-> stage, goal |-> c.goal, start |-> c.start, parent |-> 0,
   lease |-> lease, retried |-> FALSE]

\* Mutant of HeldByOther: a key nobody leased yet counts as held.
HeldOrAbsent(lease, p, t) == lease = NoLease \/ (lease.holder # p /\ ~Expired(lease, t))

\* The lease is live, and another pod's.
HeldByOther(lease, p, t) ==
  lease # NoLease /\ lease.holder # p /\ ~Expired(lease, t)

\* read_key and the decision: a live lease of another pod ends the claim.
ClaimRead(k) ==
  LET c == call[k]
      p == PodOf(k)
  IN /\ c.stage = "read"
     /\ IF HeldByOther(Latest, p, c.start)
        THEN Moved(k, Ended(c, "refused", Latest))
        ELSE Moved(k, At(c, "commit", Len(log),
               [holder |-> p, exp |-> c.start + Ttl,
                gen |-> NextGeneration(Latest, p, c.goal, c.start)]))
     /\ UNCHANGED <<now, log, memory, process, tokens>>

\* Mutant of ClaimCommit: a lost put passes for a success.
ClaimCommitUnfenced(k) ==
  LET c == call[k]
  IN /\ c.stage = "commit"
     /\ Len(log) < MaxVersion
     /\ log' = IF c.parent = Len(log) THEN Append(log, c.lease) ELSE log
     /\ Moved(k, Ended(c, "won", c.lease))
     /\ UNCHANGED <<now, memory, process, tokens>>

\* commit_fenced: the put of the next version succeeds, or another did first.
ClaimCommit(k) ==
  LET c == call[k]
  IN /\ c.stage = "commit"
     /\ IF c.parent = Len(log)
        THEN /\ Len(log) < MaxVersion
             /\ log' = Append(log, c.lease)
             /\ Moved(k, Ended(c, "won", c.lease))
        ELSE /\ UNCHANGED log
             /\ Moved(k, At(c, "lost", 0, NoLease))
     /\ UNCHANGED <<now, memory, process, tokens>>

\* Mutant of Adoptable: whoever won the race is adopted.
AnyAdoptable(lease, p, t) == ~Expired(lease, t)

\* resolve_incarnation_conflict, Adopted: a live lease of this pod
Adoptable(lease, p, t) == lease.holder = p /\ ~Expired(lease, t)

\* The conflict's second read: adopt, retry once behind a dead winner, or give
\* up.
ClaimResolve(k) ==
  LET c == call[k]
  IN /\ c.stage = "lost"
     /\ Moved(k,
          IF Adoptable(Latest, PodOf(k), c.start)
          THEN Ended(c, "won", Latest)
          ELSE IF Expired(Latest, c.start) /\ ~c.retried
          THEN [c EXCEPT !.stage = "read", !.retried = TRUE]
          ELSE Ended(c, "refused", Latest))
     /\ UNCHANGED <<now, log, memory, process, tokens>>

----------------------------------------------------------------------------
(* What a finished claim changes in the pod *)

\* The next claim of the same call
Again(c, goal) ==
  [c EXCEPT !.stage = "read", !.goal = goal, !.lease = NoLease, !.retried = FALSE]

\* register_incarnation: numbering goes on in the same epoch, and starts again
\* in another.
Registered(p, gen, exp) ==
  [token_state EXCEPT ![p] =
     IF @.epoch = gen THEN [@ EXCEPT !.exp = exp]
     ELSE [epoch |-> gen, next |-> 0, exp |-> exp]]

\* Whether the cached incarnation is live at the call's clock reading
Cached(p, t) == incarnation[p].gen > 0 /\ t < incarnation[p].exp

\* begin_writer_incarnation with a live cached incarnation: registered again
BeginCached(k) ==
  LET p == PodOf(k)
  IN /\ token_state' = Registered(p, incarnation[p].gen, incarnation[p].exp)
     /\ Moved(k, Granted)

\* begin_writer_incarnation without one: a claim
BeginClaim(k, c) == Moved(k, Again(c, "begin")) /\ UNCHANGED token_state

\* The second half of a renewal pass: the incarnation, if there is one
NextRenewal(k) ==
  Moved(k, IF incarnation[PodOf(k)].gen > 0
           THEN Again(call[k], "renew_incarnation") ELSE IdleCall)

\* reconcile of an acquired lease, then whatever the caller does next
WonBinding(k) ==
  LET c == call[k]
      p == PodOf(k)
  IN /\ c.stage = "won" /\ c.goal \in {"own", "check", "renew_binding"}
     /\ registry' = [registry EXCEPT ![p] = p]
     /\ \/ /\ c.goal = "own"
           /\ IF Cached(p, c.start) THEN BeginCached(k) ELSE BeginClaim(k, c)
        \/ /\ c.goal = "check"
           /\ Moved(k, IdleCall) /\ UNCHANGED token_state
        \/ /\ c.goal = "renew_binding"
           /\ NextRenewal(k) /\ UNCHANGED token_state
     /\ UNCHANGED <<now, log, incarnation, process, tokens>>

\* An incarnation was begun or renewed: it is cached and registered.
WonIncarnation(k) ==
  LET c == call[k]
      p == PodOf(k)
  IN /\ c.stage = "won" /\ c.goal \in {"begin", "recover", "renew_incarnation"}
     /\ incarnation' = [incarnation EXCEPT ![p] =
                          [gen |-> c.lease.gen, exp |-> c.lease.exp]]
     /\ token_state' = Registered(p, c.lease.gen, c.lease.exp)
     /\ Moved(k, IF c.goal = "begin" THEN Granted
                 ELSE IdleCall)
     /\ UNCHANGED <<now, log, registry, process, tokens>>

\* reconcile of a refusal: the binding points at the holder, the write fails.
RefusedBinding(k) ==
  LET c == call[k]
  IN /\ c.stage = "refused" /\ c.goal \in {"own", "check", "renew_binding"}
     /\ registry' = [registry EXCEPT ![PodOf(k)] = c.lease.holder]
     /\ IF c.goal = "renew_binding" THEN NextRenewal(k) ELSE Moved(k, IdleCall)
     /\ UNCHANGED <<now, log, incarnation, token_state, process, tokens>>

\* A write or a recovery is refused; a renewal drops the incarnation and
\* expires the token state.
RefusedIncarnation(k) ==
  LET c == call[k]
      p == PodOf(k)
  IN /\ c.stage = "refused" /\ c.goal \in {"begin", "recover", "renew_incarnation"}
     /\ IF c.goal = "renew_incarnation"
        THEN /\ incarnation' = [incarnation EXCEPT ![p] = NoIncarnation]
             /\ token_state' = [token_state EXCEPT ![p].exp = 0]
        ELSE UNCHANGED <<incarnation, token_state>>
     /\ Moved(k, IdleCall)
     /\ UNCHANGED <<now, log, registry, process, tokens>>

\* The object store answers with an error, or a renewal's time is up.  The
\* put may have landed.  A renewal leaves what it has and goes on.
ClaimFails(k, landed) ==
  LET c == call[k]
  IN /\ c.stage \in {"read", "commit", "lost"}
     /\ IF landed
        THEN /\ c.stage = "commit" /\ c.parent = Len(log) /\ Len(log) < MaxVersion
             /\ log' = Append(log, c.lease)
        ELSE UNCHANGED log
     /\ IF c.goal = "renew_binding" THEN NextRenewal(k) ELSE Moved(k, IdleCall)
     /\ UNCHANGED <<now, memory, process, tokens>>

----------------------------------------------------------------------------
(* Calls *)

\* Tasks in the middle of a claim
Claiming == {k \in Task : call[k].stage \notin {"idle", "granted"}}

\* A task free to begin a call
Free(k) ==
  /\ call[k].stage = "idle"
  /\ Cardinality({j \in Task : call[j].stage # "idle"}) < MaxCalls

\* Bound: no claim begins behind the last version.
Room == Len(log) < MaxVersion

Started(goal) ==
  [stage |-> "read", goal |-> goal, start |-> now, parent |-> 0,
   lease |-> NoLease, retried |-> FALSE]

\* ensure_collection_lease: the fast path of ensure_owned, or a claim
Write(k) ==
  /\ k[2] # "renew" /\ Free(k)
  /\ IF registry[PodOf(k)] = PodOf(k) /\ Cached(PodOf(k), now)
     THEN BeginCached(k)
     ELSE Room /\ Moved(k, Started("own")) /\ UNCHANGED token_state
  /\ UNCHANGED <<now, log, registry, incarnation, process, tokens>>

\* WriteLeaseAuthority::check of DDL and of the delete publisher
Check(k) ==
  /\ k[2] # "renew" /\ Free(k) /\ Room
  /\ Moved(k, Started("check"))
  /\ UNCHANGED <<now, log, memory, process, tokens>>

\* The replay of a collection's WAL begins an incarnation.
Recover(k) ==
  /\ k[2] # "renew" /\ Free(k) /\ Room
  /\ ~Cached(PodOf(k), now)
  /\ Moved(k, Started("recover"))
  /\ UNCHANGED <<now, log, memory, process, tokens>>

\* A tick of the renewal loop: the binding if it is this pod's, and then the
\* incarnation
RenewHeld(k) ==
  LET p == PodOf(k)
  IN /\ k[2] = "renew" /\ Free(k) /\ Room
     /\ \/ /\ registry[p] = p
           /\ Moved(k, Started("renew_binding"))
        \/ /\ registry[p] # p /\ incarnation[p].gen > 0
           /\ Moved(k, Started("renew_incarnation"))
     /\ UNCHANGED <<now, log, memory, process, tokens>>

\* Mutant of TokenLive: the expiry is not looked at.
TokenKnown(p) == token_state[p].epoch > 0

TokenLive(p) == token_state[p].epoch > 0 /\ now < token_state[p].exp

\* RecoveryTokenProvider::allocate for the batch the gate let through
Allocate(k) ==
  LET p == PodOf(k)
  IN /\ call[k].stage = "granted"
     /\ IF TokenLive(p)
        THEN /\ Cardinality(tokens) < MaxTokens
             /\ tokens' = tokens \cup
                            {[pod |-> p, process |-> process[p],
                              epoch |-> token_state[p].epoch,
                              seq |-> token_state[p].next]}
             /\ token_state' = [token_state EXCEPT ![p].next = @ + 1]
        ELSE UNCHANGED <<tokens, token_state>>
     /\ Moved(k, IdleCall)
     /\ UNCHANGED <<now, log, registry, incarnation, process>>

----------------------------------------------------------------------------
(* Time and restarts *)

\* Time passes, as long as no claim is older than the bound.
Tick ==
  /\ now < MaxTime
  /\ \A k \in Claiming : now - call[k].start < Stall
  /\ now' = now + 1
  /\ UNCHANGED <<log, memory, call, process, tokens>>

\* The pod comes back under the same name.  The registry may be persisted.
Restart(p, kept) ==
  /\ SumFunction(process) < MaxRestarts
  /\ process' = [process EXCEPT ![p] = @ + 1]
  /\ registry' = [registry EXCEPT ![p] = IF kept THEN @ ELSE NoPod]
  /\ incarnation' = [incarnation EXCEPT ![p] = NoIncarnation]
  /\ token_state' = [token_state EXCEPT ![p] = NoToken]
  /\ call' = [k \in Task |-> IF PodOf(k) = p THEN IdleCall ELSE call[k]]
  /\ UNCHANGED <<now, log, tokens>>

Init ==
  /\ now = 0 /\ log = <<>>
  /\ registry = [p \in Pod |-> NoPod]
  /\ incarnation = [p \in Pod |-> NoIncarnation]
  /\ token_state = [p \in Pod |-> NoToken]
  /\ call = [k \in Task |-> IdleCall]
  /\ process = [p \in Pod |-> 0]
  /\ tokens = {}

CallStep(k) == Write(k) \/ Check(k) \/ Recover(k) \/ RenewHeld(k)

ClaimStep(k) ==
  \/ ClaimRead(k) \/ ClaimCommit(k) \/ ClaimResolve(k)
  \/ WonBinding(k) \/ WonIncarnation(k)
  \/ RefusedBinding(k) \/ RefusedIncarnation(k)
  \/ \E landed \in BOOLEAN : ClaimFails(k, landed)
  \/ Allocate(k)

Next ==
  \/ \E k \in Task : CallStep(k) \/ ClaimStep(k)
  \/ Tick
  \/ \E p \in Pod, kept \in BOOLEAN : Restart(p, kept)

Spec == Init /\ [][Next]_vars

----------------------------------------------------------------------------
(* Properties *)

\* Type invariant of the log, the pods' caches and the calls.
TypeOK ==
  /\ now \in 0..MaxTime
  /\ log \in Seq(Lease) /\ Len(log) =< MaxVersion
  /\ registry \in [Pod -> Pod \cup {NoPod}]
  /\ incarnation \in [Pod -> [gen : Nat, exp : Nat]]
  /\ token_state \in [Pod -> [epoch : Nat, next : Nat, exp : Nat]]
  /\ call \in [Task -> [stage : Stage, goal : Goal, start : 0..MaxTime,
                        parent : 0..Len(log), lease : Lease \cup {NoLease},
                        retried : BOOLEAN]]
  /\ \A k \in Task :
       /\ call[k].stage \in {"commit", "won", "refused"} =>
            call[k].lease # NoLease
       /\ call[k].stage = "lost" => log # <<>>
  /\ process \in [Pod -> Nat]
  /\ tokens \subseteq [pod : Pod, process : Nat, epoch : Nat, seq : Nat]

\* The log's generations never go back, and a lease of another pod always has
\* a higher one: the displaced pod's generation is stale at once (claim).
TakeoverBumps ==
  \A i, j \in DOMAIN log : i < j =>
    /\ log[i].gen =< log[j].gen
    /\ log[i].holder # log[j].holder => log[i].gen < log[j].gen

\* No pod numbers tokens in an epoch in which another pod issued one, whatever
\* conflicts were adopted, retried or answered with an error
\* (resolve_incarnation_conflict, register_incarnation).
EpochOfOnePod ==
  \A x \in tokens, p \in Pod : token_state[p].epoch = x.epoch => x.pod = p

\* What a pod takes for its incarnation and numbers tokens with was committed
\* as its own lease: "never claim ownership whose bytes were not committed"
\* (resolve_incarnation_conflict, begin_writer_incarnation, renew_held).
OwnershipCommitted ==
  \A p \in Pod :
    /\ incarnation[p].gen > 0 =>
         \E i \in DOMAIN log : /\ log[i].holder = p
                               /\ log[i].gen = incarnation[p].gen
                               /\ log[i].exp = incarnation[p].exp
    /\ token_state[p].epoch > 0 =>
         \E i \in DOMAIN log :
           log[i].holder = p /\ log[i].gen = token_state[p].epoch

\* A displaced pod stops: a pod whose lease another pod took over at time t, by
\* the other's clock reading, issues no token at t + Stall or later.  A claim
\* that lands with an old clock reading may shorten a lease by that much behind
\* the back of the token provider; with fresh readings no token follows a
\* takeover (claim, allocate).
DisplacedPodStops ==
  [][\A x \in tokens' \ tokens, i, j \in DOMAIN log :
       (/\ j = i + 1 /\ log[i].holder = x.pod
        /\ log[j].holder # x.pod /\ log[j].gen > x.epoch) =>
         now < log[j].exp - Ttl + Stall]_vars

\* The claim of begin_writer_incarnation_with_key: it "always advances the
\* durable generation", which "makes `{generation, process-local sequence}` a
\* total order across process restarts".
TokensUnique ==
  \A x, y \in tokens :
    (x.epoch = y.epoch /\ x.seq = y.seq) => x.process = y.process
============================================================================
