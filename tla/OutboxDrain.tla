----------------------------- MODULE OutboxDrain -----------------------------
(***************************************************************************)
(* The transactional outbox of a brain and the replicas that drain it into *)
(* Manhattan (feed-engine/internal/manhattan/drain.go; the Rust brains     *)
(* carry the same drain in libs/manhattan-outbox/src/drain.rs), together   *)
(* with the plane's walk of a batch (manhattan/src/main.rs, apply_ops).    *)
(*                                                                         *)
(* What an op does to the plane is abstracted to the verdict the plane     *)
(* answers.  A row's backoff is a flag that some later step lifts: how     *)
(* long a backoff lasts against a tick is left open.  A request outlives   *)
(* the call that sent it: a drain that times out or dies leaves the plane  *)
(* walking the rest of the batch.                                          *)
(***************************************************************************)
EXTENDS Integers, FiniteSets

CONSTANTS Rows,            \* row ids; their order as numbers is the queue's
          Replicas,        \* drain processes of the brain
          NoReplica,       \* the free drain lock
          DrainBatch,      \* drainBatch
          MaxAttempts,     \* maxAttempts
          MaxDisturbances  \* bound: faults, crashes, outages and operator acts

ASSUME OutboxAssumption ==
  /\ Rows \subseteq Nat /\ IsFiniteSet(Rows)
  /\ NoReplica \notin Replicas
  /\ DrainBatch \in Nat \ {0} /\ MaxAttempts \in Nat \ {0}
  /\ MaxDisturbances \in Nat

VARIABLES
  queued,       \* rows committed to manhattan_outbox
  delivered,    \* delivered_at IS NOT NULL
  blocked,      \* blocked_at IS NOT NULL
  attempts,     \* attempts
  waiting,      \* next_attempt_at > NOW()
  lock,         \* holder of the session advisory lock
  drain,        \* each replica's drain_once
  orphans,      \* for each request whose caller has gone, the rows left of it
  landed,       \* history: rows the plane has answered applied or already
  answered,     \* history: "not yet" answers the plane gave about a row
  refused,      \* history: rows the plane has refused for good
  lost,         \* history: a drain has lost its lock's session while it ran
  disturbances  \* bound counter

table == <<queued, delivered, blocked, attempts, waiting>>
plane == <<landed, answered, refused>>
vars  == <<table, lock, drain, orphans, plane, lost, disturbances>>

Verdicts == {"landed", "refused", "retry", "error"}

\* A drain: the rows it claimed, the attempts it read with them, the verdicts
\* it was answered, the rows of the batch it has yet to settle, and whether a
\* row that halted the plane has been quarantined (quarantinedAHold).
Idle == [pc |-> "idle", batch |-> {}, left |-> {}, more |-> FALSE,
         seen |-> [r \in Rows |-> 0], verdict |-> [r \in Rows |-> "none"]]

Min2(a, b) == IF a < b THEN a ELSE b

\* r is the oldest row of s.
IsFirst(r, s) == r \in s /\ \A q \in s : r <= q

Pending == {r \in queued : r \notin delivered \cup blocked \cup waiting}

\* ORDER BY id LIMIT drainBatch
Claim == {r \in Pending : Cardinality({q \in Pending : q < r}) < DrainBatch}

Spend   == disturbances < MaxDisturbances /\ disturbances' = disturbances + 1
Disturb == Spend /\ UNCHANGED lost
Calm    == UNCHANGED <<lost, disturbances>>

Init ==
  /\ queued = {} /\ delivered = {} /\ blocked = {} /\ waiting = {}
  /\ attempts = [r \in Rows |-> 0]
  /\ lock = NoReplica
  /\ drain = [p \in Replicas |-> Idle]
  /\ orphans = {}
  /\ landed = {} /\ refused = {}
  /\ answered = [r \in Rows |-> 0]
  /\ lost = FALSE /\ disturbances = 0

-----------------------------------------------------------------------------
\* The brain's own transactions.  Ids come from a sequence, so two concurrent
\* transactions may commit their rows in either order.
Enqueue(r) ==
  /\ r \notin queued
  /\ queued' = queued \cup {r}
  /\ UNCHANGED <<delivered, blocked, attempts, waiting, lock, drain, orphans, plane>>
  /\ Calm

\* The database clock reaches next_attempt_at.
BackoffEnds(r) ==
  /\ r \in waiting
  /\ waiting' = waiting \ {r}
  /\ UNCHANGED <<queued, delivered, blocked, attempts, lock, drain, orphans, plane>>
  /\ Calm

\* "put one back": the operator's UPDATE of a quarantined row.
PutBack(r) ==
  /\ r \in blocked \ delivered
  /\ blocked' = blocked \ {r} /\ waiting' = waiting \ {r}
  /\ attempts' = [attempts EXCEPT ![r] = 0]
  /\ answered' = [answered EXCEPT ![r] = 0] /\ refused' = refused \ {r}
  /\ UNCHANGED <<queued, delivered, lock, drain, orphans, landed>>
  /\ Disturb

-----------------------------------------------------------------------------
\* Mutant of Start: a replica drains whether or not the lock is free.
StartUnlocked(p) ==
  /\ drain[p].pc = "idle"
  /\ lock' = p
  /\ drain' = [drain EXCEPT ![p].pc = "read"]
  /\ UNCHANGED <<table, orphans, plane>> /\ Calm

\* A tick: pg_try_advisory_lock.  A replica that finds it held does nothing.
Start(p) ==
  /\ drain[p].pc = "idle" /\ lock = NoReplica
  /\ lock' = p
  /\ drain' = [drain EXCEPT ![p].pc = "read"]
  /\ UNCHANGED <<table, orphans, plane>> /\ Calm

ReadBatch(p) ==
  /\ drain[p].pc = "read"
  /\ drain' = [drain EXCEPT ![p] =
       IF Claim = {} THEN [Idle EXCEPT !.pc = "release"]
       ELSE [Idle EXCEPT !.pc = "call", !.batch = Claim, !.left = Claim, !.seen = attempts]]
  /\ UNCHANGED <<table, lock, orphans, plane>> /\ Calm

-----------------------------------------------------------------------------
\* What one op does on the plane, and what the plane says of it.
ApplyOne(r, v) ==
  /\ landed'   = IF v = "landed" THEN landed \cup {r} ELSE landed
  /\ answered' = IF v = "retry"
                 THEN [answered EXCEPT ![r] = Min2(@ + 1, MaxAttempts)] ELSE answered
  /\ refused'  = IF v = "refused" THEN refused \cup {r} ELSE refused

Halts(v) == v \in {"retry", "error"}

\* The ops of a request the plane has not come to yet.
Unasked(d) == {r \in d.batch : d.verdict[r] = "none"}

\* apply_ops takes the next op of a live request; a halting verdict leaves
\* the rest of the batch skipped.
PlaneStep(p) ==
  /\ drain[p].pc = "call"
  /\ \E r \in Unasked(drain[p]), v \in Verdicts :
       /\ IsFirst(r, Unasked(drain[p]))
       /\ ApplyOne(r, v)
       /\ drain' = [drain EXCEPT ![p].verdict =
            [q \in Rows |-> IF q = r THEN v
                            ELSE IF Halts(v) /\ q \in Unasked(drain[p]) THEN "skipped"
                            ELSE drain[p].verdict[q]]]
       /\ IF v = "error" THEN Disturb ELSE Calm
  /\ UNCHANGED <<table, lock, orphans>>

\* The same walk, for a request nobody is waiting for any more.
OrphanStep ==
  /\ \E o \in orphans, v \in Verdicts : \E r \in o :
       /\ IsFirst(r, o)
       /\ ApplyOne(r, v)
       /\ orphans' = (orphans \ {o})
                       \cup (IF Halts(v) \/ o = {r} THEN {} ELSE {o \ {r}})
       /\ IF v = "error" THEN Disturb ELSE Calm
  /\ UNCHANGED <<table, lock, drain>>

Answer(p) ==
  /\ drain[p].pc = "call" /\ Unasked(drain[p]) = {}
  /\ drain' = [drain EXCEPT ![p].pc = "settle"]
  /\ UNCHANGED <<table, lock, orphans, plane>> /\ Calm

\* Whether the plane goes on with what is left of a request, or never saw it.
Abandon(d) ==
  \/ orphans' = orphans
  \/ Unasked(d) # {} /\ orphans' = orphans \cup {Unasked(d)}

\* No verdicts: the head row is held and the attempt is not counted.  A hold
\* that cannot be written is only logged.
CallFails(p) ==
  /\ drain[p].pc = "call"
  /\ Abandon(drain[p])
  /\ \E r \in drain[p].batch :
       IsFirst(r, drain[p].batch) /\ waiting' \in {waiting, waiting \cup {r}}
  /\ drain' = [drain EXCEPT ![p] = [Idle EXCEPT !.pc = "release"]]
  /\ UNCHANGED <<queued, delivered, blocked, attempts, lock, plane>> /\ Disturb

-----------------------------------------------------------------------------
\* r is the row p settles next, and v its verdict.
Settling(p, r, v) ==
  drain[p].pc = "settle" /\ IsFirst(r, drain[p].left) /\ drain[p].verdict[r] = v

Stop(p, again) ==
  drain' = [drain EXCEPT ![p] = [Idle EXCEPT !.pc = IF again THEN "read" ELSE "release"]]

\* Past a row that is out of the queue: on to the next, or, at the end of the
\* batch, back for another if this one was whole.
Advance(p, r, more) ==
  IF drain[p].left = {r}
  THEN Stop(p, Cardinality(drain[p].batch) = DrainBatch)
  ELSE drain' = [drain EXCEPT ![p].pc = "settle", ![p].left = @ \ {r}, ![p].more = more]

\* Mutant of MarkDelivered: a row the plane skipped is taken for delivered.
MarkSkippedDelivered(p, r) ==
  /\ \E v \in {"landed", "skipped"} : Settling(p, r, v)
  /\ delivered' = delivered \cup {r}
  /\ Advance(p, r, drain[p].more)
  /\ UNCHANGED <<queued, blocked, attempts, waiting, lock, orphans, plane>> /\ Calm

MarkDelivered(p, r) ==
  /\ Settling(p, r, "landed")
  /\ delivered' = delivered \cup {r}
  /\ Advance(p, r, drain[p].more)
  /\ UNCHANGED <<queued, blocked, attempts, waiting, lock, orphans, plane>> /\ Calm

\* A refusal is counted and backed off like any answer, and quarantined next.
Refuse(p, r) ==
  /\ Settling(p, r, "refused")
  /\ attempts' = [attempts EXCEPT ![r] = @ + 1]
  /\ waiting' = waiting \cup {r}
  /\ drain' = [drain EXCEPT ![p].pc = "quarantine"]
  /\ UNCHANGED <<queued, delivered, blocked, lock, orphans, plane>> /\ Calm

\* Mutant of Retry: the row backs off for ever.
RetryForEver(p, r) ==
  /\ Settling(p, r, "retry")
  /\ attempts' = [attempts EXCEPT ![r] = Min2(@ + 1, MaxAttempts)]
  /\ waiting' = waiting \cup {r}
  /\ Stop(p, FALSE)
  /\ UNCHANGED <<queued, delivered, blocked, lock, orphans, plane>> /\ Calm

Retry(p, r) ==
  /\ Settling(p, r, "retry")
  /\ attempts' = [attempts EXCEPT ![r] = @ + 1]
  /\ waiting' = waiting \cup {r}
  /\ IF drain[p].seen[r] + 1 < MaxAttempts
     THEN Stop(p, FALSE)
     ELSE drain' = [drain EXCEPT ![p].pc = "quarantine"]
  /\ UNCHANGED <<queued, delivered, blocked, lock, orphans, plane>> /\ Calm

Quarantine(p, r) ==
  /\ drain[p].pc = "quarantine" /\ IsFirst(r, drain[p].left)
  /\ blocked' = blocked \cup {r}
  /\ Advance(p, r, drain[p].more \/ drain[p].verdict[r] = "retry")
  /\ UNCHANGED <<queued, delivered, attempts, waiting, lock, orphans, plane>> /\ Calm

\* Mutant of Hold: a fault of the plane counts as an attempt.
HoldCounted(p, r) ==
  /\ Settling(p, r, "error")
  /\ attempts' = [attempts EXCEPT ![r] = @ + 1] /\ waiting' = waiting \cup {r}
  /\ Stop(p, FALSE)
  /\ UNCHANGED <<queued, delivered, blocked, lock, orphans, plane>> /\ Calm

Hold(p, r) ==
  /\ Settling(p, r, "error")
  /\ waiting' = waiting \cup {r}
  /\ Stop(p, FALSE)
  /\ UNCHANGED <<queued, delivered, blocked, attempts, lock, orphans, plane>> /\ Calm

\* Rows behind a hold that was quarantined are sent at once.
Skip(p, r) ==
  /\ Settling(p, r, "skipped")
  /\ Stop(p, drain[p].more)
  /\ UNCHANGED <<table, lock, orphans, plane>> /\ Calm

\* A write to the outbox fails: every path stops the batch where it is.
WriteFails(p) ==
  /\ drain[p].pc \in {"settle", "quarantine"}
  /\ Stop(p, FALSE)
  /\ UNCHANGED <<table, lock, orphans, plane>> /\ Disturb

Release(p) ==
  /\ drain[p].pc = "release"
  /\ drain' = [drain EXCEPT ![p] = Idle]
  /\ lock' = IF lock = p THEN NoReplica ELSE lock
  /\ UNCHANGED <<table, orphans, plane>> /\ Calm

\* The process dies; its session goes with it, and so does the lock.
Crash(p) ==
  /\ drain[p].pc # "idle"
  /\ IF drain[p].pc = "call" THEN Abandon(drain[p]) ELSE orphans' = orphans
  /\ drain' = [drain EXCEPT ![p] = Idle]
  /\ lock' = IF lock = p THEN NoReplica ELSE lock
  /\ UNCHANGED <<table, plane>> /\ Disturb

\* The lock's connection dies while the drain works on over its other one.
LoseSession(p) ==
  /\ lock = p
  /\ lock' = NoReplica /\ lost' = TRUE
  /\ UNCHANGED <<table, drain, orphans, plane>> /\ Spend

-----------------------------------------------------------------------------
\* What a drain does of its own accord.
Work(p) ==
  \/ ReadBatch(p) \/ PlaneStep(p) \/ Answer(p) \/ Release(p)
  \/ \E r \in drain[p].left : \/ MarkDelivered(p, r) \/ Refuse(p, r) \/ Retry(p, r)
                              \/ Quarantine(p, r) \/ Hold(p, r) \/ Skip(p, r)

Next ==
  \/ \E r \in Rows : Enqueue(r) \/ BackoffEnds(r) \/ PutBack(r)
  \/ \E p \in Replicas : \/ Start(p) \/ Work(p) \/ CallFails(p) \/ WriteFails(p)
                         \/ Crash(p) \/ LoseSession(p)
  \/ OrphanStep

Spec == Init /\ [][Next]_vars

\* The tick fires for ever and the runtime runs a drain that has started; the
\* clock reaches every next_attempt_at.  Nothing makes brains enqueue rows.
Fairness ==
  /\ WF_vars(\E p \in Replicas : Start(p))
  /\ \A p \in Replicas : WF_vars(Work(p))
  /\ \A r \in Rows : WF_vars(BackoffEnds(r))

FairSpec == Spec /\ Fairness

-----------------------------------------------------------------------------
\* Durability: "A row is marked delivered only after Manhattan has said so"
\* (drain.go:24), whatever crashes, faults, lost sessions and lost answers come
\* between the plane's commit and the drain's.
Durable == delivered \subseteq landed

\* A quarantined row was refused for good, or sent back maxAttempts times.
Earned == \A r \in blocked : r \in refused \/ answered[r] >= MaxAttempts

\* "Only an ANSWER from Manhattan counts toward that" (drain.go:35): as long as
\* no drain has lost its lock's session, an outage, a fault of the plane, a
\* failed write or a replay never puts a row in quarantine.
QuarantineEarned == ~ lost => Earned

\* Whoever is between the lock and its release holds it.
Exclusive == \A p \in Replicas : drain[p].pc # "idle" => lock = p

\* "One drain at a time" (drain.go:41), as long as no session is lost.
OneDrain == ~ lost => Exclusive

\* Liveness: once disturbances stop, every row of the queue is delivered or
\* quarantined.  A row that cannot land does not end the queue behind it.
EveryRowSettles ==
  \A r \in Rows : r \in queued ~> r \in delivered \cup blocked
=============================================================================
