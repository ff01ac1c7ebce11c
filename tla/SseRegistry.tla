----------------------------- MODULE SseRegistry -----------------------------
(***************************************************************************)
(* FA Live's session registry and the streams that hang from it            *)
(* (feed-engine/internal/handler/sse_registry.go, api_v1_social.go).  A    *)
(* connection joins a bucket under its account and one under the person    *)
(* behind it; publishers push to whoever is in a bucket; a bucket whose    *)
(* last session leaves is torn down.  Every event takes a number in its    *)
(* person's log, so that a client that comes back is handed what it        *)
(* missed.  A step is one hold of one mutex or one operation on a map:     *)
(* what a step has loaded may have been torn down by the next.             *)
(***************************************************************************)
EXTENDS Naturals, Sequences, FiniteSets, SequencesExt

CONSTANTS Clients, Accounts, Persons,
          AccountOf, PersonOf,   \* the account of a client, the person behind an account
          Visitors,              \* the clients that also go to places
          Jobs,                  \* goroutines that publish
          MaxConns,              \* maxSSEConnsPerUser
          RingDepth,             \* streamReplayDepth
          Buffer,                \* the capacity of a session's channel
          MaxBuckets,            \* bound: buckets somebody refers to
          MaxOpens, MaxEvents, MaxLapses   \* bounds: connections, events, times a person's log is lost

ASSUME SseAssumption ==
  /\ AccountOf \in [Clients -> Accounts] /\ PersonOf \in [Accounts -> Persons]
  /\ Accounts \cap Persons = {} /\ Visitors \subseteq Clients
  /\ {MaxConns, RingDepth, Buffer} \subseteq Nat \ {0}
  /\ {MaxBuckets, MaxOpens, MaxEvents, MaxLapses} \subseteq Nat

VARIABLES
  registry,   \* accountRegistry and pialRegistry: the bucket under a key, or None
  buckets,    \* the buckets by address, those torn down included
  conn,       \* each client's connection and its session
  log,        \* pialStreamLogs: a person's ring of frames, and how often the log has lapsed
  job,        \* the publishing goroutines
  client,     \* the number each client saw last, and (history) of which log
  issued,     \* history: what was published to persons, as recorded
  opens, events

vars == <<registry, buckets, conn, log, job, client, issued, opens, events>>

Keys == Accounts \cup Persons
None == 0
Person(c) == PersonOf[AccountOf[c]]
Owner(k) == IF k \in Accounts THEN PersonOf[k] ELSE k

Off == [pc |-> "off"]
Idle == [pc |-> "idle"]
NoPoint == [lapse |-> 0, id |-> 0]
Empty == [members |-> {}, dead |-> FALSE]

Init ==
  /\ registry = [k \in Keys |-> None] /\ buckets = [b \in 1..MaxBuckets |-> Empty]
  /\ conn = [c \in Clients |-> Off] /\ client = [c \in Clients |-> NoPoint]
  /\ log = [p \in Persons |-> [ring |-> <<>>, lapse |-> 0]]
  /\ job = [j \in Jobs |-> Idle] /\ issued = {}
  /\ opens = 0 /\ events = 0

streams == <<registry, buckets>>
record  == <<log, issued>>
bounds  == <<opens, events>>

-----------------------------------------------------------------------------
(* registerSSESession *)

Goto(c, pc) == conn' = [conn EXCEPT ![c].pc = pc]

\* A room stream is opened onto a place, an account stream onto the account.
Open(c) ==
  /\ conn[c].pc = "off" /\ opens < MaxOpens
  /\ \E room \in BOOLEAN :
       /\ room => c \in Visitors
       /\ conn' = [conn EXCEPT ![c] =
         [pc |-> "load", key |-> AccountOf[c], bucket |-> None, home |-> None, room |-> room,
          seq |-> opens + 1, queue |-> <<>>, lost |-> {}, wrote |-> {},
          upTo |-> 0, from |-> NoPoint]]
  /\ opens' = opens + 1
  /\ UNCHANGED <<streams, record, job, client, events>>

\* An address nobody refers to is used again; MaxBuckets is the bound.
Unused == {b \in 1..MaxBuckets :
  /\ \A k \in Keys : registry[k] # b
  /\ \A c \in Clients : conn[c].pc # "off" => b \notin {conn[c].bucket, conn[c].home}
  /\ \A j \in Jobs : job[j].pc # "idle" => job[j].bucket # b}

\* addToRegistry: LoadOrStore, ...
Load(c) ==
  /\ conn[c].pc = "load"
  /\ LET k == conn[c].key
         new == CHOOSE b \in Unused : TRUE
     IN \/ /\ registry[k] # None
           /\ conn' = [conn EXCEPT ![c].pc = "join", ![c].bucket = registry[k]]
           /\ UNCHANGED streams
        \/ /\ registry[k] = None /\ Unused # {} /\ registry' = [registry EXCEPT ![k] = new]
           /\ buckets' = [buckets EXCEPT ![new] = Empty]
           /\ conn' = [conn EXCEPT ![c].pc = "join", ![c].bucket = new]
  /\ UNCHANGED <<record, job, client, bounds>>

Joined(c) ==
  /\ buckets' = [buckets EXCEPT ![conn[c].bucket].members = @ \cup {c}]
  /\ conn' = [conn EXCEPT ![c] =
       IF conn[c].key \in Accounts
       THEN [@ EXCEPT !.pc = "load", !.key = Person(c), !.bucket = None, !.home = conn[c].bucket]
       ELSE [@ EXCEPT !.pc = "prune", !.bucket = None]]

\* Mutant of Join: what was loaded is joined, torn down or not.
JoinAny(c) ==
  /\ conn[c].pc = "join" /\ Joined(c)
  /\ UNCHANGED <<registry, record, job, client, bounds>>

\* ... then its lock: a bucket torn down in between is loaded again.
Join(c) ==
  /\ conn[c].pc = "join"
  /\ \/ buckets[conn[c].bucket].dead /\ Goto(c, "load") /\ UNCHANGED buckets
     \/ ~ buckets[conn[c].bucket].dead /\ Joined(c)
  /\ UNCHANGED <<registry, record, job, client, bounds>>

\* pruneStreamLogs: the logs of people without an event for the TTL go.
Prune(c) ==
  /\ conn[c].pc = "prune"
  /\ \E stale \in SUBSET {p \in Persons : log[p].ring # <<>> /\ log[p].lapse < MaxLapses} :
       log' = [p \in Persons |->
         IF p \in stale THEN [ring |-> <<>>, lapse |-> log[p].lapse + 1] ELSE log[p]]
  /\ conn' = [conn EXCEPT ![c] = IF @.room THEN [@ EXCEPT !.pc = "live", !.home = None]
                                ELSE [@ EXCEPT !.pc = "evict"]]
  /\ UNCHANGED <<streams, job, client, issued, bounds>>

\* The oldest account streams beyond the bound, the newcomer spared.  They leave
\* the account's bucket at once, the person's when their streams end.
Surplus(c) ==
  LET held == {d \in buckets[conn[c].home].members : ~ conn[d].room}
      older(d) == {e \in held \ {c} : conn[e].seq < conn[d].seq}
  IN {d \in held \ {c} : Cardinality(older(d)) + MaxConns < Cardinality(held)}

Evict(c) ==
  /\ conn[c].pc = "evict"
  /\ buckets' = [buckets EXCEPT ![conn[c].home].members = @ \ Surplus(c)]
  /\ conn' = [conn EXCEPT ![c].pc = "resume", ![c].home = None]
  /\ UNCHANGED <<registry, record, job, client, bounds>>

-----------------------------------------------------------------------------
(* apiV1UserEvents *)

LastOf(ring) == IF ring = <<>> THEN 0 ELSE ring[Len(ring)].id

\* ReplayAfter: the ring holds everything after last.
Provable(ring, last) ==
  last > 0 /\ last <= LastOf(ring) /\ ring[1].id <= last + 1

\* Mutant of Missed: the first frame is taken for the one seen.
MissedButOne(ring, last) == {f \in ToSet(ring) : f.id > last + 1}

Missed(ring, last) == {f \in ToSet(ring) : f.id > last}

\* What the client missed, before anything that happens now.
Resume(c) ==
  /\ conn[c].pc = "resume"
  /\ LET ring == log[Person(c)].ring
         last == client[c].id
         missed == Missed(ring, last)
     IN \/ /\ Provable(ring, last)
           /\ conn' = [conn EXCEPT ![c].pc = "live",
                ![c].from = IF client[c].lapse = log[Person(c)].lapse THEN client[c] ELSE NoPoint,
                ![c].wrote = {f.event : f \in missed}, ![c].upTo = IF missed = {} THEN 0 ELSE LastOf(ring)]
           /\ client' = IF missed = {} THEN client
                        ELSE [client EXCEPT ![c] = [lapse |-> log[Person(c)].lapse, id |-> LastOf(ring)]]
        \/ ~ Provable(ring, last) /\ Goto(c, "live") /\ UNCHANGED client
  /\ UNCHANGED <<streams, record, job, bounds>>

\* Mutant of Told: whatever is queued is written.
ToldAll(c, f) == TRUE

\* What has been replayed is not written again.
Told(c, f) == f.id > conn[c].upTo

\* The stream's next frame.  A room writes its own kind of frame, unnumbered.
Read(c) ==
  /\ conn[c].pc = "live" /\ conn[c].queue # <<>>
  /\ LET f == Head(conn[c].queue)
     IN \/ /\ ~ conn[c].room /\ Told(c, f)
           /\ conn' = [conn EXCEPT ![c].queue = Tail(@), ![c].wrote = @ \cup {f.event}]
           /\ client' = [client EXCEPT ![c] = [lapse |-> f.lapse, id |-> f.id]]
        \/ /\ conn[c].room \/ ~ Told(c, f)
           /\ conn' = [conn EXCEPT ![c].queue = Tail(@)]
           /\ UNCHANGED client
  /\ UNCHANGED <<streams, record, job, bounds>>

\* The client is gone, or the session was evicted.  Its channel is not read again.
Leave(c) ==
  /\ conn[c].pc = "live"
  /\ conn' = [conn EXCEPT ![c] = [@ EXCEPT !.pc = "find", !.key = AccountOf[c], !.queue = <<>>,
                !.lost = {}, !.wrote = {}, !.upTo = 0, !.from = NoPoint]]
  /\ UNCHANGED <<streams, record, job, client, bounds>>

-----------------------------------------------------------------------------
(* The cleanup: removeFromRegistry twice, then close(s.ch). *)

\* Mutant of Unjoined: one registry is enough.
UnjoinedOnce(c) == [conn[c] EXCEPT !.pc = "close", !.bucket = None]

Unjoined(c) == IF conn[c].key \in Accounts
               THEN [conn[c] EXCEPT !.pc = "find", !.key = Person(c), !.bucket = None]
               ELSE [conn[c] EXCEPT !.pc = "close", !.bucket = None]

Find(c) ==
  /\ conn[c].pc = "find"
  /\ LET b == registry[conn[c].key]
     IN conn' = [conn EXCEPT ![c] =
          IF b = None THEN Unjoined(c) ELSE [@ EXCEPT !.pc = "unjoin", !.bucket = b]]
  /\ UNCHANGED <<streams, record, job, client, bounds>>

\* The last one out tears the bucket down; so does whoever finds it empty.
Unjoin(c) ==
  /\ conn[c].pc = "unjoin"
  /\ LET b == conn[c].bucket
         left == buckets[b].members \ {c}
     IN /\ buckets' = [buckets EXCEPT ![b] =
                         [members |-> left, dead |-> @.dead \/ left = {}]]
        /\ registry' = IF left = {} THEN [registry EXCEPT ![conn[c].key] = None] ELSE registry
  /\ conn' = [conn EXCEPT ![c] = Unjoined(c)]
  /\ UNCHANGED <<record, job, client, bounds>>

Close(c) ==
  /\ conn[c].pc = "close" /\ conn' = [conn EXCEPT ![c] = Off]
  /\ UNCHANGED <<streams, record, job, client, bounds>>

-----------------------------------------------------------------------------
(* Publishing *)

\* record: the next number, and a ring that remembers the last few frames.
Frame(p, e) == [id |-> LastOf(log[p].ring) + 1, event |-> e, lapse |-> log[p].lapse]

Recorded(p, f) ==
  LET ring == Append(log[p].ring, f)
  IN [log EXCEPT ![p].ring = IF Len(ring) > RingDepth THEN Tail(ring) ELSE ring]

\* A goroutine starts out to push event e to the buckets under keys; stamped
\* holds the frame of each person it has met (the publish's stamper).
Publish(j, keys, stamped) ==
  /\ job' = [job EXCEPT ![j] =
       [pc |-> "find", todo |-> keys, key |-> None, bucket |-> None, event |-> events + 1, stamped |-> stamped]]
  /\ events' = events + 1

Starts(j) == job[j].pc = "idle" /\ events < MaxEvents

\* The number is taken whether or not anyone is listening.
PublishToUser(j) ==
  /\ Starts(j)
  /\ \E p \in Persons :
       LET f == Frame(p, events + 1)
       IN /\ log' = Recorded(p, f)
          /\ issued' = issued \cup {[p |-> p, f |-> f]}
          /\ Publish(j, {p}, [q \in {p} |-> f])
  /\ UNCHANGED <<streams, conn, client, opens>>

PublishToAccount(j) ==
  /\ Starts(j)
  /\ \E a \in Accounts : Publish(j, {a}, <<>>)
  /\ UNCHANGED <<streams, record, conn, client, opens>>

\* Range visits each key once, in some order.
PublishToAllSessions(j) ==
  /\ Starts(j) /\ Publish(j, Accounts, <<>>)
  /\ UNCHANGED <<streams, record, conn, client, opens>>

Visited(j) == IF job[j].todo = {} THEN Idle ELSE [job[j] EXCEPT !.pc = "find", !.bucket = None]

Visit(j) ==
  /\ job[j].pc = "find"
  /\ \E k \in job[j].todo :
       LET rest == [job[j] EXCEPT !.todo = @ \ {k}]
       IN job' = [job EXCEPT ![j] =
            IF registry[k] # None THEN [rest EXCEPT !.pc = "push", !.key = k, !.bucket = registry[k]]
            ELSE IF rest.todo = {} THEN Idle ELSE rest]
  /\ UNCHANGED <<streams, record, conn, client, bounds>>

\* stamp: one number per person and publish.
Stamped(j, p) == IF p \in DOMAIN job[j].stamped THEN job[j].stamped[p] ELSE Frame(p, job[j].event)

Leaving(c) == conn[c].pc \in {"find", "unjoin", "close"}

\* deliverStamped, under the bucket's lock: a full channel drops the event.  (A
\* closed one panics, and the process is gone: Restart.)
Push(j) ==
  /\ job[j].pc = "push" /\ \A c \in buckets[job[j].bucket].members : conn[c].pc # "off"
  /\ LET p == Owner(job[j].key)
         to == buckets[job[j].bucket].members
         f == Stamped(j, p)
         done == Visited(j)
     IN /\ conn' = [c \in Clients |->
             IF c \notin to \/ Leaving(c) THEN conn[c]
             ELSE IF Len(conn[c].queue) < Buffer THEN [conn[c] EXCEPT !.queue = Append(@, f)]
             ELSE [conn[c] EXCEPT !.lost = @ \cup {f.event}]]
        /\ log' = IF to = {} \/ p \in DOMAIN job[j].stamped THEN log ELSE Recorded(p, f)
        /\ job' = [job EXCEPT ![j] =
             IF to = {} \/ done = Idle THEN done
             ELSE [done EXCEPT !.stamped = [q \in DOMAIN @ \cup {p} |-> IF q = p THEN f ELSE @[q]]]]
  /\ UNCHANGED <<streams, client, issued, bounds>>

-----------------------------------------------------------------------------
\* The process restarts: registries, logs and goroutines are gone, and clients
\* come back with the numbers they have.
Restart ==
  /\ \A p \in Persons : log[p].lapse < MaxLapses
  /\ log' = [p \in Persons |-> [ring |-> <<>>, lapse |-> log[p].lapse + 1]]
  /\ registry' = [k \in Keys |-> None] /\ buckets' = [b \in 1..MaxBuckets |-> Empty]
  /\ conn' = [c \in Clients |-> Off] /\ job' = [j \in Jobs |-> Idle]
  /\ UNCHANGED <<client, issued, bounds>>

Next ==
  \/ Restart
  \/ \E c \in Clients :
       \/ Open(c) \/ Load(c) \/ Join(c) \/ Prune(c) \/ Evict(c) \/ Resume(c) \/ Read(c)
       \/ Leave(c) \/ Find(c) \/ Unjoin(c) \/ Close(c)
  \/ \E j \in Jobs :
       PublishToUser(j) \/ PublishToAccount(j) \/ PublishToAllSessions(j) \/ Visit(j) \/ Push(j)

Spec == Init /\ [][Next]_vars

-----------------------------------------------------------------------------
Registered(c) == conn[c].pc \in {"prune", "evict", "resume", "live"}

Reached(c, k) == registry[k] # None /\ c \in buckets[registry[k]].members

\* The person's pipe reaches every connection that has registered and not left,
\* evicted ones included: none is lost in a bucket torn down while it joined
\* (addToRegistry's retry).
PersonReaches == \A c \in Clients : Registered(c) => Reached(c, Person(c))

\* A channel is closed once no push along the person's pipe can find its session:
\* neither in the registry nor in a bucket that a publisher has loaded.
SentToOpen ==
  \A j \in Jobs : job[j].pc = "push" /\ job[j].key \in Persons =>
    \A c \in buckets[job[j].bucket].members : conn[c].pc # "off"

\* A client that came back and was told it could be resumed misses nothing that
\* was published to its person after the number it gave: it has it, or it is
\* queued, or its buffer was full, or its publisher has not got there yet.  (Of
\* the log that issued the number: a lapsed log starts again at one.)
NothingMissed ==
  \A c \in Clients : conn[c].pc = "live" /\ ~ conn[c].room /\ conn[c].from # NoPoint =>
    \A i \in issued :
      i.p = Person(c) /\ i.f.lapse = conn[c].from.lapse /\ i.f.id > conn[c].from.id =>
        \/ i.f.event \in conn[c].wrote \/ i.f \in ToSet(conn[c].queue)
        \/ i.f.event \in conn[c].lost
        \/ \E j \in Jobs : job[j].pc # "idle" /\ job[j].event = i.f.event

\* No connection is told of an event twice, replayed and pushed, or pushed from
\* two buckets.
NothingTwice ==
  \A c \in Clients : conn[c].pc = "live" /\ ~ conn[c].room =>
    LET queue == conn[c].queue
        told  == {i \in DOMAIN queue : Told(c, queue[i])}
    IN \A i \in told :
         /\ queue[i].event \notin conn[c].wrote
         /\ \A k \in told : queue[k].event = queue[i].event => k = i
=============================================================================
