------------------------- MODULE SseRegistryProofs --------------------------
(***************************************************************************)
(* What a person's pipe promises, for every number of clients, accounts,   *)
(* persons, goroutines and events.                                         *)
(*                                                                         *)
(* The buckets come first: whoever holds an address holds it for one key,  *)
(* a person's bucket that somebody still holds is the registered one or is *)
(* dead and empty, and the members of a registered one are the connections *)
(* between their join and their last unjoin.  That a connection is reached *)
(* and that nobody closed is pushed to are read off it.                    *)
(*                                                                         *)
(* Then the frames: one publish has one frame for each person, which the   *)
(* ring, the queues and the publisher agree on, and it is queued for a     *)
(* connection only by the publisher's one visit to a bucket it is in.      *)
(*                                                                         *)
(* Last the replay: what was published in the log's present life is in the *)
(* ring or older than the ring, and what is due to a stream that came back *)
(* is handed over, queued, lost to a full buffer or on its way with a      *)
(* publisher that has still to visit the bucket the stream is in.          *)
(***************************************************************************)
EXTENDS SseRegistry, SequenceTheorems, TLAPS

-----------------------------------------------------------------------------
(* Types *)

Frames == [id : Nat \ {0}, event : Nat, lapse : Nat]
Points == [lapse : Nat, id : Nat]
Address == 0..MaxBuckets

Stages == {"load", "join", "prune", "evict", "resume", "live", "find", "unjoin", "close"}

Sessions == [pc : Stages, key : Keys, bucket : Address, home : Address, room : BOOLEAN, seq : Nat,
             queue : Seq(Frames), lost : SUBSET Nat, wrote : SUBSET Nat, upTo : Nat, from : Points]

Publishes == [pc : {"find", "push"}, todo : SUBSET Keys, key : Keys \cup {None}, bucket : Address,
              event : Nat, stamped : UNION {[S -> Frames] : S \in SUBSET Persons}]

\* A session knows its keys, and holds an address while it joins or leaves.
ConnOK(c) ==
  /\ conn[c].pc # "off" =>
       /\ conn[c] \in Sessions
       /\ conn[c].key \in {AccountOf[c], Person(c)}
       /\ conn[c].pc \in {"join", "unjoin"} => conn[c].bucket # None
       /\ conn[c].pc \notin {"load", "join", "unjoin"} => conn[c].bucket = None

\* What a publisher has still to push to: some accounts, or one person.
Pending(j) == job[j].todo \cup (IF job[j].pc = "push" THEN {job[j].key} ELSE {})

JobOK(j) ==
  /\ job[j].pc # "idle" =>
       /\ job[j] \in Publishes
       /\ job[j].pc = "push" => job[j].key \in Keys \ job[j].todo /\ job[j].bucket # None
       /\ Pending(j) \subseteq Accounts \/ \E p \in Persons : Pending(j) \subseteq {p}

TypeInv ==
  /\ registry \in [Keys -> Address]
  /\ buckets \in [1..MaxBuckets -> [members : SUBSET Clients, dead : BOOLEAN]]
  /\ conn = [c \in Clients |-> conn[c]] /\ \A c \in Clients : ConnOK(c)
  /\ job = [j \in Jobs |-> job[j]] /\ \A j \in Jobs : JobOK(j)
  /\ log \in [Persons -> [ring : Seq(Frames), lapse : Nat]]
  /\ client \in [Clients -> Points]
  /\ issued \subseteq [p : Persons, f : Frames]
  /\ opens \in Nat /\ events \in Nat

-----------------------------------------------------------------------------
(* The pipes *)

\* Somebody holds the address b for the key k.
Refers(k, b) ==
  \/ registry[k] = b
  \/ \E c \in Clients : /\ conn[c].pc # "off"
                        /\ \/ conn[c].key = k /\ conn[c].bucket = b
                           \/ AccountOf[c] = k /\ conn[c].home = b
  \/ \E j \in Jobs : job[j].pc = "push" /\ job[j].key = k /\ job[j].bucket = b

OneKey == \A b \in 1..MaxBuckets, k, l \in Keys : Refers(k, b) /\ Refers(l, b) => k = l

\* The connections between their join of their person's bucket and their leave.
InPerson(c) == conn[c].pc \in {"prune", "evict", "resume", "live", "find", "unjoin"}

\* An address held for a person is that of the registered bucket, or is dead.
PipeOK(p) ==
  \A b \in 1..MaxBuckets : Refers(p, b) =>
    /\ buckets[b].dead <=> registry[p] # b
    /\ buckets[b].dead => buckets[b].members = {}
    /\ \A c \in buckets[b].members : InPerson(c) /\ Person(c) = p

\* Members of a bucket held for an account are of that account.
SideOK(a) == \A b \in 1..MaxBuckets : Refers(a, b) => \A c \in buckets[b].members : AccountOf[c] = a

\* Who has joined is in the bucket, and who leaves has found the right one.
SeatOK(c) ==
  /\ InPerson(c) => Reached(c, Person(c))
  /\ conn[c].pc = "unjoin" /\ conn[c].key \in Persons => conn[c].bucket = registry[conn[c].key]

PipeInv ==
  /\ OneKey
  /\ \A p \in Persons : PipeOK(p)
  /\ \A a \in Accounts : SideOK(a)
  /\ \A c \in Clients : SeatOK(c)

-----------------------------------------------------------------------------
(* The frames *)

Active(j) == job[j].pc # "idle"
Stamps(j, p, f) == p \in DOMAIN job[j].stamped /\ job[j].stamped[p] = f
Passed(j, c) == AccountOf[c] \notin Pending(j) /\ Person(c) \notin Pending(j)

\* One publish, one event.
EventsOK ==
  /\ \A j \in Jobs : Active(j) =>
       /\ job[j].event \in 1..events
       /\ \A p \in DOMAIN job[j].stamped : job[j].stamped[p].event = job[j].event
  /\ \A i, j \in Jobs : Active(i) /\ Active(j) /\ job[i].event = job[j].event => i = j

\* The ring numbers its frames without a gap, and holds the one frame that the
\* event's publisher has for the person.
RingOK(p) ==
  LET ring == log[p].ring
  IN \A i \in 1..Len(ring) :
       /\ ring[i].id = ring[1].id + i - 1
       /\ ring[i].event \in 1..events
       /\ \A j \in Jobs : Active(j) /\ job[j].event = ring[i].event => Stamps(j, p, ring[i])

\* What is queued is queued once, is the frame that the ring has, and its
\* publisher will not come again.
QueueOK(c) ==
  conn[c].pc # "off" =>
    LET queue == conn[c].queue
        ring  == log[Person(c)].ring
    IN \A i \in 1..Len(queue) :
         /\ queue[i].event \in 1..events
         /\ \A k \in 1..Len(queue) : queue[k].event = queue[i].event => k = i
         /\ \A k \in 1..Len(ring) : ring[k].event = queue[i].event => ring[k] = queue[i]
         /\ \A j \in Jobs : Active(j) /\ job[j].event = queue[i].event =>
              Stamps(j, Person(c), queue[i]) /\ Passed(j, c)

\* What was written comes again only with a number that has been replayed.
WroteOK(c) ==
  conn[c].pc # "off" =>
    /\ \A e \in conn[c].wrote : e \in 1..events
    /\ \A i \in 1..Len(conn[c].queue) :
         conn[c].queue[i].event \in conn[c].wrote => conn[c].queue[i].id <= conn[c].upTo
    /\ \A j \in Jobs : Active(j) /\ job[j].event \in conn[c].wrote =>
         \/ Passed(j, c)
         \/ /\ Person(c) \in DOMAIN job[j].stamped
            /\ job[j].stamped[Person(c)].id <= conn[c].upTo

FrameInv ==
  /\ EventsOK
  /\ \A p \in Persons : RingOK(p)
  /\ \A c \in Clients : QueueOK(c) /\ WroteOK(c)

-----------------------------------------------------------------------------
(* The replay *)

Holds(ring, f) == \E i \in 1..Len(ring) : ring[i] = f

\* What was published under the log's present life is in its ring, or older
\* than the ring; its publisher pushes that very frame.
IssuedOK(i) ==
  LET ring == log[i.p].ring
  IN /\ i.f.event \in 1..events /\ i.f.lapse <= log[i.p].lapse
     /\ i.f.lapse = log[i.p].lapse =>
          /\ ring # <<>> /\ i.f.id <= LastOf(ring)
          /\ ring[1].id <= i.f.id => Holds(ring, i.f)
     /\ \A j \in Jobs : Active(j) /\ job[j].event = i.f.event => Stamps(j, i.p, i.f)

\* The publisher is yet to come to the bucket that the person's streams are in.
Coming(j, p) ==
  /\ Active(j)
  /\ \/ p \in job[j].todo
     \/ job[j].pc = "push" /\ job[j].key = p /\ job[j].bucket = registry[p]

Resumed(c) == conn[c].pc = "live" /\ ~ conn[c].room /\ conn[c].from # NoPoint

\* What is due to a stream that was resumed, and how it gets there.
Due(c, i) == i.p = Person(c) /\ i.f.lapse = conn[c].from.lapse /\ i.f.id > conn[c].from.id

ResumeOK(c) ==
  Resumed(c) =>
    /\ conn[c].from.lapse <= log[Person(c)].lapse
    /\ conn[c].from.lapse = log[Person(c)].lapse => conn[c].upTo <= LastOf(log[Person(c)].ring)
    /\ \A i \in issued : Due(c, i) =>
         /\ i.f.id <= conn[c].upTo => i.f.event \in conn[c].wrote
         /\ \/ i.f.event \in conn[c].wrote \/ Holds(conn[c].queue, i.f) \/ i.f.event \in conn[c].lost
            \/ \E j \in Jobs : job[j].event = i.f.event /\ Coming(j, Person(c))

\* A point is resumed from when the stream goes live.
FromOK(c) == conn[c].pc \notin {"off", "live"} => conn[c].from = NoPoint

ReplayInv ==
  /\ \A i \in issued : IssuedOK(i)
  /\ \A c \in Clients : ResumeOK(c) /\ FromOK(c)

-----------------------------------------------------------------------------
(* Steps keep the types *)

\* What the assumptions say of a client's keys.
LEMMA KeysOf ==
    ASSUME NEW c \in Clients
    PROVE  /\ AccountOf[c] \in Accounts /\ AccountOf[c] \in Keys /\ AccountOf[c] \notin Persons
           /\ Person(c) \in Persons /\ Person(c) \in Keys /\ Person(c) \notin Accounts
BY SseAssumption DEF Person, Keys

LEMMA BoundsOK == /\ MaxConns \in Nat \ {0} /\ RingDepth \in Nat \ {0} /\ Buffer \in Nat \ {0}
                  /\ MaxBuckets \in Nat /\ MaxLapses \in Nat
BY SseAssumption

\* A step of one client leaves the others' connections alone.
LEMMA ConnStep ==
    ASSUME TypeInv, NEW c \in Clients, NEW v, conn' = [conn EXCEPT ![c] = v]
    PROVE  /\ conn' = [d \in Clients |-> conn'[d]] /\ conn'[c] = v
           /\ \A d \in Clients \ {c} : conn'[d] = conn[d] /\ ConnOK(d)'
BY DEF TypeInv, ConnOK, Person

\* The type invariant from its parts, for a step of a client ...
LEMMA ClientType ==
    ASSUME TypeInv, NEW c \in Clients, NEW v, conn' = [conn EXCEPT ![c] = v],
           v.pc # "off" =>
             /\ v \in Sessions /\ v.key \in {AccountOf[c], Person(c)}
             /\ v.pc \in {"join", "unjoin"} => v.bucket # None
             /\ v.pc \notin {"load", "join", "unjoin"} => v.bucket = None,
           job' = job, issued' = issued, opens' \in Nat, events' = events,
           registry' \in [Keys -> Address],
           buckets' \in [1..MaxBuckets -> [members : SUBSET Clients, dead : BOOLEAN]],
           log' \in [Persons -> [ring : Seq(Frames), lapse : Nat]],
           client' \in [Clients -> Points]
    PROVE  TypeInv'
<1>1. /\ conn' = [d \in Clients |-> conn'[d]] /\ conn'[c] = v
      /\ \A d \in Clients \ {c} : ConnOK(d)'
  BY ConnStep
<1>2. ConnOK(c)'
  BY <1>1 DEF ConnOK, Person
<1>3. \A j \in Jobs : JobOK(j)'
  BY DEF TypeInv, JobOK, Pending
<1> QED
  BY <1>1, <1>2, <1>3 DEF TypeInv

\* ... and of a publisher.
LEMMA JobType ==
    ASSUME TypeInv, NEW j \in Jobs, NEW v, job' = [job EXCEPT ![j] = v],
           JobOK(j)', conn' = [c \in Clients |-> conn'[c]], \A c \in Clients : ConnOK(c)',
           registry' = registry, buckets' = buckets, client' = client, opens' = opens, events' \in Nat,
           log' \in [Persons -> [ring : Seq(Frames), lapse : Nat]],
           issued' \subseteq [p : Persons, f : Frames]
    PROVE  TypeInv'
<1>1. job' = [i \in Jobs |-> job'[i]]
  BY DEF TypeInv
<1>2. \A i \in Jobs : JobOK(i)'
  <2>1. \A i \in Jobs : i # j => job'[i] = job[i]
    BY DEF TypeInv
  <2> QED
    BY <2>1 DEF TypeInv, JobOK, Pending
<1> QED
  BY <1>1, <1>2 DEF TypeInv

\* A session that goes on, and one that takes or drops an address.
Moved(s, pc) == [s EXCEPT !.pc = pc]
Placed(s, pc, b) == [s EXCEPT !.pc = pc, !.bucket = b]

SameBut(s, v) ==
  /\ v.home = s.home /\ v.room = s.room /\ v.queue = s.queue /\ v.lost = s.lost
  /\ v.wrote = s.wrote /\ v.upTo = s.upTo /\ v.from = s.from

LEMMA MovedRecord ==
    ASSUME NEW s \in Sessions, NEW pc \in Stages
    PROVE  /\ Moved(s, pc) \in Sessions /\ Moved(s, pc).pc = pc /\ Moved(s, pc).key = s.key
           /\ Moved(s, pc).bucket = s.bucket /\ SameBut(s, Moved(s, pc))
BY DEF Sessions, Moved, SameBut

LEMMA PlacedRecord ==
    ASSUME NEW s \in Sessions, NEW pc \in Stages, NEW b \in Address
    PROVE  /\ Placed(s, pc, b) \in Sessions /\ Placed(s, pc, b).pc = pc /\ Placed(s, pc, b).key = s.key
           /\ Placed(s, pc, b).bucket = b /\ SameBut(s, Placed(s, pc, b))
BY DEF Sessions, Placed, SameBut

\* What a step of a session that is not off starts from.
LEMMA SessionOf ==
    ASSUME TypeInv, NEW c \in Clients, conn[c].pc # "off"
    PROVE  /\ conn[c] \in Sessions /\ conn[c].key \in {AccountOf[c], Person(c)} /\ conn[c].key \in Keys
           /\ conn[c].pc \in {"join", "unjoin"} => conn[c].bucket \in 1..MaxBuckets
           /\ conn[c].pc \notin {"load", "join", "unjoin"} => conn[c].bucket = None
           /\ registry[conn[c].key] \in Address
BY KeysOf DEF TypeInv, ConnOK, Sessions, Address, None

\* The connection that is opened.
LEMMA OpenType ==
    ASSUME TypeInv, NEW c \in Clients, Open(c)
    PROVE  TypeInv'
<1> PICK room \in BOOLEAN : conn' = [conn EXCEPT ![c] =
         [pc |-> "load", key |-> AccountOf[c], bucket |-> None, home |-> None, room |-> room,
          seq |-> opens + 1, queue |-> <<>>, lost |-> {}, wrote |-> {},
          upTo |-> 0, from |-> NoPoint]]
  BY DEF Open
<1> DEFINE v == [pc |-> "load", key |-> AccountOf[c], bucket |-> None, home |-> None, room |-> room,
          seq |-> opens + 1, queue |-> <<>>, lost |-> {}, wrote |-> {},
          upTo |-> 0, from |-> NoPoint]
<1>1. v \in Sessions /\ v.key = AccountOf[c] /\ v.pc = "load"
  <2>1. /\ "load" \in Stages /\ AccountOf[c] \in Keys /\ None \in Address /\ opens + 1 \in Nat
        /\ <<>> \in Seq(Frames) /\ {} \in SUBSET Nat /\ 0 \in Nat /\ NoPoint \in Points
    BY KeysOf, BoundsOK DEF Stages, Address, None, NoPoint, Points, TypeInv
  <2> QED
    BY <2>1 DEF Sessions
<1>2. conn' = [conn EXCEPT ![c] = v]
  OBVIOUS
<1>3. /\ opens' \in Nat
      /\ UNCHANGED <<registry, buckets, log, issued, job, client, events>>
  BY DEF Open, streams, record, TypeInv
<1> HIDE DEF v
<1> QED
  BY <1>1, <1>2, <1>3, ClientType DEF TypeInv

\* An address that is taken is an address.
LEMMA NewAddress ==
    ASSUME Unused # {}
    PROVE  (CHOOSE b \in Unused : TRUE) \in Unused /\ Unused \subseteq 1..MaxBuckets
BY DEF Unused

\* What a load does: it takes the registered bucket, or registers a new one.
LEMMA LoadFacts ==
    ASSUME TypeInv, NEW c \in Clients, Load(c)
    PROVE  \E b \in 1..MaxBuckets :
             /\ conn' = [conn EXCEPT ![c] = Placed(conn[c], "join", b)]
             /\ \/ registry[conn[c].key] = b /\ UNCHANGED <<registry, buckets>>
                \/ /\ registry[conn[c].key] = None /\ b \in Unused
                   /\ registry' = [registry EXCEPT ![conn[c].key] = b]
                   /\ buckets' = [buckets EXCEPT ![b] = Empty]
<1>1. conn[c].pc # "off"
  BY DEF Load
<1>2. CASE /\ registry[conn[c].key] # None
           /\ conn' = [conn EXCEPT ![c].pc = "join", ![c].bucket = registry[conn[c].key]]
           /\ UNCHANGED streams
  <2>1. registry[conn[c].key] \in 1..MaxBuckets
    BY <1>1, <1>2, SessionOf, SseAssumption DEF Address, None
  <2>2. conn' = [conn EXCEPT ![c] = [conn[c] EXCEPT !.pc = "join", !.bucket = registry[conn[c].key]]]
    BY <1>2 DEF TypeInv
  <2> QED
    BY <1>2, <2>1, <2>2 DEF streams, Placed
<1>3. CASE /\ registry[conn[c].key] = None /\ Unused # {}
           /\ registry' = [registry EXCEPT ![conn[c].key] = CHOOSE b \in Unused : TRUE]
           /\ buckets' = [buckets EXCEPT ![CHOOSE b \in Unused : TRUE] = Empty]
           /\ conn' = [conn EXCEPT ![c].pc = "join", ![c].bucket = CHOOSE b \in Unused : TRUE]
  <2>1. PICK b \in Unused : b = CHOOSE x \in Unused : TRUE
    BY <1>3, NewAddress
  <2>2. b \in 1..MaxBuckets
    BY <1>3, NewAddress
  <2>3. conn' = [conn EXCEPT ![c] = [conn[c] EXCEPT !.pc = "join", !.bucket = b]]
    BY <1>3, <2>1 DEF TypeInv
  <2> QED
    BY <1>3, <2>1, <2>2, <2>3 DEF Placed
<1> QED
  BY <1>2, <1>3 DEF Load

LEMMA LoadType ==
    ASSUME TypeInv, NEW c \in Clients, Load(c)
    PROVE  TypeInv'
<1>1. PICK b \in 1..MaxBuckets :
             /\ conn' = [conn EXCEPT ![c] = Placed(conn[c], "join", b)]
             /\ \/ registry[conn[c].key] = b /\ UNCHANGED <<registry, buckets>>
                \/ /\ registry[conn[c].key] = None /\ b \in Unused
                   /\ registry' = [registry EXCEPT ![conn[c].key] = b]
                   /\ buckets' = [buckets EXCEPT ![b] = Empty]
  BY LoadFacts
<1>2. conn[c].pc # "off"
  BY DEF Load
<1>3. b \in Address /\ b # None /\ "join" \in Stages
  BY SseAssumption DEF Address, None, Stages
<1>4. /\ Placed(conn[c], "join", b) \in Sessions /\ Placed(conn[c], "join", b).pc = "join"
      /\ Placed(conn[c], "join", b).bucket = b /\ Placed(conn[c], "join", b).key = conn[c].key
  BY <1>2, <1>3, SessionOf, PlacedRecord
<1>5. /\ registry' \in [Keys -> Address]
      /\ buckets' \in [1..MaxBuckets -> [members : SUBSET Clients, dead : BOOLEAN]]
  <2>1. Empty \in [members : SUBSET Clients, dead : BOOLEAN]
    BY DEF Empty
  <2>2. registry' = registry \/ registry' = [registry EXCEPT ![conn[c].key] = b]
    BY <1>1
  <2>3. buckets' = buckets \/ buckets' = [buckets EXCEPT ![b] = Empty]
    BY <1>1
  <2>4. registry' \in [Keys -> Address]
    BY <1>3, <2>2 DEF TypeInv
  <2>5. buckets' \in [1..MaxBuckets -> [members : SUBSET Clients, dead : BOOLEAN]]
    BY <2>1, <2>3 DEF TypeInv
  <2> QED
    BY <2>4, <2>5
<1>6. UNCHANGED <<job, issued, opens, events, log, client>>
  BY DEF Load, record, bounds
<1> QED
  BY <1>1, <1>2, <1>3, <1>4, <1>5, <1>6, SessionOf, ClientType DEF TypeInv

\* The other things that become of a session.
Homed(s, k) == [s EXCEPT !.pc = "load", !.key = k, !.bucket = None, !.home = s.bucket]
Settled(s, pc) == [s EXCEPT !.pc = pc, !.home = None]
Replayed(s, from, wrote, upTo) == [s EXCEPT !.pc = "live", !.from = from, !.wrote = wrote, !.upTo = upTo]
Took(s, wrote) == [s EXCEPT !.queue = Tail(@), !.wrote = wrote]
Left(s, k) == [s EXCEPT !.pc = "find", !.key = k, !.queue = <<>>, !.lost = {}, !.wrote = {},
                        !.upTo = 0, !.from = NoPoint]
Turned(s, k) == [s EXCEPT !.pc = "find", !.key = k, !.bucket = None]

LEMMA StagesOK ==
    /\ Stages = Stages \cup {"load", "join", "prune", "evict", "resume", "live", "find", "unjoin", "close"}
    /\ None \in Address /\ NoPoint \in Points
BY BoundsOK DEF Stages, Address, None, NoPoint, Points

LEMMA HomedRecord ==
    ASSUME NEW s \in Sessions, NEW k \in Keys
    PROVE  LET v == Homed(s, k)
           IN /\ Homed(s, k) \in Sessions /\ v.pc = "load" /\ v.key = k /\ v.bucket = None /\ v.home = s.bucket
              /\ v.room = s.room /\ v.queue = s.queue /\ v.lost = s.lost /\ v.wrote = s.wrote
              /\ v.upTo = s.upTo /\ v.from = s.from
<1>1. "load" \in Stages /\ None \in Address
  BY StagesOK
<1> QED
  BY <1>1 DEF Sessions, Homed

LEMMA SettledRecord ==
    ASSUME NEW s \in Sessions, NEW pc \in Stages
    PROVE  LET v == Settled(s, pc)
           IN /\ Settled(s, pc) \in Sessions /\ v.pc = pc /\ v.key = s.key /\ v.bucket = s.bucket /\ v.home = None
              /\ v.room = s.room /\ v.queue = s.queue /\ v.lost = s.lost /\ v.wrote = s.wrote
              /\ v.upTo = s.upTo /\ v.from = s.from
<1>1. None \in Address
  BY StagesOK
<1> QED
  BY <1>1 DEF Sessions, Settled

LEMMA ReplayedRecord ==
    ASSUME NEW s \in Sessions, NEW from \in Points, NEW wrote \in SUBSET Nat, NEW upTo \in Nat
    PROVE  LET v == Replayed(s, from, wrote, upTo)
           IN /\ Replayed(s, from, wrote, upTo) \in Sessions /\ v.pc = "live" /\ v.key = s.key
              /\ v.bucket = s.bucket /\ v.home = s.home
              /\ v.room = s.room /\ v.queue = s.queue /\ v.lost = s.lost /\ v.wrote = wrote
              /\ v.upTo = upTo /\ v.from = from
BY DEF Sessions, Replayed, Stages

LEMMA TookRecord ==
    ASSUME NEW s \in Sessions, NEW wrote \in SUBSET Nat, s.queue # <<>>
    PROVE  LET v == Took(s, wrote)
           IN /\ Took(s, wrote) \in Sessions /\ v.pc = s.pc /\ v.key = s.key
              /\ v.bucket = s.bucket /\ v.home = s.home
              /\ v.room = s.room /\ v.queue = Tail(s.queue) /\ v.lost = s.lost /\ v.wrote = wrote
              /\ v.upTo = s.upTo /\ v.from = s.from
<1>1. Tail(s.queue) \in Seq(Frames)
  BY DEF Sessions
<1> QED
  BY <1>1 DEF Sessions, Took

LEMMA LeftRecord ==
    ASSUME NEW s \in Sessions, NEW k \in Keys
    PROVE  LET v == Left(s, k)
           IN /\ Left(s, k) \in Sessions /\ v.pc = "find" /\ v.key = k
              /\ v.bucket = s.bucket /\ v.home = s.home
              /\ v.room = s.room /\ v.queue = <<>> /\ v.lost = {} /\ v.wrote = {}
              /\ v.upTo = 0 /\ v.from = NoPoint
<1>1. "find" \in Stages /\ NoPoint \in Points /\ <<>> \in Seq(Frames) /\ {} \in SUBSET Nat /\ 0 \in Nat
  BY StagesOK
<1> QED
  BY <1>1 DEF Sessions, Left

LEMMA TurnedRecord ==
    ASSUME NEW s \in Sessions, NEW k \in Keys
    PROVE  /\ Turned(s, k) \in Sessions /\ Turned(s, k).pc = "find" /\ Turned(s, k).key = k
           /\ Turned(s, k).bucket = None /\ SameBut(s, Turned(s, k))
<1>1. "find" \in Stages /\ None \in Address
  BY StagesOK
<1> QED
  BY <1>1 DEF Sessions, Turned, SameBut

LEMMA JoinFacts ==
    ASSUME TypeInv, NEW c \in Clients, Join(c)
    PROVE  \/ /\ buckets[conn[c].bucket].dead /\ buckets' = buckets
              /\ conn' = [conn EXCEPT ![c] = Moved(conn[c], "load")]
           \/ /\ ~ buckets[conn[c].bucket].dead
              /\ buckets' = [buckets EXCEPT ![conn[c].bucket].members = @ \cup {c}]
              /\ \/ conn[c].key \in Accounts /\ conn' = [conn EXCEPT ![c] = Homed(conn[c], Person(c))]
                 \/ conn[c].key \notin Accounts /\ conn' = [conn EXCEPT ![c] = Placed(conn[c], "prune", None)]
<1>1. CASE buckets[conn[c].bucket].dead /\ Goto(c, "load") /\ UNCHANGED buckets
  BY <1>1 DEF Goto, Moved
<1>2. CASE ~ buckets[conn[c].bucket].dead /\ Joined(c)
  <2>1. CASE conn[c].key \in Accounts
    BY <1>2, <2>1 DEF Joined, Homed
  <2>2. CASE conn[c].key \notin Accounts
    BY <1>2, <2>2 DEF Joined, Placed
  <2> QED
    BY <2>1, <2>2
<1> QED
  BY <1>1, <1>2 DEF Join

\* Adding to a bucket, or taking from it, leaves a bucket.
LEMMA BucketType ==
    ASSUME TypeInv, NEW b, NEW members \in SUBSET Clients, NEW dead \in BOOLEAN
    PROVE  /\ [buckets EXCEPT ![b] = [members |-> members, dead |-> dead]]
                \in [1..MaxBuckets -> [members : SUBSET Clients, dead : BOOLEAN]]
           /\ [buckets EXCEPT ![b].members = members] \in [1..MaxBuckets -> [members : SUBSET Clients, dead : BOOLEAN]]
BY DEF TypeInv

LEMMA JoinType ==
    ASSUME TypeInv, NEW c \in Clients, Join(c)
    PROVE  TypeInv'
<1>0. conn[c].pc = "join" /\ UNCHANGED <<registry, log, issued, job, client, opens, events>>
  BY DEF Join, record, bounds
<1>1. conn[c] \in Sessions /\ conn[c].bucket \in 1..MaxBuckets
  BY <1>0, SessionOf
<1>2. CASE buckets' = buckets /\ conn' = [conn EXCEPT ![c] = Moved(conn[c], "load")]
  <2>1. LET v == Moved(conn[c], "load")
        IN v \in Sessions /\ v.pc = "load" /\ v.key = conn[c].key /\ v.bucket = conn[c].bucket
    BY <1>1, StagesOK, MovedRecord
  <2> QED
    BY <1>0, <1>2, <2>1, SessionOf, ClientType DEF TypeInv
<1>3. ASSUME buckets' = [buckets EXCEPT ![conn[c].bucket].members = @ \cup {c}]
      PROVE  buckets' \in [1..MaxBuckets -> [members : SUBSET Clients, dead : BOOLEAN]]
  <2>1. buckets[conn[c].bucket].members \cup {c} \in SUBSET Clients
    BY <1>1 DEF TypeInv
  <2> QED
    BY <1>3, <2>1, BucketType
<1>4. CASE /\ buckets' = [buckets EXCEPT ![conn[c].bucket].members = @ \cup {c}]
           /\ conn' = [conn EXCEPT ![c] = Homed(conn[c], Person(c))]
  <2>1. LET v == Homed(conn[c], Person(c)) IN v \in Sessions /\ v.pc = "load" /\ v.key = Person(c)
    BY <1>1, KeysOf, HomedRecord
  <2> QED
    BY <1>0, <1>3, <1>4, <2>1, ClientType DEF TypeInv
<1>5. CASE /\ buckets' = [buckets EXCEPT ![conn[c].bucket].members = @ \cup {c}]
           /\ conn' = [conn EXCEPT ![c] = Placed(conn[c], "prune", None)]
  <2>1. LET v == Placed(conn[c], "prune", None)
        IN v \in Sessions /\ v.pc = "prune" /\ v.key = conn[c].key /\ v.bucket = None
    BY <1>1, StagesOK, PlacedRecord
  <2> QED
    BY <1>0, <1>3, <1>5, <2>1, SessionOf, ClientType DEF TypeInv
<1> QED
  BY <1>2, <1>4, <1>5, JoinFacts

\* A log loses its ring or stays as it is.
Lapsed(p) == log'[p].ring = <<>> /\ log'[p].lapse = log[p].lapse + 1

LEMMA PruneFacts ==
    ASSUME TypeInv, NEW c \in Clients, Prune(c)
    PROVE  /\ \/ conn[c].room /\ conn' = [conn EXCEPT ![c] = Settled(conn[c], "live")]
              \/ ~ conn[c].room /\ conn' = [conn EXCEPT ![c] = Moved(conn[c], "evict")]
           /\ log' \in [Persons -> [ring : Seq(Frames), lapse : Nat]]
           /\ \A p \in Persons : log'[p] = log[p] \/ Lapsed(p)
<1>1. \/ conn[c].room /\ conn' = [conn EXCEPT ![c] = Settled(conn[c], "live")]
      \/ ~ conn[c].room /\ conn' = [conn EXCEPT ![c] = Moved(conn[c], "evict")]
  BY DEF Prune, Settled, Moved
<1> PICK stale \in SUBSET Persons :
      log' = [p \in Persons |->
         IF p \in stale THEN [ring |-> <<>>, lapse |-> log[p].lapse + 1] ELSE log[p]]
  BY DEF Prune
<1>2. \A p \in Persons : log[p].lapse + 1 \in Nat /\ log[p] \in [ring : Seq(Frames), lapse : Nat]
  BY DEF TypeInv
<1>3. <<>> \in Seq(Frames)
  OBVIOUS
<1>4. log' \in [Persons -> [ring : Seq(Frames), lapse : Nat]]
  BY <1>2, <1>3
<1>5. \A p \in Persons : log'[p] = log[p] \/ Lapsed(p)
  BY DEF Lapsed
<1> QED
  BY <1>1, <1>4, <1>5

LEMMA PruneType ==
    ASSUME TypeInv, NEW c \in Clients, Prune(c)
    PROVE  TypeInv'
<1>0. conn[c].pc = "prune" /\ UNCHANGED <<registry, buckets, issued, job, client, opens, events>>
  BY DEF Prune, streams, bounds
<1>1. conn[c] \in Sessions /\ conn[c].bucket = None /\ conn[c].key \in {AccountOf[c], Person(c)}
  BY <1>0, SessionOf
<1>2. log' \in [Persons -> [ring : Seq(Frames), lapse : Nat]]
  BY PruneFacts
<1>3. CASE conn' = [conn EXCEPT ![c] = Settled(conn[c], "live")]
  <2>1. LET v == Settled(conn[c], "live") IN v \in Sessions /\ v.pc = "live" /\ v.key = conn[c].key /\ v.bucket = None
    BY <1>1, StagesOK, SettledRecord
  <2> QED
    BY <1>0, <1>1, <1>2, <1>3, <2>1, ClientType DEF TypeInv
<1>4. CASE conn' = [conn EXCEPT ![c] = Moved(conn[c], "evict")]
  <2>1. LET v == Moved(conn[c], "evict") IN v \in Sessions /\ v.pc = "evict" /\ v.key = conn[c].key /\ v.bucket = None
    BY <1>1, StagesOK, MovedRecord
  <2> QED
    BY <1>0, <1>1, <1>2, <1>4, <2>1, ClientType DEF TypeInv
<1> QED
  BY <1>3, <1>4, PruneFacts

LEMMA EvictFacts ==
    ASSUME TypeInv, NEW c \in Clients, Evict(c)
    PROVE  /\ conn' = [conn EXCEPT ![c] = Settled(conn[c], "resume")]
           /\ buckets' = [buckets EXCEPT ![conn[c].home].members = @ \ Surplus(c)]
BY DEF Evict, Settled, TypeInv

LEMMA EvictType ==
    ASSUME TypeInv, NEW c \in Clients, Evict(c)
    PROVE  /\ TypeInv'
           /\ \A b \in 1..MaxBuckets : /\ buckets'[b].dead = buckets[b].dead
                                       /\ buckets'[b].members \subseteq buckets[b].members
                                       /\ b # conn[c].home => buckets'[b] = buckets[b]
<1>0. conn[c].pc = "evict" /\ UNCHANGED <<registry, log, issued, job, client, opens, events>>
  BY DEF Evict, record, bounds
<1>1. conn[c] \in Sessions /\ conn[c].bucket = None /\ conn[c].key \in {AccountOf[c], Person(c)}
  BY <1>0, SessionOf
<1>2. /\ buckets' \in [1..MaxBuckets -> [members : SUBSET Clients, dead : BOOLEAN]]
      /\ \A b \in 1..MaxBuckets : /\ buckets'[b].dead = buckets[b].dead
                                  /\ buckets'[b].members \subseteq buckets[b].members
                                  /\ b # conn[c].home => buckets'[b] = buckets[b]
  <2>1. buckets' = [buckets EXCEPT ![conn[c].home].members = @ \ Surplus(c)]
    BY EvictFacts
  <2>2. \A b \in 1..MaxBuckets : buckets[b] \in [members : SUBSET Clients, dead : BOOLEAN]
    BY DEF TypeInv
  <2>3. buckets' \in [1..MaxBuckets -> [members : SUBSET Clients, dead : BOOLEAN]]
    BY <2>1, <2>2 DEF TypeInv
  <2>4. \A b \in 1..MaxBuckets : b # conn[c].home => buckets'[b] = buckets[b]
    BY <2>1 DEF TypeInv
  <2>5. ASSUME conn[c].home \in 1..MaxBuckets
        PROVE  buckets'[conn[c].home] = [buckets[conn[c].home] EXCEPT !.members = @ \ Surplus(c)]
    BY <2>1, <2>5 DEF TypeInv
  <2>6. \A b \in 1..MaxBuckets : buckets'[b].dead = buckets[b].dead /\ buckets'[b].members \subseteq buckets[b].members
    BY <2>2, <2>4, <2>5
  <2> QED
    BY <2>3, <2>4, <2>6
<1>3. LET v == Settled(conn[c], "resume")
      IN v \in Sessions /\ v.pc = "resume" /\ v.key = conn[c].key /\ v.bucket = None
  BY <1>1, StagesOK, SettledRecord
<1>4. TypeInv'
  BY <1>0, <1>1, <1>2, <1>3, EvictFacts, ClientType DEF TypeInv
<1> QED
  BY <1>2, <1>4

\* The last number of a ring.
LEMMA LastOfOK ==
    ASSUME NEW ring \in Seq(Frames)
    PROVE  LastOf(ring) \in Nat /\ (ring # <<>> => LastOf(ring) = ring[Len(ring)].id)
<1>1. CASE ring = <<>>
  BY <1>1 DEF LastOf
<1>2. CASE ring # <<>>
  <2>1. Len(ring) \in 1..Len(ring)
    BY <1>2
  <2>2. ring[Len(ring)] \in Frames
    BY <2>1
  <2> QED
    BY <1>2, <2>2 DEF LastOf, Frames
<1> QED
  BY <1>1, <1>2

\* What a resume does: the session is handed what it missed, or nothing.
LEMMA ResumeFacts ==
    ASSUME TypeInv, NEW c \in Clients, Resume(c)
    PROVE  \/ /\ Provable(log[Person(c)].ring, client[c].id)
              /\ \E from \in Points, wrote \in SUBSET Nat, upTo \in Nat :
                   /\ from = IF client[c].lapse = log[Person(c)].lapse THEN client[c] ELSE NoPoint
                   /\ wrote = {f.event : f \in Missed(log[Person(c)].ring, client[c].id)}
                   /\ upTo = IF Missed(log[Person(c)].ring, client[c].id) = {} THEN 0 ELSE LastOf(log[Person(c)].ring)
                   /\ conn' = [conn EXCEPT ![c] = Replayed(conn[c], from, wrote, upTo)]
           \/ conn' = [conn EXCEPT ![c] = Moved(conn[c], "live")]
<1>1. CASE ~ Provable(log[Person(c)].ring, client[c].id)
  BY <1>1 DEF Resume, Goto, Moved
<1>2. CASE Provable(log[Person(c)].ring, client[c].id)
  <2> DEFINE ring == log[Person(c)].ring
             missed == Missed(ring, client[c].id)
             from == IF client[c].lapse = log[Person(c)].lapse THEN client[c] ELSE NoPoint
             wrote == {f.event : f \in missed}
             upTo == IF missed = {} THEN 0 ELSE LastOf(ring)
  <2>1. conn' = [conn EXCEPT ![c].pc = "live", ![c].from = from, ![c].wrote = wrote, ![c].upTo = upTo]
    BY <1>2 DEF Resume
  <2>2. ring \in Seq(Frames) /\ client[c] \in Points
    BY KeysOf DEF TypeInv
  <2>3. from \in Points
    BY <2>2, StagesOK
  <2>4. wrote \in SUBSET Nat
    <3>1. \A i \in 1..Len(ring) : ring[i] \in Frames
      BY <2>2
    <3>2. ASSUME NEW f \in missed PROVE f.event \in Nat
      <4>1. PICK i \in DOMAIN ring : f = ring[i]
        BY <3>2 DEF Missed, ToSet
      <4>2. i \in 1..Len(ring)
        BY <2>2, <4>1
      <4> HIDE DEF ring
      <4> QED
        BY <3>1, <4>1, <4>2 DEF Frames
    <3> HIDE DEF missed
    <3> QED
      BY <3>2
  <2>5. upTo \in Nat
    BY <2>2, LastOfOK
  <2> HIDE DEF from, wrote, upTo
  <2>6. conn' = [conn EXCEPT ![c] = Replayed(conn[c], from, wrote, upTo)]
    BY <2>1 DEF Replayed, TypeInv
  <2> QED
    <3>1. \E x \in Points, y \in SUBSET Nat, z \in Nat :
            x = from /\ y = wrote /\ z = upTo /\ conn' = [conn EXCEPT ![c] = Replayed(conn[c], x, y, z)]
      BY <2>3, <2>4, <2>5, <2>6
    <3> QED
      BY <1>2, <3>1 DEF from, wrote, upTo
<1> QED
  BY <1>1, <1>2

LEMMA ResumeType ==
    ASSUME TypeInv, NEW c \in Clients, Resume(c)
    PROVE  TypeInv'
<1>0. conn[c].pc = "resume" /\ UNCHANGED <<registry, buckets, log, issued, job, opens, events>>
  BY DEF Resume, streams, record, bounds
<1>1. conn[c] \in Sessions /\ conn[c].bucket = None
  BY <1>0, SessionOf
<1>2. client' \in [Clients -> Points]
  <2>1. log[Person(c)].ring \in Seq(Frames) /\ log[Person(c)].lapse \in Nat
    BY KeysOf DEF TypeInv
  <2>2. [lapse |-> log[Person(c)].lapse, id |-> LastOf(log[Person(c)].ring)] \in Points
    BY <2>1, LastOfOK DEF Points
  <2>3. \/ client' = client
        \/ client' = [client EXCEPT ![c] = [lapse |-> log[Person(c)].lapse, id |-> LastOf(log[Person(c)].ring)]]
    BY DEF Resume
  <2> QED
    BY <2>2, <2>3 DEF TypeInv
<1>3. \A v : conn' = [conn EXCEPT ![c] = v] /\ v \in Sessions /\ v.pc = "live" /\ v.key = conn[c].key /\ v.bucket = None
         => TypeInv'
  BY <1>0, <1>2, SessionOf, ClientType DEF TypeInv
<1>4. LET v == Moved(conn[c], "live")
      IN v \in Sessions /\ v.pc = "live" /\ v.key = conn[c].key /\ v.bucket = None
  BY <1>1, StagesOK, MovedRecord
<1>5. ASSUME NEW from \in Points, NEW wrote \in SUBSET Nat, NEW upTo \in Nat
      PROVE  LET v == Replayed(conn[c], from, wrote, upTo)
             IN v \in Sessions /\ v.pc = "live" /\ v.key = conn[c].key /\ v.bucket = None
  BY <1>1, <1>5, ReplayedRecord
<1>6. CASE conn' = [conn EXCEPT ![c] = Moved(conn[c], "live")]
  BY <1>3, <1>4, <1>6
<1>7. CASE \E from \in Points, wrote \in SUBSET Nat, upTo \in Nat :
             conn' = [conn EXCEPT ![c] = Replayed(conn[c], from, wrote, upTo)]
  BY <1>3, <1>5, <1>7
<1> QED
  BY <1>6, <1>7, ResumeFacts

\* What a read does: the frame leaves the queue, and is told or is not.
LEMMA ReadFacts ==
    ASSUME TypeInv, NEW c \in Clients, Read(c)
    PROVE  /\ Head(conn[c].queue) \in Frames
           /\ \E wrote \in SUBSET Nat :
                /\ conn' = [conn EXCEPT ![c] = Took(conn[c], wrote)]
                /\ \/ /\ ~ conn[c].room /\ Told(c, Head(conn[c].queue))
                      /\ wrote = conn[c].wrote \cup {Head(conn[c].queue).event}
                   \/ /\ conn[c].room \/ ~ Told(c, Head(conn[c].queue))
                      /\ wrote = conn[c].wrote
           /\ client' \in [Clients -> Points]
<1>0. conn[c].pc = "live" /\ conn[c].queue # <<>>
  BY DEF Read
<1>1. conn[c] \in Sessions
  BY <1>0, SessionOf
<1> DEFINE f == Head(conn[c].queue)
<1>2. f \in Frames
  <2>1. conn[c].queue \in Seq(Frames)
    BY <1>1 DEF Sessions
  <2> QED
    BY <1>0, <2>1
<1>3. f.event \in Nat /\ [lapse |-> f.lapse, id |-> f.id] \in Points /\ conn[c].wrote \in SUBSET Nat
  BY <1>1, <1>2 DEF Frames, Points, Sessions
<1> HIDE DEF f
<1>4. CASE /\ ~ conn[c].room /\ Told(c, f)
           /\ conn' = [conn EXCEPT ![c].queue = Tail(@), ![c].wrote = @ \cup {f.event}]
           /\ client' = [client EXCEPT ![c] = [lapse |-> f.lapse, id |-> f.id]]
  <2>1. conn' = [conn EXCEPT ![c] = Took(conn[c], conn[c].wrote \cup {f.event})]
    <3>1. [conn[c] EXCEPT !.queue = Tail(@)].wrote = conn[c].wrote
      BY <1>1 DEF Sessions
    <3> QED
      BY <1>4, <3>1 DEF Took, TypeInv
  <2>2. client' \in [Clients -> Points]
    BY <1>3, <1>4 DEF TypeInv
  <2>3. conn[c].wrote \cup {f.event} \in SUBSET Nat
    BY <1>3
  <2> QED
    BY <1>2, <1>4, <2>1, <2>2, <2>3 DEF f
<1>5. CASE /\ conn[c].room \/ ~ Told(c, f)
           /\ conn' = [conn EXCEPT ![c].queue = Tail(@)]
           /\ UNCHANGED client
  <2>1. conn' = [conn EXCEPT ![c] = Took(conn[c], conn[c].wrote)]
    <3>1. [conn[c] EXCEPT !.queue = Tail(@)] = Took(conn[c], conn[c].wrote)
      BY <1>1 DEF Sessions, Took
    <3> QED
      BY <1>5, <3>1
  <2> QED
    BY <1>2, <1>3, <1>5, <2>1 DEF f, TypeInv
<1> QED
  BY <1>4, <1>5 DEF Read, f

LEMMA ReadType ==
    ASSUME TypeInv, NEW c \in Clients, Read(c)
    PROVE  TypeInv'
<1>0. conn[c].pc = "live" /\ conn[c].queue # <<>> /\ UNCHANGED <<registry, buckets, log, issued, job, opens, events>>
  BY DEF Read, streams, record, bounds
<1>1. conn[c] \in Sessions /\ conn[c].bucket = None /\ conn[c].key \in {AccountOf[c], Person(c)}
  BY <1>0, SessionOf
<1>2. PICK wrote \in SUBSET Nat : conn' = [conn EXCEPT ![c] = Took(conn[c], wrote)]
  BY ReadFacts
<1>3. LET v == Took(conn[c], wrote)
      IN v \in Sessions /\ v.pc = "live" /\ v.key = conn[c].key /\ v.bucket = None
  BY <1>0, <1>1, TookRecord
<1> QED
  BY <1>0, <1>1, <1>2, <1>3, ReadFacts, ClientType DEF TypeInv

LEMMA LeaveFacts ==
    ASSUME TypeInv, NEW c \in Clients, Leave(c)
    PROVE  conn' = [conn EXCEPT ![c] = Left(conn[c], AccountOf[c])]
BY DEF Leave, Left

LEMMA LeaveType ==
    ASSUME TypeInv, NEW c \in Clients, Leave(c)
    PROVE  TypeInv'
<1>0. conn[c].pc = "live" /\ UNCHANGED <<registry, buckets, log, issued, job, client, opens, events>>
  BY DEF Leave, streams, record, bounds
<1>1. conn[c] \in Sessions /\ conn[c].bucket = None
  BY <1>0, SessionOf
<1>2. LET v == Left(conn[c], AccountOf[c])
      IN v \in Sessions /\ v.pc = "find" /\ v.key = AccountOf[c] /\ v.bucket = None
  BY <1>1, KeysOf, LeftRecord
<1> QED
  BY <1>0, <1>2, LeaveFacts, ClientType DEF TypeInv

\* Having left a bucket, or found none, a session turns to its person's or ends.
LEMMA UnjoinedFacts ==
    ASSUME TypeInv, NEW c \in Clients, conn[c].pc # "off"
    PROVE  /\ Unjoined(c) \in Sessions
           /\ Unjoined(c).bucket = None /\ SameBut(conn[c], Unjoined(c))
           /\ conn[c].key \in Accounts => Unjoined(c).pc = "find" /\ Unjoined(c).key = Person(c)
           /\ conn[c].key \notin Accounts => Unjoined(c).pc = "close" /\ Unjoined(c).key = conn[c].key
<1>1. conn[c] \in Sessions
  BY SessionOf
<1>2. CASE conn[c].key \in Accounts
  <2>1. Unjoined(c) = Turned(conn[c], Person(c))
    BY <1>2 DEF Unjoined, Turned
  <2> QED
    BY <1>1, <1>2, <2>1, KeysOf, TurnedRecord
<1>3. CASE conn[c].key \notin Accounts
  <2>1. Unjoined(c) = Placed(conn[c], "close", None)
    BY <1>3 DEF Unjoined, Placed
  <2>2. "close" \in Stages /\ None \in Address
    BY StagesOK
  <2> QED
    BY <1>1, <1>3, <2>1, <2>2, PlacedRecord
<1> QED
  BY <1>2, <1>3

LEMMA FindFacts ==
    ASSUME TypeInv, NEW c \in Clients, Find(c)
    PROVE  \/ registry[conn[c].key] = None /\ conn' = [conn EXCEPT ![c] = Unjoined(c)]
           \/ /\ registry[conn[c].key] \in 1..MaxBuckets
              /\ conn' = [conn EXCEPT ![c] = Placed(conn[c], "unjoin", registry[conn[c].key])]
<1>1. registry[conn[c].key] = None \/ registry[conn[c].key] \in 1..MaxBuckets
  BY SessionOf, BoundsOK DEF Find, Address, None
<1> QED
  BY <1>1, BoundsOK DEF Find, Placed, None

LEMMA FindType ==
    ASSUME TypeInv, NEW c \in Clients, Find(c)
    PROVE  TypeInv'
<1>0. conn[c].pc = "find" /\ UNCHANGED <<registry, buckets, log, issued, job, client, opens, events>>
  BY DEF Find, streams, record, bounds
<1>1. conn[c] \in Sessions /\ conn[c].key \in {AccountOf[c], Person(c)}
  BY <1>0, SessionOf
<1>2. CASE conn' = [conn EXCEPT ![c] = Unjoined(c)]
  <2>1. /\ Unjoined(c) \in Sessions /\ Unjoined(c).bucket = None
        /\ Unjoined(c).pc \in {"find", "close"} /\ Unjoined(c).key \in {AccountOf[c], Person(c)}
    BY <1>0, <1>1, UnjoinedFacts
  <2> QED
    BY <1>0, <1>2, <2>1, ClientType DEF TypeInv
<1>3. CASE /\ registry[conn[c].key] \in 1..MaxBuckets
           /\ conn' = [conn EXCEPT ![c] = Placed(conn[c], "unjoin", registry[conn[c].key])]
  <2>1. registry[conn[c].key] \in Address /\ registry[conn[c].key] # None /\ "unjoin" \in Stages
    BY <1>3, BoundsOK, StagesOK DEF Address, None
  <2>2. LET v == Placed(conn[c], "unjoin", registry[conn[c].key])
        IN v \in Sessions /\ v.pc = "unjoin" /\ v.key = conn[c].key /\ v.bucket # None
    BY <1>1, <2>1, PlacedRecord
  <2> QED
    BY <1>0, <1>1, <1>3, <2>2, ClientType DEF TypeInv
<1> QED
  BY <1>2, <1>3, FindFacts

\* What an unjoin does to the bucket and the registry.
LEMMA UnjoinFacts ==
    ASSUME TypeInv, NEW c \in Clients, Unjoin(c)
    PROVE  LET b == conn[c].bucket
               left == buckets[b].members \ {c}
           IN /\ b \in 1..MaxBuckets
              /\ buckets'[b].members = left
              /\ buckets'[b].dead = (buckets[b].dead \/ left = {})
              /\ \A a \in 1..MaxBuckets : a # b => buckets'[a] = buckets[a]
              /\ buckets' \in [1..MaxBuckets -> [members : SUBSET Clients, dead : BOOLEAN]]
              /\ \/ left # {} /\ registry' = registry
                 \/ left = {} /\ registry' = [registry EXCEPT ![conn[c].key] = None]
              /\ conn' = [conn EXCEPT ![c] = Unjoined(c)]
<1> DEFINE b == conn[c].bucket
           left == buckets[b].members \ {c}
           dead == buckets[b].dead \/ left = {}
<1>1. b \in 1..MaxBuckets
  BY SessionOf DEF Unjoin
<1>2. /\ buckets' = [buckets EXCEPT ![b] = [members |-> left, dead |-> dead]]
      /\ registry' = IF left = {} THEN [registry EXCEPT ![conn[c].key] = None] ELSE registry
      /\ conn' = [conn EXCEPT ![c] = Unjoined(c)]
  BY DEF Unjoin
<1>3. left \in SUBSET Clients /\ dead \in BOOLEAN
  BY <1>1 DEF TypeInv
<1>4. \/ left # {} /\ registry' = registry
      \/ left = {} /\ registry' = [registry EXCEPT ![conn[c].key] = None]
  BY <1>2
<1> HIDE DEF b, left, dead
<1>5. buckets' \in [1..MaxBuckets -> [members : SUBSET Clients, dead : BOOLEAN]]
  BY <1>2, <1>3, BucketType
<1>6. buckets'[b] = [members |-> left, dead |-> dead] /\ \A a \in 1..MaxBuckets : a # b => buckets'[a] = buckets[a]
  BY <1>1, <1>2 DEF TypeInv
<1> QED
  BY <1>1, <1>2, <1>4, <1>5, <1>6 DEF b, left, dead

LEMMA UnjoinType ==
    ASSUME TypeInv, NEW c \in Clients, Unjoin(c)
    PROVE  TypeInv'
<1>0. conn[c].pc = "unjoin" /\ UNCHANGED <<log, issued, job, client, opens, events>>
  BY DEF Unjoin, record, bounds
<1>1. conn[c] \in Sessions /\ conn[c].key \in {AccountOf[c], Person(c)}
  BY <1>0, SessionOf
<1>2. /\ Unjoined(c) \in Sessions /\ Unjoined(c).bucket = None
      /\ Unjoined(c).pc \in {"find", "close"} /\ Unjoined(c).key \in {AccountOf[c], Person(c)}
  BY <1>0, <1>1, UnjoinedFacts
<1>3. registry' \in [Keys -> Address]
  BY UnjoinFacts, StagesOK DEF TypeInv
<1>4. /\ buckets' \in [1..MaxBuckets -> [members : SUBSET Clients, dead : BOOLEAN]]
      /\ conn' = [conn EXCEPT ![c] = Unjoined(c)]
  BY UnjoinFacts
<1> QED
  BY <1>0, <1>2, <1>3, <1>4, ClientType DEF TypeInv

LEMMA CloseType ==
    ASSUME TypeInv, NEW c \in Clients, Close(c)
    PROVE  TypeInv'
<1>0. UNCHANGED <<registry, buckets, log, issued, job, client, opens, events>> /\ conn' = [conn EXCEPT ![c] = Off]
  BY DEF Close, streams, record, bounds
<1>1. Off.pc = "off"
  BY DEF Off
<1> QED
  BY <1>0, <1>1, ClientType DEF TypeInv

-----------------------------------------------------------------------------
(* Publishers keep the types *)

\* The ring that has recorded one frame more: it may have let its first go.
Shifted(old, new, f, s) ==
  /\ s \in {0, 1} /\ (s = 1 => old # <<>>)
  /\ Len(new) = Len(old) + 1 - s /\ new # <<>>
  /\ \A i \in 1..Len(new) : new[i] = IF i + s = Len(old) + 1 THEN f ELSE old[i + s]

LEMMA FrameOK ==
    ASSUME TypeInv, NEW p \in Persons, NEW e \in Nat
    PROVE  /\ Frame(p, e) \in Frames /\ Frame(p, e).event = e /\ Frame(p, e).lapse = log[p].lapse
           /\ Frame(p, e).id = LastOf(log[p].ring) + 1
<1>1. log[p].ring \in Seq(Frames) /\ log[p].lapse \in Nat
  BY DEF TypeInv
<1>2. LastOf(log[p].ring) \in Nat
  BY <1>1, LastOfOK
<1> QED
  BY <1>1, <1>2 DEF Frame, Frames

LEMMA LongSeq ==
    ASSUME NEW seq \in Seq(Frames), Len(seq) # 0
    PROVE  seq # <<>>
OBVIOUS

LEMMA RecordedOK ==
    ASSUME TypeInv, NEW p \in Persons, NEW f \in Frames
    PROVE  /\ Recorded(p, f) \in [Persons -> [ring : Seq(Frames), lapse : Nat]]
           /\ \A q \in Persons : q # p => Recorded(p, f)[q] = log[q]
           /\ Recorded(p, f)[p].lapse = log[p].lapse
           /\ \E s \in {0, 1} : Shifted(log[p].ring, Recorded(p, f)[p].ring, f, s)
<1> DEFINE old == log[p].ring
           ring == Append(old, f)
           new == IF Len(ring) > RingDepth THEN Tail(ring) ELSE ring
<1>1. old \in Seq(Frames) /\ log[p] \in [ring : Seq(Frames), lapse : Nat]
  BY DEF TypeInv
<1>2. ring \in Seq(Frames) /\ Len(ring) = Len(old) + 1 /\ Len(old) \in Nat
  BY <1>1
<1>3. \A i \in 1..Len(ring) : ring[i] = IF i = Len(old) + 1 THEN f ELSE old[i]
  BY <1>1
<1>4. Recorded(p, f) = [log EXCEPT ![p].ring = new]
  BY DEF Recorded
<1> HIDE DEF old, ring
<1>5. new \in Seq(Frames) /\ \E s \in {0, 1} : Shifted(old, new, f, s)
  <2>1. CASE Len(ring) > RingDepth
    <3>1. /\ ring # <<>> /\ old # <<>> /\ Tail(ring) \in Seq(Frames) /\ Len(Tail(ring)) = Len(ring) - 1
          /\ \A i \in 1..Len(Tail(ring)) : Tail(ring)[i] = ring[i + 1]
      <4>1. Len(ring) \in Nat /\ Len(ring) > 1
        BY <1>2, <2>1, BoundsOK
      <4>2. ring # <<>> /\ Len(old) # 0
        BY <1>2, <4>1
      <4>3. old # <<>>
        BY <1>1, <4>2
      <4>4. /\ Tail(ring) \in Seq(Frames) /\ Len(Tail(ring)) = Len(ring) - 1
            /\ \A i \in 1..Len(Tail(ring)) : Tail(ring)[i] = ring[i + 1]
        BY <1>2, <4>2, HeadTailProperties
      <4> QED
        BY <4>2, <4>3, <4>4
    <3>2. Tail(ring) # <<>>
      <4>1. Len(Tail(ring)) # 0
        BY <1>2, <2>1, <3>1, BoundsOK
      <4> QED
        BY <3>1, <4>1, LongSeq
    <3>3. \A i \in 1..Len(Tail(ring)) : i + 1 \in 1..Len(ring)
      BY <1>2, <3>1
    <3>4. Shifted(old, Tail(ring), f, 1)
      BY <1>2, <1>3, <3>1, <3>2, <3>3 DEF Shifted
    <3> QED
      BY <2>1, <3>1, <3>4
  <2>2. CASE ~ (Len(ring) > RingDepth)
    <3>1. ring # <<>>
      BY <1>2
    <3>2. Shifted(old, ring, f, 0)
      BY <1>2, <1>3, <3>1 DEF Shifted
    <3> QED
      BY <1>2, <2>2, <3>2
  <2> QED
    BY <2>1, <2>2
<1> HIDE DEF new
<1>6. /\ [log EXCEPT ![p].ring = new] \in [Persons -> [ring : Seq(Frames), lapse : Nat]]
      /\ \A q \in Persons : q # p => [log EXCEPT ![p].ring = new][q] = log[q]
      /\ [log EXCEPT ![p].ring = new][p].ring = new
      /\ [log EXCEPT ![p].ring = new][p].lapse = log[p].lapse
  BY <1>5 DEF TypeInv
<1> QED
  BY <1>4, <1>5, <1>6 DEF old

\* A publisher that starts out.
Fresh(keys, e, stamped) ==
  [pc |-> "find", todo |-> keys, key |-> None, bucket |-> None, event |-> e, stamped |-> stamped]

LEMMA FreshOK ==
    ASSUME NEW keys \in SUBSET Keys, NEW e \in Nat, NEW S \in SUBSET Persons, NEW stamped \in [S -> Frames]
    PROVE  /\ Fresh(keys, e, stamped) \in Publishes /\ Fresh(keys, e, stamped).pc = "find"
           /\ Fresh(keys, e, stamped).todo = keys /\ Fresh(keys, e, stamped).event = e
           /\ Fresh(keys, e, stamped).stamped = stamped /\ Fresh(keys, e, stamped).bucket = None
<1>1. None \in Address /\ None \in Keys \cup {None}
  BY StagesOK
<1>2. stamped \in UNION {[T -> Frames] : T \in SUBSET Persons}
  OBVIOUS
<1> QED
  BY <1>1, <1>2 DEF Fresh, Publishes

\* The three ways to publish: what is recorded, and whom the publisher goes to.
LEMMA PublishFacts ==
    ASSUME TypeInv, NEW j \in Jobs, PublishToUser(j) \/ PublishToAccount(j) \/ PublishToAllSessions(j)
    PROVE  \E keys \in SUBSET Keys, S \in SUBSET Persons : \E stamped \in [S -> Frames] :
             /\ job' = [job EXCEPT ![j] = Fresh(keys, events + 1, stamped)]
             /\ keys \subseteq Accounts \/ \E p \in Persons : keys \subseteq {p}
             /\ \/ log' = log /\ issued' = issued /\ S = {}
                \/ \E p \in Persons : LET f == Frame(p, events + 1)
                                      IN /\ keys = {p} /\ S = {p} /\ stamped[p] = f
                                         /\ log' = Recorded(p, f)
                                         /\ issued' = issued \cup {[p |-> p, f |-> f]}
<1>1. ASSUME PublishToUser(j)
      PROVE  \E p \in Persons : LET f == Frame(p, events + 1)
                                IN /\ job' = [job EXCEPT ![j] = Fresh({p}, events + 1, [q \in {p} |-> f])]
                                   /\ log' = Recorded(p, f)
                                   /\ issued' = issued \cup {[p |-> p, f |-> f]}
                                   /\ [q \in {p} |-> f] \in [{p} -> Frames]
  <2> PICK p \in Persons : /\ job' = [job EXCEPT ![j] = Fresh({p}, events + 1, [q \in {p} |-> Frame(p, events + 1)])]
                           /\ log' = Recorded(p, Frame(p, events + 1))
                           /\ issued' = issued \cup {[p |-> p, f |-> Frame(p, events + 1)]}
    BY <1>1 DEF PublishToUser, Publish, Fresh
  <2>1. Frame(p, events + 1) \in Frames
    BY FrameOK DEF TypeInv
  <2> QED
    BY <2>1
<1>2. ASSUME PublishToAccount(j) \/ PublishToAllSessions(j)
      PROVE  \E keys \in SUBSET Accounts : /\ job' = [job EXCEPT ![j] = Fresh(keys, events + 1, <<>>)]
                                           /\ log' = log /\ issued' = issued
  BY <1>2 DEF PublishToAccount, PublishToAllSessions, Publish, Fresh, record
<1>3. <<>> \in [{} -> Frames] /\ Accounts \subseteq Keys /\ Persons \subseteq Keys
  BY DEF Keys
<1>4. CASE PublishToUser(j)
  <2> PICK p \in Persons : /\ job' = [job EXCEPT ![j] = Fresh({p}, events + 1, [q \in {p} |-> Frame(p, events + 1)])]
                           /\ log' = Recorded(p, Frame(p, events + 1))
                           /\ issued' = issued \cup {[p |-> p, f |-> Frame(p, events + 1)]}
                           /\ [q \in {p} |-> Frame(p, events + 1)] \in [{p} -> Frames]
    BY <1>1, <1>4
  <2>1. {p} \in SUBSET Keys /\ {p} \in SUBSET Persons /\ [q \in {p} |-> Frame(p, events + 1)][p] = Frame(p, events + 1)
    BY <1>3
  <2> QED
    BY <2>1
<1>5. CASE PublishToAccount(j) \/ PublishToAllSessions(j)
  <2> PICK keys \in SUBSET Accounts : /\ job' = [job EXCEPT ![j] = Fresh(keys, events + 1, <<>>)]
                                      /\ log' = log /\ issued' = issued
    BY <1>2, <1>5
  <2>1. keys \in SUBSET Keys /\ {} \in SUBSET Persons
    BY <1>3
  <2> QED
    BY <1>3, <2>1
<1> QED
  BY <1>4, <1>5

\* A connection that nobody touches keeps its type.
LEMMA ConnsKept ==
    ASSUME TypeInv, conn' = conn
    PROVE  conn' = [c \in Clients |-> conn'[c]] /\ \A c \in Clients : ConnOK(c)'
BY DEF TypeInv, ConnOK, Person

LEMMA PublishType ==
    ASSUME TypeInv, NEW j \in Jobs, PublishToUser(j) \/ PublishToAccount(j) \/ PublishToAllSessions(j)
    PROVE  TypeInv'
<1>0. /\ UNCHANGED <<registry, buckets, conn, client, opens>> /\ events' = events + 1 /\ events + 1 \in Nat
  <2>1. events \in Nat
    BY DEF TypeInv
  <2>2. UNCHANGED <<registry, buckets, conn, client, opens>> /\ events' = events + 1
    BY DEF PublishToUser, PublishToAccount, PublishToAllSessions, Publish, streams
  <2> QED
    BY <2>1, <2>2
<1>1. PICK keys \in SUBSET Keys, S \in SUBSET Persons : \E stamped \in [S -> Frames] :
             /\ job' = [job EXCEPT ![j] = Fresh(keys, events + 1, stamped)]
             /\ keys \subseteq Accounts \/ \E p \in Persons : keys \subseteq {p}
             /\ \/ log' = log /\ issued' = issued
                \/ \E p \in Persons : LET f == Frame(p, events + 1)
                                      IN /\ log' = Recorded(p, f)
                                         /\ issued' = issued \cup {[p |-> p, f |-> f]}
  BY PublishFacts
<1> PICK stamped \in [S -> Frames] :
             /\ job' = [job EXCEPT ![j] = Fresh(keys, events + 1, stamped)]
             /\ keys \subseteq Accounts \/ \E p \in Persons : keys \subseteq {p}
  BY <1>1
<1>2. JobOK(j)'
  <2>1. job'[j] = Fresh(keys, events + 1, stamped)
    BY DEF TypeInv
  <2>2. job'[j] \in Publishes /\ job'[j].pc = "find" /\ job'[j].todo = keys
    <3>1. events + 1 \in Nat
      BY <1>0
    <3> QED
      BY <2>1, <3>1, FreshOK
  <2> QED
    BY <2>2 DEF JobOK, Pending
<1>3. log' \in [Persons -> [ring : Seq(Frames), lapse : Nat]] /\ issued' \subseteq [p : Persons, f : Frames]
  <2>1. \A p \in Persons : Frame(p, events + 1) \in Frames
    BY <1>0, FrameOK
  <2>2. CASE log' = log /\ issued' = issued
    BY <2>2 DEF TypeInv
  <2>3. ASSUME NEW p \in Persons, log' = Recorded(p, Frame(p, events + 1)),
               issued' = issued \cup {[p |-> p, f |-> Frame(p, events + 1)]}
        PROVE  log' \in [Persons -> [ring : Seq(Frames), lapse : Nat]] /\ issued' \subseteq [p : Persons, f : Frames]
    <3>1. Frame(p, events + 1) \in Frames
      BY <2>1
    <3>2. log' \in [Persons -> [ring : Seq(Frames), lapse : Nat]]
      BY <2>3, <3>1, RecordedOK
    <3>3. [p |-> p, f |-> Frame(p, events + 1)] \in [p : Persons, f : Frames]
      BY <3>1
    <3>4. issued \subseteq [p : Persons, f : Frames]
      BY DEF TypeInv
    <3> QED
      BY <2>3, <3>2, <3>3, <3>4
  <2> QED
    BY <1>1, <2>2, <2>3
<1> QED
  BY <1>0, <1>1, <1>2, <1>3, ConnsKept, JobType

LEMMA JobOf ==
    ASSUME TypeInv, NEW j \in Jobs, job[j].pc # "idle"
    PROVE  /\ job[j] \in Publishes
           /\ job[j].pc = "push" => job[j].key \in Keys \ job[j].todo /\ job[j].bucket \in 1..MaxBuckets
           /\ Pending(j) \subseteq Accounts \/ \E p \in Persons : Pending(j) \subseteq {p}
           /\ DOMAIN job[j].stamped \in SUBSET Persons
           /\ \A p \in DOMAIN job[j].stamped : job[j].stamped[p] \in Frames
           /\ job[j].stamped = [p \in DOMAIN job[j].stamped |-> job[j].stamped[p]]
<1>1. JobOK(j)
  BY DEF TypeInv
<1>2. job[j] \in Publishes /\ job[j].bucket \in Address
  BY <1>1 DEF JobOK, Publishes
<1>3. job[j].pc = "push" => job[j].key \in Keys \ job[j].todo /\ job[j].bucket \in 1..MaxBuckets
  BY <1>1, <1>2, BoundsOK DEF JobOK, Address, None
<1>4. PICK S \in SUBSET Persons : job[j].stamped \in [S -> Frames]
  BY <1>2 DEF Publishes
<1> QED
  BY <1>1, <1>2, <1>3, <1>4 DEF JobOK

\* A publisher that has found a bucket, has found none, or has pushed.
Pushing(s, k, b) == [s EXCEPT !.todo = @ \ {k}, !.pc = "push", !.key = k, !.bucket = b]
Skipping(s, k) == [s EXCEPT !.todo = @ \ {k}]
Paused(s) == [s EXCEPT !.pc = "find", !.bucket = None]
Onward(s, stamped) == [Paused(s) EXCEPT !.stamped = stamped]

LEMMA PushingRecord ==
    ASSUME NEW s \in Publishes, NEW k \in Keys, NEW b \in Address
    PROVE  LET v == Pushing(s, k, b)
           IN /\ Pushing(s, k, b) \in Publishes /\ v.pc = "push" /\ v.todo = s.todo \ {k} /\ v.key = k
              /\ v.bucket = b /\ v.event = s.event /\ v.stamped = s.stamped
BY DEF Publishes, Pushing

LEMMA SkippingRecord ==
    ASSUME NEW s \in Publishes, NEW k \in Keys
    PROVE  LET v == Skipping(s, k)
           IN /\ Skipping(s, k) \in Publishes /\ v.pc = s.pc /\ v.todo = s.todo \ {k} /\ v.key = s.key
              /\ v.bucket = s.bucket /\ v.event = s.event /\ v.stamped = s.stamped
BY DEF Publishes, Skipping

LEMMA PausedRecord ==
    ASSUME NEW s \in Publishes
    PROVE  LET v == Paused(s)
           IN /\ Paused(s) \in Publishes /\ v.pc = "find" /\ v.todo = s.todo /\ v.key = s.key
              /\ v.bucket = None /\ v.event = s.event /\ v.stamped = s.stamped
<1>1. None \in Address
  BY StagesOK
<1> HIDE DEF None
<1> QED
  BY <1>1 DEF Publishes, Paused

LEMMA OnwardRecord ==
    ASSUME NEW s \in Publishes, NEW S \in SUBSET Persons, NEW stamped \in [S -> Frames]
    PROVE  LET v == Onward(s, stamped)
           IN /\ Onward(s, stamped) \in Publishes /\ v.pc = "find" /\ v.todo = s.todo /\ v.key = s.key
              /\ v.bucket = None /\ v.event = s.event /\ v.stamped = stamped
<1>1. stamped \in UNION {[T -> Frames] : T \in SUBSET Persons}
  OBVIOUS
<1>2. \A v \in Publishes : LET w == [v EXCEPT !.stamped = stamped]
                          IN /\ w \in Publishes /\ w.pc = v.pc /\ w.todo = v.todo /\ w.key = v.key
                             /\ w.bucket = v.bucket /\ w.event = v.event /\ w.stamped = stamped
  BY <1>1 DEF Publishes
<1> QED
  BY <1>2, PausedRecord DEF Onward

\* What a visit does to the publisher.
LEMMA VisitFacts ==
    ASSUME TypeInv, NEW j \in Jobs, Visit(j)
    PROVE  \E k \in job[j].todo :
             /\ k \in Keys
             /\ \/ registry[k] \in 1..MaxBuckets /\ job' = [job EXCEPT ![j] = Pushing(job[j], k, registry[k])]
                \/ registry[k] = None /\ job[j].todo = {k} /\ job' = [job EXCEPT ![j] = Idle]
                \/ registry[k] = None /\ job' = [job EXCEPT ![j] = Skipping(job[j], k)]
<1>1. job[j].pc # "idle"
  BY DEF Visit
<1>2. job[j] \in Publishes /\ job[j].todo \subseteq Keys
  BY <1>1, JobOf DEF Publishes
<1>3. PICK k \in job[j].todo :
        LET rest == [job[j] EXCEPT !.todo = @ \ {k}]
        IN job' = [job EXCEPT ![j] =
             IF registry[k] # None THEN [rest EXCEPT !.pc = "push", !.key = k, !.bucket = registry[k]]
             ELSE IF rest.todo = {} THEN Idle ELSE rest]
  BY DEF Visit
<1>4. registry[k] \in Address /\ k \in Keys
  BY <1>2 DEF TypeInv
<1>5. CASE registry[k] # None
  <2>1. registry[k] \in 1..MaxBuckets
    BY <1>4, <1>5, BoundsOK DEF Address, None
  <2>2. job' = [job EXCEPT ![j] = Pushing(job[j], k, registry[k])]
    BY <1>3, <1>5 DEF Pushing
  <2> QED
    BY <1>4, <2>1, <2>2
<1>6. CASE registry[k] = None /\ Skipping(job[j], k).todo = {}
  <2>1. job' = [job EXCEPT ![j] = Idle]
    BY <1>3, <1>6 DEF Skipping
  <2>2. job[j].todo = {k}
    BY <1>2, <1>4, <1>6, SkippingRecord
  <2> QED
    BY <1>4, <1>6, <2>1, <2>2
<1>7. CASE registry[k] = None /\ Skipping(job[j], k).todo # {}
  <2>1. job' = [job EXCEPT ![j] = Skipping(job[j], k)]
    BY <1>3, <1>7 DEF Skipping
  <2> QED
    BY <1>4, <1>7, <2>1
<1> QED
  BY <1>5, <1>6, <1>7

LEMMA VisitType ==
    ASSUME TypeInv, NEW j \in Jobs, Visit(j)
    PROVE  TypeInv'
<1>0. job[j].pc = "find" /\ UNCHANGED <<registry, buckets, log, issued, conn, client, opens, events>>
  BY DEF Visit, streams, record, bounds
<1>1. PICK k \in job[j].todo :
             /\ k \in Keys
             /\ \/ registry[k] \in 1..MaxBuckets /\ job' = [job EXCEPT ![j] = Pushing(job[j], k, registry[k])]
                \/ registry[k] = None /\ job[j].todo = {k} /\ job' = [job EXCEPT ![j] = Idle]
                \/ registry[k] = None /\ job' = [job EXCEPT ![j] = Skipping(job[j], k)]
  BY VisitFacts
<1>2. /\ job[j] \in Publishes /\ Pending(j) = job[j].todo
      /\ Pending(j) \subseteq Accounts \/ \E p \in Persons : Pending(j) \subseteq {p}
  BY <1>0, JobOf DEF Pending
<1>3. CASE registry[k] \in 1..MaxBuckets /\ job' = [job EXCEPT ![j] = Pushing(job[j], k, registry[k])]
  <2>1. registry[k] \in Address /\ registry[k] # None
    BY <1>3, BoundsOK DEF Address, None
  <2>2. job'[j] = Pushing(job[j], k, registry[k])
    BY <1>3 DEF TypeInv
  <2>3. /\ job'[j] \in Publishes /\ job'[j].pc = "push" /\ job'[j].todo = job[j].todo \ {k}
        /\ job'[j].key = k /\ job'[j].bucket # None
    BY <1>1, <1>2, <2>1, <2>2, PushingRecord
  <2>4. Pending(j)' = job[j].todo
    BY <1>1, <2>3 DEF Pending
  <2>5. JobOK(j)'
    BY <1>1, <1>2, <2>3, <2>4 DEF JobOK
  <2> QED
    BY <1>0, <1>3, <2>5, ConnsKept, JobType DEF TypeInv
<1>4. CASE job' = [job EXCEPT ![j] = Idle]
  <2>1. JobOK(j)'
    BY <1>4 DEF TypeInv, JobOK, Idle
  <2> QED
    BY <1>0, <1>4, <2>1, ConnsKept, JobType DEF TypeInv
<1>5. CASE job' = [job EXCEPT ![j] = Skipping(job[j], k)]
  <2>2. job'[j] = Skipping(job[j], k)
    BY <1>5 DEF TypeInv
  <2>3. job'[j] \in Publishes /\ job'[j].pc = "find" /\ job'[j].todo = job[j].todo \ {k}
    BY <1>0, <1>1, <1>2, <2>2, SkippingRecord
  <2>4. Pending(j)' \subseteq job[j].todo
    BY <2>3 DEF Pending
  <2>5. JobOK(j)'
    BY <1>2, <2>3, <2>4 DEF JobOK
  <2> QED
    BY <1>0, <1>5, <2>5, ConnsKept, JobType DEF TypeInv
<1> QED
  BY <1>1, <1>3, <1>4, <1>5

\* A session that is pushed to: the frame is queued, or dropped.
Queued(s, f) == [s EXCEPT !.queue = Append(@, f)]
Dropped(s, f) == [s EXCEPT !.lost = @ \cup {f.event}]

LEMMA QueuedRecord ==
    ASSUME NEW s \in Sessions, NEW f \in Frames
    PROVE  LET v == Queued(s, f)
           IN /\ Queued(s, f) \in Sessions /\ v.pc = s.pc /\ v.key = s.key
              /\ v.bucket = s.bucket /\ v.home = s.home
              /\ v.room = s.room /\ v.queue = Append(s.queue, f) /\ v.lost = s.lost /\ v.wrote = s.wrote
              /\ v.upTo = s.upTo /\ v.from = s.from
<1>1. Append(s.queue, f) \in Seq(Frames)
  BY DEF Sessions
<1> QED
  BY <1>1 DEF Sessions, Queued

LEMMA DroppedRecord ==
    ASSUME NEW s \in Sessions, NEW f \in Frames
    PROVE  LET v == Dropped(s, f)
           IN /\ Dropped(s, f) \in Sessions /\ v.pc = s.pc /\ v.key = s.key
              /\ v.bucket = s.bucket /\ v.home = s.home
              /\ v.room = s.room /\ v.queue = s.queue /\ v.lost = s.lost \cup {f.event} /\ v.wrote = s.wrote
              /\ v.upTo = s.upTo /\ v.from = s.from
<1>1. s.lost \cup {f.event} \in SUBSET Nat
  BY DEF Sessions, Frames
<1> QED
  BY <1>1 DEF Sessions, Dropped

LEMMA OwnerKey ==
    ASSUME NEW k \in Keys
    PROVE  Owner(k) \in Persons /\ (k \in Persons => Owner(k) = k)
BY SseAssumption DEF Owner, Keys

\* The frame of the person whose bucket is pushed to.
LEMMA StampedOK ==
    ASSUME TypeInv, NEW j \in Jobs, job[j].pc # "idle", NEW p \in Persons
    PROVE  /\ Stamped(j, p) \in Frames
           /\ p \in DOMAIN job[j].stamped => Stamped(j, p) = job[j].stamped[p]
           /\ p \notin DOMAIN job[j].stamped => Stamped(j, p) = Frame(p, job[j].event)
<1>1. job[j].event \in Nat
  BY JobOf DEF Publishes
<1> QED
  BY <1>1, JobOf, FrameOK DEF Stamped

\* The frames that a publisher has when it has stamped one more.
Stamping(j, p, f) == [q \in DOMAIN job[j].stamped \cup {p} |-> IF q = p THEN f ELSE job[j].stamped[q]]

\* What a push does.
LEMMA PushFacts ==
    ASSUME TypeInv, NEW j \in Jobs, Push(j)
    PROVE  \E p \in Persons, f \in Frames :
             LET to == buckets[job[j].bucket].members
                 stamped == job[j].stamped
             IN /\ p = Owner(job[j].key) /\ f = Stamped(j, p) /\ to \subseteq Clients
                /\ \A c \in to : conn[c].pc # "off"
                /\ conn' = [c \in Clients |-> conn'[c]]
                /\ \A c \in Clients :
                     /\ c \notin to \/ Leaving(c) => conn'[c] = conn[c]
                     /\ c \in to /\ ~ Leaving(c) => \/ conn'[c] = Queued(conn[c], f)
                                                   \/ conn'[c] = Dropped(conn[c], f)
                /\ \/ (to = {} \/ p \in DOMAIN stamped) /\ log' = log
                   \/ to # {} /\ p \notin DOMAIN stamped /\ log' = Recorded(p, f)
<1> DEFINE p == Owner(job[j].key)
           f == Stamped(j, p)
           to == buckets[job[j].bucket].members
           stamped == job[j].stamped
<1>0. job[j].pc = "push" /\ \A c \in to : conn[c].pc # "off"
  BY DEF Push
<1>1. job[j] \in Publishes /\ job[j].key \in Keys /\ job[j].bucket \in 1..MaxBuckets
  BY <1>0, JobOf
<1>2. p \in Persons /\ f \in Frames
  BY <1>0, <1>1, OwnerKey, StampedOK
<1>3. to \subseteq Clients
  BY <1>1 DEF TypeInv
<1>4. conn' = [c \in Clients |->
             IF c \notin to \/ Leaving(c) THEN conn[c]
             ELSE IF Len(conn[c].queue) < Buffer THEN [conn[c] EXCEPT !.queue = Append(@, f)]
             ELSE [conn[c] EXCEPT !.lost = @ \cup {f.event}]]
  BY DEF Push
<1>5. log' = IF to = {} \/ p \in DOMAIN stamped THEN log ELSE Recorded(p, f)
  BY DEF Push
<1>8. conn' = [c \in Clients |-> conn'[c]]
  BY <1>4
<1>9. \A c \in Clients :
        /\ c \notin to \/ Leaving(c) => conn'[c] = conn[c]
        /\ c \in to /\ ~ Leaving(c) => \/ conn'[c] = Queued(conn[c], f)
                                       \/ conn'[c] = Dropped(conn[c], f)
  <2> HIDE DEF f, to, p
  <2> QED
    BY <1>4 DEF Queued, Dropped
<1>11. \/ (to = {} \/ p \in DOMAIN stamped) /\ log' = log
       \/ to # {} /\ p \notin DOMAIN stamped /\ log' = Recorded(p, f)
  BY <1>5
<1> HIDE DEF p, f
<1> QED
  BY <1>0, <1>2, <1>3, <1>8, <1>9, <1>11 DEF p, f

\* What it makes of the publisher.
LEMMA PushTurns ==
    ASSUME TypeInv, NEW j \in Jobs, Push(j)
    PROVE  \/ job[j].todo = {} /\ job' = [job EXCEPT ![j] = Idle]
           \/ /\ job[j].todo # {} /\ buckets[job[j].bucket].members = {}
              /\ job' = [job EXCEPT ![j] = Paused(job[j])]
           \/ /\ job[j].todo # {} /\ buckets[job[j].bucket].members # {}
              /\ job' = [job EXCEPT ![j] = Onward(job[j], Stamping(j, Owner(job[j].key), Stamped(j, Owner(job[j].key))))]
<1> DEFINE p == Owner(job[j].key)
           f == Stamped(j, p)
           to == buckets[job[j].bucket].members
           stamped == job[j].stamped
<1>1. job[j] \in Publishes
  BY JobOf DEF Push
<1>6. job' = [job EXCEPT ![j] =
             IF to = {} \/ Visited(j) = Idle THEN Visited(j)
             ELSE [Visited(j) EXCEPT !.stamped = [q \in DOMAIN @ \cup {p} |-> IF q = p THEN f ELSE @[q]]]]
  BY DEF Push
<1>7. /\ job[j].todo = {} => Visited(j) = Idle
      /\ job[j].todo # {} => Visited(j) = Paused(job[j]) /\ Visited(j) # Idle /\ Visited(j).stamped = stamped
  <2>1. CASE job[j].todo = {}
    BY <2>1 DEF Visited
  <2>2. CASE job[j].todo # {}
    <3>1. Visited(j) = Paused(job[j])
      BY <2>2 DEF Visited, Paused
    <3>2. Paused(job[j]).pc = "find" /\ Paused(job[j]).stamped = stamped
      BY <1>1, PausedRecord
    <3>3. Idle.pc = "idle"
      BY DEF Idle
    <3> QED
      BY <2>2, <3>1, <3>2, <3>3
  <2> QED
    BY <2>1, <2>2
<1>8. \/ job[j].todo = {} /\ job' = [job EXCEPT ![j] = Idle]
      \/ /\ job[j].todo # {} /\ to = {} /\ job' = [job EXCEPT ![j] = Paused(job[j])]
      \/ /\ job[j].todo # {} /\ to # {}
         /\ job' = [job EXCEPT ![j] = Onward(job[j], Stamping(j, p, f))]
  <2> HIDE DEF f, to, p
  <2>1. CASE job[j].todo = {}
    BY <1>6, <1>7, <2>1
  <2>2. CASE job[j].todo # {} /\ to = {}
    BY <1>6, <1>7, <2>2
  <2>3. CASE job[j].todo # {} /\ to # {}
    BY <1>6, <1>7, <2>3 DEF Onward, Stamping
  <2> QED
    BY <2>1, <2>2, <2>3
<1> QED
  BY <1>8

\* What a push leaves of a session: all but its queue and its losses.
SameSession(c) ==
  /\ conn'[c].pc = conn[c].pc
  /\ conn[c].pc # "off" =>
       /\ conn'[c] \in Sessions
       /\ conn'[c].key = conn[c].key /\ conn'[c].bucket = conn[c].bucket /\ conn'[c].home = conn[c].home
       /\ conn'[c].room = conn[c].room /\ conn'[c].wrote = conn[c].wrote
       /\ conn'[c].upTo = conn[c].upTo /\ conn'[c].from = conn[c].from

LEMMA PushSessions ==
    ASSUME TypeInv, NEW j \in Jobs, Push(j), NEW c \in Clients
    PROVE  SameSession(c)
<1>1. PICK f \in Frames :
        conn'[c] = conn[c] \/ (conn[c].pc # "off" /\ conn'[c] \in {Queued(conn[c], f), Dropped(conn[c], f)})
  BY PushFacts
<1>2. CASE conn'[c] = conn[c]
  BY <1>2, SessionOf DEF SameSession
<1>3. CASE conn[c].pc # "off" /\ conn'[c] = Queued(conn[c], f)
  BY <1>3, SessionOf, QueuedRecord DEF SameSession
<1>4. CASE conn[c].pc # "off" /\ conn'[c] = Dropped(conn[c], f)
  BY <1>4, SessionOf, DroppedRecord DEF SameSession
<1> QED
  BY <1>1, <1>2, <1>3, <1>4

\* What a push makes of the publisher.
LEMMA PushJob ==
    ASSUME TypeInv, NEW j \in Jobs, Push(j)
    PROVE  /\ \A i \in Jobs : i # j => job'[i] = job[i]
           /\ \E v : job' = [job EXCEPT ![j] = v]
           /\ \/ job'[j] = Idle /\ job[j].todo = {}
              \/ /\ job'[j] \in Publishes /\ job'[j].pc = "find" /\ job'[j].todo = job[j].todo
                 /\ job'[j].event = job[j].event /\ job'[j].bucket = None
                 /\ LET to == buckets[job[j].bucket].members
                        p == Owner(job[j].key)
                    IN \/ to = {} /\ job'[j].stamped = job[j].stamped
                       \/ to # {} /\ job'[j].stamped = Stamping(j, p, Stamped(j, p))
<1>0. job[j].pc = "push"
  BY DEF Push
<1>1. job[j] \in Publishes /\ job[j].key \in Keys
  BY <1>0, JobOf
<1> DEFINE p == Owner(job[j].key)
           stamped == Stamping(j, p, Stamped(j, p))
<1>2. p \in Persons /\ Stamped(j, p) \in Frames
  BY <1>0, <1>1, OwnerKey, StampedOK
<1>3. DOMAIN job[j].stamped \cup {p} \in SUBSET Persons /\ stamped \in [DOMAIN job[j].stamped \cup {p} -> Frames]
  BY <1>0, <1>2, JobOf DEF Stamping
<1>4. \/ job[j].todo = {} /\ job' = [job EXCEPT ![j] = Idle]
      \/ buckets[job[j].bucket].members = {} /\ job' = [job EXCEPT ![j] = Paused(job[j])]
      \/ buckets[job[j].bucket].members # {} /\ job' = [job EXCEPT ![j] = Onward(job[j], stamped)]
  BY PushTurns
<1> HIDE DEF p, stamped
<1>5. CASE job[j].todo = {} /\ job' = [job EXCEPT ![j] = Idle]
  BY <1>5 DEF TypeInv
<1>6. CASE buckets[job[j].bucket].members = {} /\ job' = [job EXCEPT ![j] = Paused(job[j])]
  <2>1. job'[j] = Paused(job[j]) /\ \A i \in Jobs : i # j => job'[i] = job[i]
    BY <1>6 DEF TypeInv
  <2> QED
    BY <1>1, <1>6, <2>1, PausedRecord
<1>7. CASE buckets[job[j].bucket].members # {} /\ job' = [job EXCEPT ![j] = Onward(job[j], stamped)]
  <2>1. job'[j] = Onward(job[j], stamped) /\ \A i \in Jobs : i # j => job'[i] = job[i]
    BY <1>7 DEF TypeInv
  <2>2. /\ job'[j] \in Publishes /\ job'[j].pc = "find" /\ job'[j].todo = job[j].todo
        /\ job'[j].event = job[j].event /\ job'[j].bucket = None /\ job'[j].stamped = stamped
    BY <1>1, <1>3, <2>1, OnwardRecord
  <2> QED
    BY <1>7, <2>1, <2>2 DEF p, stamped
<1> QED
  BY <1>4, <1>5, <1>6, <1>7

LEMMA PushType ==
    ASSUME TypeInv, NEW j \in Jobs, Push(j)
    PROVE  TypeInv'
<1>0. job[j].pc = "push" /\ UNCHANGED <<registry, buckets, client, issued, opens, events>>
  BY DEF Push, streams, bounds
<1>1. conn' = [c \in Clients |-> conn'[c]] /\ \A c \in Clients : ConnOK(c)'
  <2>1. \A c \in Clients : ConnOK(c)'
    BY PushSessions DEF TypeInv, ConnOK, SameSession, Person
  <2> QED
    BY <2>1, PushFacts
<1>2. JobOK(j)'
  <2>1. /\ Pending(j) \subseteq Accounts \/ \E p \in Persons : Pending(j) \subseteq {p}
        /\ job[j].todo \subseteq Pending(j)
    BY <1>0, JobOf DEF Pending
  <2>2. CASE job'[j] = Idle
    BY <2>2 DEF JobOK, Idle
  <2>3. CASE job'[j] \in Publishes /\ job'[j].pc = "find" /\ job'[j].todo = job[j].todo
    <3>1. Pending(j)' = job[j].todo
      BY <2>3 DEF Pending
    <3> QED
      BY <2>1, <2>3, <3>1 DEF JobOK
  <2> QED
    BY <2>2, <2>3, PushJob
<1>3. log' \in [Persons -> [ring : Seq(Frames), lapse : Nat]]
  <2>1. log' = log \/ \E p \in Persons, f \in Frames : log' = Recorded(p, f)
    BY PushFacts
  <2>2. CASE log' = log
    BY <2>2 DEF TypeInv
  <2>3. ASSUME NEW p \in Persons, NEW f \in Frames, log' = Recorded(p, f)
        PROVE  log' \in [Persons -> [ring : Seq(Frames), lapse : Nat]]
    <3>1. Recorded(p, f) \in [Persons -> [ring : Seq(Frames), lapse : Nat]]
      BY RecordedOK
    <3> QED
      BY ONLY <2>3, <3>1
  <2> QED
    BY <2>1, <2>2, <2>3
<1> QED
  BY <1>0, <1>1, <1>2, <1>3, PushJob, JobType DEF TypeInv

LEMMA RestartType ==
    ASSUME TypeInv, Restart
    PROVE  TypeInv'
<1>1. registry' \in [Keys -> Address] /\ buckets' \in [1..MaxBuckets -> [members : SUBSET Clients, dead : BOOLEAN]]
  BY StagesOK DEF Restart, Empty
<1>2. log' \in [Persons -> [ring : Seq(Frames), lapse : Nat]]
  <2>1. \A p \in Persons : log[p].lapse + 1 \in Nat
    BY DEF TypeInv
  <2>2. <<>> \in Seq(Frames)
    OBVIOUS
  <2> QED
    BY <2>1, <2>2 DEF Restart
<1>3. conn' = [c \in Clients |-> conn'[c]] /\ \A c \in Clients : ConnOK(c)'
  BY DEF Restart, ConnOK, Off
<1>4. job' = [j \in Jobs |-> job'[j]] /\ \A j \in Jobs : JobOK(j)'
  BY DEF Restart, JobOK, Idle
<1> QED
  BY <1>1, <1>2, <1>3, <1>4 DEF TypeInv, Restart, bounds

LEMMA TypeInit == Init => TypeInv
<1> SUFFICES ASSUME Init PROVE TypeInv
  OBVIOUS
<1>1. registry \in [Keys -> Address] /\ buckets \in [1..MaxBuckets -> [members : SUBSET Clients, dead : BOOLEAN]]
  BY StagesOK DEF Init, Empty
<1>2. <<>> \in Seq(Frames) /\ log \in [Persons -> [ring : Seq(Frames), lapse : Nat]]
  BY DEF Init
<1>3. conn = [c \in Clients |-> conn[c]] /\ \A c \in Clients : ConnOK(c)
  BY DEF Init, ConnOK, Off
<1>4. job = [j \in Jobs |-> job[j]] /\ \A j \in Jobs : JobOK(j)
  BY DEF Init, JobOK, Idle
<1>5. client \in [Clients -> Points] /\ issued \subseteq [p : Persons, f : Frames]
  BY StagesOK DEF Init
<1> QED
  BY <1>1, <1>2, <1>3, <1>4, <1>5 DEF TypeInv, Init

\* A step that changes nothing.
LEMMA TypeStill ==
    ASSUME TypeInv, vars' = vars
    PROVE  TypeInv'
<1>1. \A j \in Jobs : JobOK(j)'
  BY DEF TypeInv, vars, JobOK, Pending
<1> QED
  BY <1>1, ConnsKept DEF TypeInv, vars

LEMMA TypeNext ==
    ASSUME TypeInv, [Next]_vars
    PROVE  TypeInv'
<1>1. ASSUME NEW c \in Clients,
             \/ Open(c) \/ Load(c) \/ Join(c) \/ Prune(c) \/ Evict(c) \/ Resume(c) \/ Read(c)
             \/ Leave(c) \/ Find(c) \/ Unjoin(c) \/ Close(c)
      PROVE  TypeInv'
  BY <1>1, OpenType, LoadType, JoinType, PruneType, EvictType, ResumeType, ReadType,
     LeaveType, FindType, UnjoinType, CloseType
<1>2. ASSUME NEW j \in Jobs,
             PublishToUser(j) \/ PublishToAccount(j) \/ PublishToAllSessions(j) \/ Visit(j) \/ Push(j)
      PROVE  TypeInv'
  BY <1>2, PublishType, VisitType, PushType
<1> QED
  BY <1>1, <1>2, RestartType, TypeStill DEF Next

-----------------------------------------------------------------------------
(* Steps keep the pipes *)

LEMMA NoneIsNone == None \notin 1..MaxBuckets
BY BoundsOK DEF None

\* A step that leaves the buckets alone, and that nobody gets an address by.
LEMMA PipeKept ==
    ASSUME TypeInv, PipeInv, registry' = registry, buckets' = buckets,
           \A k \in Keys, b \in 1..MaxBuckets : Refers(k, b)' => Refers(k, b),
           \A c \in Clients : InPerson(c)' <=> InPerson(c),
           \A c \in Clients : conn'[c].pc = "unjoin" /\ conn'[c].key \in Persons =>
                                conn'[c].bucket = registry[conn'[c].key]
    PROVE  PipeInv'
<1>1. OneKey'
  BY DEF PipeInv, OneKey
<1>2. ASSUME NEW p \in Persons PROVE PipeOK(p)'
  <2>1. ASSUME NEW b \in 1..MaxBuckets, Refers(p, b)'
        PROVE  /\ buckets[b].dead <=> registry[p] # b
               /\ buckets[b].dead => buckets[b].members = {}
               /\ \A c \in buckets[b].members : InPerson(c) /\ Person(c) = p
    <3>1. Refers(p, b)
      BY <2>1 DEF Keys
    <3> QED
      BY <3>1 DEF PipeInv, PipeOK
  <2>2. \A b \in 1..MaxBuckets : buckets[b].members \subseteq Clients
    BY DEF TypeInv
  <2> QED
    BY <2>1, <2>2 DEF PipeOK, Person
<1>3. \A a \in Accounts : SideOK(a)'
  BY DEF PipeInv, SideOK, Keys
<1>4. \A c \in Clients : SeatOK(c)'
  BY DEF PipeInv, SeatOK, Reached, Person
<1> QED
  BY <1>1, <1>2, <1>3, <1>4 DEF PipeInv

\* What a session v of c holds, somebody holds for that key.
Clings(c, v) ==
  \A k \in Keys, b \in 1..MaxBuckets :
    (v.key = k /\ v.bucket = b) \/ (AccountOf[c] = k /\ v.home = b) => Refers(k, b)

\* The same, of a client.
LEMMA ClientKeeps ==
    ASSUME TypeInv, PipeInv, NEW c \in Clients, NEW v, conn' = [conn EXCEPT ![c] = v],
           registry' = registry, buckets' = buckets, job' = job,
           v.pc # "off" => Clings(c, v),
           v.pc \in {"prune", "evict", "resume", "live", "find", "unjoin"} <=> InPerson(c),
           v.pc = "unjoin" /\ v.key \in Persons => v.bucket = registry[v.key]
    PROVE  PipeInv'
<1>1. conn'[c] = v /\ \A d \in Clients \ {c} : conn'[d] = conn[d]
  BY ConnStep
<1>2. ASSUME NEW k \in Keys, NEW b \in 1..MaxBuckets, Refers(k, b)' PROVE Refers(k, b)
  <2>1. CASE registry'[k] = b
    BY <2>1 DEF Refers
  <2>2. CASE \E j \in Jobs : job'[j].pc = "push" /\ job'[j].key = k /\ job'[j].bucket = b
    BY <2>2 DEF Refers
  <2>3. ASSUME NEW d \in Clients, conn'[d].pc # "off",
               (conn'[d].key = k /\ conn'[d].bucket = b) \/ (AccountOf[d] = k /\ conn'[d].home = b)
        PROVE  Refers(k, b)
    <3>1. CASE d = c
      BY <1>1, <2>3, <3>1 DEF Clings
    <3>2. CASE d # c
      <4>1. conn'[d] = conn[d]
        BY <1>1, <3>2
      <4> QED
        BY <2>3, <4>1 DEF Refers
    <3> QED
      BY <3>1, <3>2
  <2>4. \/ registry'[k] = b
        \/ \E d \in Clients : /\ conn'[d].pc # "off"
                              /\ (conn'[d].key = k /\ conn'[d].bucket = b) \/ (AccountOf[d] = k /\ conn'[d].home = b)
        \/ \E j \in Jobs : job'[j].pc = "push" /\ job'[j].key = k /\ job'[j].bucket = b
    BY <1>2 DEF Refers
  <2> QED
    BY <2>1, <2>2, <2>3, <2>4
<1>3. \A d \in Clients : InPerson(d)' <=> InPerson(d)
  BY <1>1 DEF InPerson
<1>4. \A d \in Clients : conn'[d].pc = "unjoin" /\ conn'[d].key \in Persons =>
                           conn'[d].bucket = registry[conn'[d].key]
  BY <1>1 DEF PipeInv, SeatOK
<1> QED
  BY <1>2, <1>3, <1>4, PipeKept

\* In particular when it holds what it held.
LEMMA ClientStays ==
    ASSUME TypeInv, PipeInv, NEW c \in Clients, NEW v \in Sessions, conn' = [conn EXCEPT ![c] = v],
           registry' = registry, buckets' = buckets, job' = job, conn[c].pc \notin {"off", "unjoin"},
           v.key = conn[c].key, v.bucket = conn[c].bucket, v.home \in {None, conn[c].home},
           v.pc \in {"prune", "evict", "resume", "live"} <=> InPerson(c),
           v.pc \notin {"find", "unjoin"}
    PROVE  PipeInv'
<1>1. Clings(c, v)
  BY NoneIsNone DEF Refers, Clings
<1>2. v.pc \in {"prune", "evict", "resume", "live", "find", "unjoin"} <=> InPerson(c)
  OBVIOUS
<1> QED
  BY <1>1, <1>2, ClientKeeps

LEMMA OpenPipe ==
    ASSUME TypeInv, PipeInv, NEW c \in Clients, Open(c)
    PROVE  PipeInv'
<1> PICK room \in BOOLEAN : conn' = [conn EXCEPT ![c] =
         [pc |-> "load", key |-> AccountOf[c], bucket |-> None, home |-> None, room |-> room,
          seq |-> opens + 1, queue |-> <<>>, lost |-> {}, wrote |-> {},
          upTo |-> 0, from |-> NoPoint]]
  BY DEF Open
<1> DEFINE v == [pc |-> "load", key |-> AccountOf[c], bucket |-> None, home |-> None, room |-> room,
          seq |-> opens + 1, queue |-> <<>>, lost |-> {}, wrote |-> {},
          upTo |-> 0, from |-> NoPoint]
<1>1. v.pc = "load" /\ v.bucket = None /\ v.home = None
  OBVIOUS
<1>2. conn' = [conn EXCEPT ![c] = v]
  OBVIOUS
<1>3. UNCHANGED <<registry, buckets, job>> /\ ~ InPerson(c)
  BY DEF Open, streams, InPerson
<1> HIDE DEF v
<1>4. Clings(c, v)
  BY <1>1, NoneIsNone DEF Clings
<1>5. /\ v.pc \in {"prune", "evict", "resume", "live", "find", "unjoin"} <=> InPerson(c)
      /\ v.pc # "unjoin"
  BY <1>1, <1>3
<1> QED
  BY <1>1, <1>2, <1>3, <1>4, <1>5, ClientKeeps

LEMMA PrunePipe ==
    ASSUME TypeInv, PipeInv, NEW c \in Clients, Prune(c)
    PROVE  PipeInv'
<1>0. conn[c].pc = "prune" /\ UNCHANGED <<registry, buckets, job>> /\ InPerson(c)
  BY DEF Prune, streams, InPerson
<1>1. conn[c] \in Sessions
  BY <1>0, SessionOf
<1>2. CASE conn' = [conn EXCEPT ![c] = Settled(conn[c], "live")]
  <2>1. LET v == Settled(conn[c], "live")
        IN v \in Sessions /\ v.pc = "live" /\ v.key = conn[c].key /\ v.bucket = conn[c].bucket /\ v.home = None
    BY <1>1, StagesOK, SettledRecord
  <2> QED
    BY <1>0, <1>2, <2>1, ClientStays
<1>3. CASE conn' = [conn EXCEPT ![c] = Moved(conn[c], "evict")]
  <2>1. LET v == Moved(conn[c], "evict")
        IN v \in Sessions /\ v.pc = "evict" /\ v.key = conn[c].key /\ v.bucket = conn[c].bucket /\ v.home = conn[c].home
    BY <1>1, StagesOK, MovedRecord DEF SameBut
  <2> QED
    BY <1>0, <1>3, <2>1, ClientStays
<1> QED
  BY <1>2, <1>3, PruneFacts

LEMMA ResumePipe ==
    ASSUME TypeInv, PipeInv, NEW c \in Clients, Resume(c)
    PROVE  PipeInv'
<1>0. conn[c].pc = "resume" /\ UNCHANGED <<registry, buckets, job>> /\ InPerson(c)
  BY DEF Resume, streams, InPerson
<1>1. conn[c] \in Sessions
  BY <1>0, SessionOf
<1>2. \/ conn' = [conn EXCEPT ![c] = Moved(conn[c], "live")]
      \/ \E from \in Points, wrote \in SUBSET Nat, upTo \in Nat :
             conn' = [conn EXCEPT ![c] = Replayed(conn[c], from, wrote, upTo)]
  BY ResumeFacts
<1>3. CASE conn' = [conn EXCEPT ![c] = Moved(conn[c], "live")]
  <2>1. LET v == Moved(conn[c], "live")
        IN v \in Sessions /\ v.pc = "live" /\ v.key = conn[c].key /\ v.bucket = conn[c].bucket /\ v.home = conn[c].home
    BY <1>1, StagesOK, MovedRecord DEF SameBut
  <2> QED
    BY <1>0, <1>3, <2>1, ClientStays
<1>4. ASSUME NEW from \in Points, NEW wrote \in SUBSET Nat, NEW upTo \in Nat,
             conn' = [conn EXCEPT ![c] = Replayed(conn[c], from, wrote, upTo)]
      PROVE  PipeInv'
  <2>1. LET v == Replayed(conn[c], from, wrote, upTo)
        IN v \in Sessions /\ v.pc = "live" /\ v.key = conn[c].key /\ v.bucket = conn[c].bucket /\ v.home = conn[c].home
    BY <1>1, ReplayedRecord
  <2> QED
    BY <1>0, <1>4, <2>1, ClientStays
<1> QED
  BY <1>2, <1>3, <1>4

LEMMA ReadPipe ==
    ASSUME TypeInv, PipeInv, NEW c \in Clients, Read(c)
    PROVE  PipeInv'
<1>0. conn[c].pc = "live" /\ conn[c].queue # <<>> /\ UNCHANGED <<registry, buckets, job>> /\ InPerson(c)
  BY DEF Read, streams, InPerson
<1>1. conn[c] \in Sessions
  BY <1>0, SessionOf
<1>2. PICK wrote \in SUBSET Nat : conn' = [conn EXCEPT ![c] = Took(conn[c], wrote)]
  BY ReadFacts
<1>3. LET v == Took(conn[c], wrote)
      IN v \in Sessions /\ v.pc = "live" /\ v.key = conn[c].key /\ v.bucket = conn[c].bucket /\ v.home = conn[c].home
  BY <1>0, <1>1, TookRecord
<1> QED
  BY <1>0, <1>2, <1>3, ClientStays

LEMMA LeavePipe ==
    ASSUME TypeInv, PipeInv, NEW c \in Clients, Leave(c)
    PROVE  PipeInv'
<1>0. conn[c].pc = "live" /\ UNCHANGED <<registry, buckets, job>> /\ InPerson(c)
  BY DEF Leave, streams, InPerson
<1>1. conn[c] \in Sessions /\ conn[c].bucket = None
  BY <1>0, SessionOf
<1>2. LET v == Left(conn[c], AccountOf[c])
      IN v.pc = "find" /\ v.key = AccountOf[c] /\ v.bucket = None /\ v.home = conn[c].home
  BY <1>1, KeysOf, LeftRecord
<1>3. Clings(c, Left(conn[c], AccountOf[c]))
  BY <1>0, <1>2, NoneIsNone DEF Refers, Clings
<1> QED
  BY <1>0, <1>2, <1>3, LeaveFacts, KeysOf, ClientKeeps

LEMMA FindPipe ==
    ASSUME TypeInv, PipeInv, NEW c \in Clients, Find(c)
    PROVE  PipeInv'
<1>0. conn[c].pc = "find" /\ UNCHANGED <<registry, buckets, job>> /\ InPerson(c)
  BY DEF Find, streams, InPerson
<1>1. conn[c] \in Sessions /\ conn[c].key \in {AccountOf[c], Person(c)} /\ conn[c].key \in Keys
  BY <1>0, SessionOf
<1>2. \A k \in Keys, b \in 1..MaxBuckets : AccountOf[c] = k /\ conn[c].home = b => Refers(k, b)
  BY <1>0 DEF Refers
<1>3. CASE registry[conn[c].key] = None /\ conn' = [conn EXCEPT ![c] = Unjoined(c)]
  <2>1. conn[c].key \in Accounts
    <3>1. registry[Person(c)] # None
      BY <1>0 DEF PipeInv, SeatOK, Reached
    <3> QED
      BY <1>1, <1>3, <3>1, KeysOf
  <2>2. Unjoined(c).pc = "find" /\ Unjoined(c).bucket = None /\ Unjoined(c).home = conn[c].home
    BY <1>0, <2>1, UnjoinedFacts DEF SameBut
  <2> DEFINE v == Unjoined(c)
  <2>3. /\ v.pc \in {"prune", "evict", "resume", "live", "find", "unjoin"} <=> InPerson(c)
        /\ v.pc # "unjoin" /\ conn' = [conn EXCEPT ![c] = v]
    BY <1>0, <1>3, <2>2
  <2>4. Clings(c, v)
    BY <1>2, <2>2, NoneIsNone DEF Clings
  <2> HIDE DEF v
  <2> QED
    BY <1>0, <2>3, <2>4, ClientKeeps
<1>4. CASE /\ registry[conn[c].key] \in 1..MaxBuckets
           /\ conn' = [conn EXCEPT ![c] = Placed(conn[c], "unjoin", registry[conn[c].key])]
  <2>1. registry[conn[c].key] \in Address /\ "unjoin" \in Stages
    BY <1>4, BoundsOK, StagesOK DEF Address
  <2>2. LET v == Placed(conn[c], "unjoin", registry[conn[c].key])
        IN v.pc = "unjoin" /\ v.key = conn[c].key /\ v.bucket = registry[conn[c].key] /\ v.home = conn[c].home
    BY <1>1, <2>1, PlacedRecord DEF SameBut
  <2>3. Refers(conn[c].key, registry[conn[c].key])
    BY DEF Refers
  <2> DEFINE v == Placed(conn[c], "unjoin", registry[conn[c].key])
  <2>4. Clings(c, v)
    BY <1>2, <2>2, <2>3 DEF Clings
  <2>5. /\ v.pc \in {"prune", "evict", "resume", "live", "find", "unjoin"} <=> InPerson(c)
        /\ v.bucket = registry[v.key] /\ conn' = [conn EXCEPT ![c] = v]
    BY <1>0, <1>4, <2>2
  <2> HIDE DEF v
  <2> QED
    BY <1>0, <2>4, <2>5, ClientKeeps
<1> QED
  BY <1>3, <1>4, FindFacts

LEMMA ClosePipe ==
    ASSUME TypeInv, PipeInv, NEW c \in Clients, Close(c)
    PROVE  PipeInv'
<1>0. /\ UNCHANGED <<registry, buckets, job>> /\ conn' = [conn EXCEPT ![c] = Off]
      /\ ~ InPerson(c)
  BY DEF Close, streams, InPerson
<1>1. Off.pc = "off"
  BY DEF Off
<1> QED
  BY <1>0, <1>1, ClientKeeps

\* A session v of c holds the address b for the key k.
Has(c, v, k, b) ==
  v.pc # "off" /\ ((v.key = k /\ v.bucket = b) \/ (AccountOf[c] = k /\ v.home = b))

\* After a step of a client, what is held is registered, was held, or is held by it.
LEMMA HeldBefore ==
    ASSUME TypeInv, NEW c \in Clients, NEW v, conn' = [conn EXCEPT ![c] = v], job' = job,
           NEW k \in Keys, NEW b \in 1..MaxBuckets, Refers(k, b)'
    PROVE  registry'[k] = b \/ Refers(k, b) \/ Has(c, v, k, b)
<1>1. conn'[c] = v /\ \A d \in Clients \ {c} : conn'[d] = conn[d]
  BY ConnStep
<1>2. CASE \E j \in Jobs : job'[j].pc = "push" /\ job'[j].key = k /\ job'[j].bucket = b
  BY <1>2 DEF Refers
<1>3. ASSUME NEW d \in Clients, conn'[d].pc # "off",
             (conn'[d].key = k /\ conn'[d].bucket = b) \/ (AccountOf[d] = k /\ conn'[d].home = b)
      PROVE  Refers(k, b) \/ Has(c, v, k, b)
  <2>1. CASE d = c
    BY <1>1, <1>3, <2>1 DEF Has
  <2>2. CASE d # c
    <3>1. conn'[d] = conn[d]
      BY <1>1, <2>2
    <3> QED
      BY <1>3, <3>1 DEF Refers
  <2> QED
    BY <2>1, <2>2
<1>4. \/ registry'[k] = b
      \/ \E d \in Clients : /\ conn'[d].pc # "off"
                            /\ (conn'[d].key = k /\ conn'[d].bucket = b) \/ (AccountOf[d] = k /\ conn'[d].home = b)
      \/ \E j \in Jobs : job'[j].pc = "push" /\ job'[j].key = k /\ job'[j].bucket = b
  BY DEF Refers
<1> QED
  BY <1>2, <1>3, <1>4

LEMMA OneHolder ==
    ASSUME PipeInv, NEW b \in 1..MaxBuckets, NEW k \in Keys, NEW l \in Keys, Refers(k, b), Refers(l, b)
    PROVE  k = l
BY DEF PipeInv, OneKey

\* Where a connection that has joined its person's pipe sits.
LEMMA SeatOf ==
    ASSUME TypeInv, PipeInv, NEW c \in Clients, InPerson(c)
    PROVE  LET b == registry[Person(c)]
           IN b \in 1..MaxBuckets /\ c \in buckets[b].members /\ ~ buckets[b].dead /\ Refers(Person(c), b)
<1>1. Reached(c, Person(c)) /\ Person(c) \in Persons /\ Person(c) \in Keys
  BY KeysOf DEF PipeInv, SeatOK
<1>2. registry[Person(c)] \in 1..MaxBuckets /\ c \in buckets[registry[Person(c)]].members
  BY <1>1, BoundsOK DEF Reached, TypeInv, Address, None
<1>3. Refers(Person(c), registry[Person(c)])
  BY DEF Refers
<1>4. ~ buckets[registry[Person(c)]].dead
  BY <1>1, <1>2, <1>3 DEF PipeInv, PipeOK
<1> QED
  BY <1>2, <1>3, <1>4

\* A key gets a bucket of its own: nobody held the address before.
LEMMA NewPipe ==
    ASSUME TypeInv, PipeInv, NEW c \in Clients, NEW b \in Unused, conn[c].pc = "load",
           registry[conn[c].key] = None, job' = job,
           registry' = [registry EXCEPT ![conn[c].key] = b],
           buckets' = [buckets EXCEPT ![b] = Empty],
           NEW v, conn' = [conn EXCEPT ![c] = v],
           v.pc = "join", v.key = conn[c].key, v.bucket = b, v.home = conn[c].home
    PROVE  PipeInv'
<1> DEFINE key == conn[c].key
<1>0. conn[c].pc # "off"
  OBVIOUS
<1>1. key \in Keys /\ b \in 1..MaxBuckets
  BY SessionOf DEF Unused
<1>2. \A k \in Keys : ~ Refers(k, b)
  BY DEF Unused, Refers
<1>3. /\ registry'[key] = b /\ \A k \in Keys : k # key => registry'[k] = registry[k]
      /\ buckets'[b] = Empty /\ \A a \in 1..MaxBuckets : a # b => buckets'[a] = buckets[a]
  BY <1>1 DEF TypeInv
<1>4. conn'[c] = v /\ \A d \in Clients \ {c} : conn'[d] = conn[d]
  BY ConnStep
<1>5. \A k \in Keys : Refers(k, b)' => k = key
  <2>1. ASSUME NEW k \in Keys, Refers(k, b)', k # key PROVE FALSE
    <3>1. registry'[k] = b \/ Refers(k, b) \/ Has(c, v, k, b)
      BY <1>1, <2>1, HeldBefore
    <3>2. ~ Refers(k, b) /\ ~ (registry[k] = b) /\ ~ (AccountOf[c] = k /\ conn[c].home = b)
      BY <1>0, <1>2 DEF Refers
    <3>3. registry'[k] # b
      BY <1>3, <2>1, <3>2
    <3>4. v.key # k
      BY <2>1
    <3>5. ~ (AccountOf[c] = k /\ v.home = b)
      BY <3>2
    <3> QED
      BY ONLY <3>1, <3>2, <3>3, <3>4, <3>5 DEF Has
  <2> QED
    BY <2>1
<1>6. \A k \in Keys, a \in 1..MaxBuckets : a # b /\ Refers(k, a)' => Refers(k, a)
  <2>1. ASSUME NEW k \in Keys, NEW a \in 1..MaxBuckets, a # b, Refers(k, a)' PROVE Refers(k, a)
    <3>1. registry'[k] = a \/ Refers(k, a) \/ Has(c, v, k, a)
      BY <2>1, HeldBefore
    <3>2. registry'[k] = a => Refers(k, a)
      BY <1>3, <2>1 DEF Refers
    <3>3. AccountOf[c] = k /\ v.home = a => Refers(k, a)
      BY <1>0 DEF Refers
    <3>4. v.bucket # a
      BY <2>1
    <3> QED
      BY ONLY <3>1, <3>2, <3>3, <3>4 DEF Has
  <2> QED
    BY <2>1
<1>7. \A d \in Clients : InPerson(d)' <=> InPerson(d)
  BY <1>4 DEF InPerson
<1> HIDE DEF key
<1>8. OneKey'
  <2>1. ASSUME NEW a \in 1..MaxBuckets, NEW k \in Keys, NEW l \in Keys, Refers(k, a)', Refers(l, a)' PROVE k = l
    BY <1>5, <1>6, <2>1, OneHolder
  <2> QED
    BY <2>1 DEF OneKey
<1>9. ASSUME NEW p \in Persons PROVE PipeOK(p)'
  <2>1. ASSUME NEW a \in 1..MaxBuckets, Refers(p, a)'
        PROVE  /\ buckets'[a].dead <=> registry'[p] # a
               /\ buckets'[a].dead => buckets'[a].members = {}
               /\ \A d \in buckets'[a].members : InPerson(d)' /\ Person(d) = p
    <3>1. p \in Keys
      BY DEF Keys
    <3>2. CASE a = b
      <4>1. p = key
        BY <1>5, <2>1, <3>1, <3>2
      <4> QED
        BY <1>3, <3>2, <4>1 DEF Empty
    <3>3. CASE a # b
      <4>1. Refers(p, a) /\ buckets'[a] = buckets[a]
        BY <1>3, <1>6, <2>1, <3>1, <3>3
      <4>2. registry'[p] = a <=> registry[p] = a
        BY <1>3, <3>1, <3>3, NoneIsNone DEF key
      <4>3. buckets[a].members \subseteq Clients
        BY DEF TypeInv
      <4> QED
        BY <1>7, <4>1, <4>2, <4>3 DEF PipeInv, PipeOK
    <3> QED
      BY <3>2, <3>3
  <2> QED
    BY <2>1 DEF PipeOK, Person
<1>10. ASSUME NEW a \in Accounts PROVE SideOK(a)'
  <2>1. ASSUME NEW x \in 1..MaxBuckets, Refers(a, x)', NEW d \in buckets'[x].members PROVE AccountOf[d] = a
    <3>1. a \in Keys
      BY DEF Keys
    <3>2. x # b
      BY <1>3, <2>1 DEF Empty
    <3> QED
      BY <1>3, <1>6, <2>1, <3>1, <3>2 DEF PipeInv, SideOK
  <2> QED
    BY <2>1 DEF SideOK
<1>11. ASSUME NEW d \in Clients PROVE SeatOK(d)'
  <2>1. ASSUME InPerson(d) PROVE Person(d) # key /\ registry'[Person(d)] = registry[Person(d)] /\ Reached(d, Person(d))'
    <3>1. LET a == registry[Person(d)]
          IN a \in 1..MaxBuckets /\ d \in buckets[a].members /\ Refers(Person(d), a)
      BY <2>1, SeatOf
    <3>2. Person(d) # key
      BY <3>1, NoneIsNone DEF key
    <3>3. registry[Person(d)] # b /\ Person(d) \in Keys
      BY <1>2, <3>1, KeysOf
    <3>4. registry'[Person(d)] = registry[Person(d)] /\ buckets'[registry[Person(d)]] = buckets[registry[Person(d)]]
      BY <1>3, <3>1, <3>2, <3>3
    <3>5. (registry[Person(d)] # None)'
      BY <3>1, <3>4, NoneIsNone
    <3> QED
      BY <3>1, <3>2, <3>4, <3>5 DEF Reached, Person
  <2>2. ASSUME conn'[d].pc = "unjoin", conn'[d].key \in Persons PROVE conn'[d].bucket = registry'[conn'[d].key]
    <3>1. conn'[d] = conn[d]
      BY <1>4, <2>2
    <3>2. InPerson(d) /\ conn[d].key = Person(d)
      BY <2>2, <3>1, SessionOf, KeysOf DEF InPerson
    <3> QED
      BY <2>1, <2>2, <3>1, <3>2 DEF PipeInv, SeatOK
  <2> QED
    BY <1>7, <2>1, <2>2 DEF SeatOK, Person
<1> QED
  BY <1>8, <1>9, <1>10, <1>11 DEF PipeInv

LEMMA LoadPipe ==
    ASSUME TypeInv, PipeInv, NEW c \in Clients, Load(c)
    PROVE  PipeInv'
<1>0. conn[c].pc = "load" /\ job' = job /\ ~ InPerson(c)
  BY DEF Load, InPerson
<1>1. PICK b \in 1..MaxBuckets :
             /\ conn' = [conn EXCEPT ![c] = Placed(conn[c], "join", b)]
             /\ \/ registry[conn[c].key] = b /\ UNCHANGED <<registry, buckets>>
                \/ /\ registry[conn[c].key] = None /\ b \in Unused
                   /\ registry' = [registry EXCEPT ![conn[c].key] = b]
                   /\ buckets' = [buckets EXCEPT ![b] = Empty]
  BY LoadFacts
<1>2. b \in Address /\ "join" \in Stages
  BY BoundsOK, StagesOK DEF Address
<1>3. LET v == Placed(conn[c], "join", b)
      IN v.pc = "join" /\ v.key = conn[c].key /\ v.bucket = b /\ v.home = conn[c].home
  BY <1>0, <1>2, SessionOf, PlacedRecord DEF SameBut
<1>4. CASE registry[conn[c].key] = b /\ UNCHANGED <<registry, buckets>>
  <2>1. Clings(c, Placed(conn[c], "join", b))
    BY <1>0, <1>3, <1>4 DEF Clings, Refers
  <2> QED
    BY <1>0, <1>1, <1>3, <1>4, <2>1, ClientKeeps
<1> QED
  BY <1>0, <1>1, <1>3, <1>4, NewPipe

\* A step that changes one bucket b, held for one key, and by which nobody gets
\* an address.
Narrows == \A k \in Keys, a \in 1..MaxBuckets : Refers(k, a)' => Refers(k, a)
Elsewhere(b) == \A a \in 1..MaxBuckets : a # b => buckets'[a] = buckets[a]

LEMMA ClientNarrows ==
    ASSUME TypeInv, NEW c \in Clients, NEW v, conn' = [conn EXCEPT ![c] = v], job' = job, Clings(c, v),
           \A k \in Keys : registry'[k] \in {None, registry[k]}
    PROVE  Narrows
<1>1. ASSUME NEW k \in Keys, NEW a \in 1..MaxBuckets, Refers(k, a)' PROVE Refers(k, a)
  <2>1. registry'[k] = a \/ Refers(k, a) \/ Has(c, v, k, a)
    BY <1>1, HeldBefore
  <2>2. registry'[k] = a => Refers(k, a)
    BY NoneIsNone DEF Refers
  <2>3. Has(c, v, k, a) => Refers(k, a)
    BY DEF Has, Clings
  <2> QED
    BY <2>1, <2>2, <2>3
<1> QED
  BY <1>1 DEF Narrows

LEMMA OtherPipe ==
    ASSUME TypeInv, PipeInv, NEW b \in 1..MaxBuckets, NEW key \in Keys, Refers(key, b), Narrows, Elsewhere(b),
           NEW p \in Persons, p # key, registry'[p] = registry[p],
           \A d \in Clients : InPerson(d) /\ Person(d) = p => InPerson(d)'
    PROVE  PipeOK(p)'
<1>1. ASSUME NEW a \in 1..MaxBuckets, Refers(p, a)'
      PROVE  /\ buckets'[a].dead <=> registry'[p] # a
             /\ buckets'[a].dead => buckets'[a].members = {}
             /\ \A d \in buckets'[a].members : InPerson(d)' /\ Person(d) = p
  <2>1. p \in Keys
    BY DEF Keys
  <2>2. Refers(p, a)
    BY <1>1, <2>1 DEF Narrows
  <2>3. a # b
    BY <2>1, <2>2, OneHolder
  <2>4. buckets'[a] = buckets[a]
    BY <2>3 DEF Elsewhere
  <2>5. buckets[a].members \subseteq Clients
    BY DEF TypeInv
  <2> QED
    BY <2>2, <2>4, <2>5 DEF PipeInv, PipeOK
<1> QED
  BY <1>1 DEF PipeOK, Person

LEMMA OtherSeat ==
    ASSUME TypeInv, PipeInv, NEW b \in 1..MaxBuckets, NEW key \in Keys, Refers(key, b), Elsewhere(b),
           NEW d \in Clients, Person(d) # key, InPerson(d), registry'[Person(d)] = registry[Person(d)]
    PROVE  Reached(d, Person(d))'
<1>1. LET a == registry[Person(d)]
      IN a \in 1..MaxBuckets /\ d \in buckets[a].members /\ Refers(Person(d), a)
  BY SeatOf
<1>2. registry[Person(d)] # b
  BY <1>1, KeysOf, OneHolder
<1>3. buckets'[registry[Person(d)]] = buckets[registry[Person(d)]]
  BY <1>1, <1>2 DEF Elsewhere
<1> QED
  BY <1>1, <1>3, NoneIsNone DEF Reached, Person

LEMMA SidesKept ==
    ASSUME TypeInv, PipeInv, NEW b \in 1..MaxBuckets, Narrows, Elsewhere(b),
           \A a \in Accounts : Refers(a, b) => \A d \in buckets'[b].members : AccountOf[d] = a
    PROVE  \A a \in Accounts : SideOK(a)'
<1>1. ASSUME NEW a \in Accounts, NEW x \in 1..MaxBuckets, Refers(a, x)' PROVE \A d \in buckets'[x].members : AccountOf[d] = a
  <2>1. Refers(a, x)
    BY <1>1 DEF Narrows, Keys
  <2>2. CASE x = b
    BY <2>1, <2>2
  <2>3. CASE x # b
    BY <2>1, <2>3 DEF Elsewhere, PipeInv, SideOK
  <2> QED
    BY <2>2, <2>3
<1> QED
  BY <1>1 DEF SideOK

LEMMA NarrowKey ==
    ASSUME PipeInv, Narrows
    PROVE  OneKey'
<1>1. ASSUME NEW a \in 1..MaxBuckets, NEW k \in Keys, NEW l \in Keys, Refers(k, a)', Refers(l, a)' PROVE k = l
  BY <1>1, OneHolder DEF Narrows
<1> QED
  BY <1>1 DEF OneKey

\* The members that a bucket's holder knows.
LEMMA MembersOK ==
    ASSUME TypeInv, PipeInv, NEW b \in 1..MaxBuckets, NEW k \in Keys, Refers(k, b)
    PROVE  /\ buckets[b].members \subseteq Clients
           /\ k \in Persons => /\ buckets[b].dead <=> registry[k] # b
                               /\ buckets[b].dead => buckets[b].members = {}
                               /\ \A c \in buckets[b].members : InPerson(c) /\ Person(c) = k
           /\ k \in Accounts => \A c \in buckets[b].members : AccountOf[c] = k
BY DEF TypeInv, PipeInv, PipeOK, SideOK

\* The bucket that a client has loaded is held for the client's key.
LEMMA Holding ==
    ASSUME TypeInv, NEW c \in Clients, conn[c].pc # "off"
    PROVE  /\ \A b \in 1..MaxBuckets : conn[c].bucket = b => Refers(conn[c].key, b)
           /\ \A b \in 1..MaxBuckets : conn[c].home = b => Refers(AccountOf[c], b)
BY DEF Refers

LEMMA JoinSide ==
    ASSUME TypeInv, PipeInv, NEW c \in Clients, conn[c].pc = "join", conn[c].key \in Accounts,
           buckets' = [buckets EXCEPT ![conn[c].bucket].members = @ \cup {c}],
           registry' = registry, job' = job, conn' = [conn EXCEPT ![c] = Homed(conn[c], Person(c))]
    PROVE  PipeInv'
<1> DEFINE b == conn[c].bucket
           key == conn[c].key
           v == Homed(conn[c], Person(c))
<1>1. b \in 1..MaxBuckets /\ key = AccountOf[c] /\ key \in Keys /\ Refers(key, b)
  BY SessionOf, KeysOf, Holding
<1>2. v.pc = "load" /\ v.bucket = None /\ v.home = b
  BY SessionOf, KeysOf, HomedRecord
<1>3. /\ Elsewhere(b) /\ buckets'[b].members = buckets[b].members \cup {c}
  BY <1>1 DEF TypeInv, Elsewhere
<1>4. conn'[c] = v /\ \A d \in Clients \ {c} : conn'[d] = conn[d]
  BY ConnStep
<1>5. Clings(c, v)
  BY <1>1, <1>2, NoneIsNone DEF Clings
<1> HIDE DEF b, key, v
<1>6. Narrows
  BY <1>4, <1>5, ClientNarrows DEF v
<1>7. \A d \in Clients : InPerson(d)' <=> InPerson(d)
  BY <1>2, <1>4 DEF InPerson
<1>8. ASSUME NEW p \in Persons PROVE PipeOK(p)'
  BY <1>1, <1>3, <1>6, <1>7, KeysOf, OtherPipe
<1>9. \A a \in Accounts : SideOK(a)'
  <2>1. ASSUME NEW a \in Accounts, Refers(a, b) PROVE \A d \in buckets'[b].members : AccountOf[d] = a
    <3>1. a = key
      BY <1>1, <2>1, OneHolder DEF Keys
    <3> QED
      BY <1>1, <1>3, <2>1, <3>1, MembersOK
  <2> QED
    BY <1>1, <1>3, <1>6, <2>1, SidesKept
<1>10. ASSUME NEW d \in Clients PROVE SeatOK(d)'
  <2>1. InPerson(d)' => Reached(d, Person(d))'
    BY <1>1, <1>3, <1>7, KeysOf, OtherSeat
  <2>2. conn'[d].pc = "unjoin" /\ conn'[d].key \in Persons => conn'[d].bucket = registry'[conn'[d].key]
    BY <1>2, <1>4 DEF PipeInv, SeatOK
  <2> QED
    BY <2>1, <2>2 DEF SeatOK, Person
<1> QED
  BY <1>6, <1>8, <1>9, <1>10, NarrowKey DEF PipeInv

LEMMA JoinPerson ==
    ASSUME TypeInv, PipeInv, NEW c \in Clients, conn[c].pc = "join", conn[c].key \notin Accounts,
           ~ buckets[conn[c].bucket].dead,
           buckets' = [buckets EXCEPT ![conn[c].bucket].members = @ \cup {c}],
           registry' = registry, job' = job, conn' = [conn EXCEPT ![c] = Placed(conn[c], "prune", None)]
    PROVE  PipeInv'
<1> DEFINE b == conn[c].bucket
           key == conn[c].key
           v == Placed(conn[c], "prune", None)
<1>1. b \in 1..MaxBuckets /\ key = Person(c) /\ key \in Keys /\ key \in Persons /\ Refers(key, b)
  BY SessionOf, KeysOf, Holding
<1>2. v.pc = "prune" /\ v.bucket = None /\ v.home = conn[c].home
  <2>1. conn[c] \in Sessions /\ None \in Address /\ "prune" \in Stages
    BY SessionOf, StagesOK
  <2> QED
    BY <2>1, PlacedRecord DEF SameBut
<1>3. /\ Elsewhere(b) /\ buckets'[b].members = buckets[b].members \cup {c} /\ buckets'[b].dead = buckets[b].dead
  BY <1>1 DEF TypeInv, Elsewhere
<1>4. conn'[c] = v /\ \A d \in Clients \ {c} : conn'[d] = conn[d]
  BY ConnStep
<1>5. Clings(c, v)
  BY <1>1, <1>2, NoneIsNone, Holding DEF Clings
<1>6. ~ buckets[b].dead /\ registry[key] = b /\ \A d \in buckets[b].members : d \in Clients /\ InPerson(d) /\ Person(d) = key
  BY <1>1, MembersOK
<1> HIDE DEF b, key, v
<1>7. Narrows
  BY <1>4, <1>5, ClientNarrows DEF v
<1>8. InPerson(c)' /\ \A d \in Clients \ {c} : InPerson(d)' <=> InPerson(d)
  BY <1>2, <1>4 DEF InPerson
<1>9. ASSUME NEW p \in Persons PROVE PipeOK(p)'
  <2>1. CASE p # key
    BY <1>1, <1>3, <1>7, <1>8, <2>1, OtherPipe
  <2>2. CASE p = key
    <3>1. ASSUME NEW a \in 1..MaxBuckets, Refers(p, a)'
          PROVE  /\ buckets'[a].dead <=> registry'[p] # a
                 /\ buckets'[a].dead => buckets'[a].members = {}
                 /\ \A d \in buckets'[a].members : InPerson(d)' /\ Person(d) = p
      <4>1. CASE a = b
        BY <1>1, <1>3, <1>6, <1>8, <2>2, <4>1
      <4>2. CASE a # b
        <5>1. Refers(p, a) /\ buckets'[a] = buckets[a]
          BY <1>1, <1>3, <1>7, <2>2, <3>1, <4>2 DEF Narrows, Elsewhere
        <5>2. buckets[a].dead /\ buckets[a].members = {}
          BY <1>1, <1>6, <2>2, <4>2, <5>1, MembersOK
        <5> QED
          BY <1>6, <2>2, <4>2, <5>1, <5>2
      <4> QED
        BY <4>1, <4>2
    <3> QED
      BY <2>2, <3>1 DEF PipeOK, Person
  <2> QED
    BY <2>1, <2>2
<1>10. \A a \in Accounts : SideOK(a)'
  <2>1. ASSUME NEW a \in Accounts, Refers(a, b) PROVE FALSE
    BY <1>1, <2>1, OneHolder, SseAssumption DEF Keys
  <2> QED
    BY <1>1, <1>3, <1>7, <2>1, SidesKept
<1>11. ASSUME NEW d \in Clients PROVE SeatOK(d)'
  <2>1. InPerson(d)' => Reached(d, Person(d))'
    <3>1. CASE Person(d) = key
      <4>1. InPerson(d)' => d \in buckets[b].members \cup {c}
        BY <1>6, <1>8, <3>1, SeatOf
      <4> QED
        BY <1>1, <1>3, <1>6, <3>1, <4>1, NoneIsNone DEF Reached, Person
    <3>2. CASE Person(d) # key
      BY <1>1, <1>3, <1>8, <3>2, OtherSeat
    <3> QED
      BY <3>1, <3>2
  <2>2. conn'[d].pc = "unjoin" /\ conn'[d].key \in Persons => conn'[d].bucket = registry'[conn'[d].key]
    BY <1>2, <1>4 DEF PipeInv, SeatOK
  <2> QED
    BY <2>1, <2>2 DEF SeatOK, Person
<1> QED
  BY <1>7, <1>9, <1>10, <1>11, NarrowKey DEF PipeInv

LEMMA JoinPipe ==
    ASSUME TypeInv, PipeInv, NEW c \in Clients, Join(c)
    PROVE  PipeInv'
<1>0. conn[c].pc = "join" /\ job' = job /\ registry' = registry /\ ~ InPerson(c)
  BY DEF Join, InPerson
<1>1. CASE buckets' = buckets /\ conn' = [conn EXCEPT ![c] = Moved(conn[c], "load")]
  <2>1. LET v == Moved(conn[c], "load")
        IN v \in Sessions /\ v.pc = "load" /\ v.key = conn[c].key /\ v.bucket = conn[c].bucket /\ v.home = conn[c].home
    BY <1>0, SessionOf, StagesOK, MovedRecord DEF SameBut
  <2> QED
    BY <1>0, <1>1, <2>1, ClientStays
<1> QED
  BY <1>0, <1>1, JoinFacts, JoinSide, JoinPerson

LEMMA EvictPipe ==
    ASSUME TypeInv, PipeInv, NEW c \in Clients, Evict(c)
    PROVE  PipeInv'
<1>0. conn[c].pc = "evict" /\ registry' = registry /\ job' = job /\ InPerson(c)
  BY DEF Evict, InPerson
<1>1. conn[c] \in Sessions /\ "resume" \in Stages /\ conn[c].bucket = None /\ conn[c].home \in Address
  BY <1>0, SessionOf, StagesOK DEF Sessions
<1> DEFINE v == Settled(conn[c], "resume")
<1>2. v \in Sessions /\ v.pc = "resume" /\ v.key = conn[c].key /\ v.bucket = conn[c].bucket /\ v.home = None
  BY <1>1, SettledRecord
<1>3. conn' = [conn EXCEPT ![c] = v]
  BY EvictFacts
<1>4. /\ \A b \in 1..MaxBuckets : buckets'[b].members \subseteq buckets[b].members
      /\ \A b \in 1..MaxBuckets : b # conn[c].home => buckets'[b] = buckets[b]
  BY EvictType
<1>5. Clings(c, v)
  BY <1>1, <1>2, NoneIsNone DEF Clings
<1> HIDE DEF v
<1>6. conn'[c] = v /\ \A d \in Clients \ {c} : conn'[d] = conn[d]
  BY <1>3, ConnStep
<1>7. Narrows
  BY <1>0, <1>3, <1>5, ClientNarrows
<1>8. \A d \in Clients : InPerson(d)' <=> InPerson(d)
  BY <1>0, <1>2, <1>6 DEF InPerson
<1>9. ASSUME NEW p \in Persons, NEW b \in 1..MaxBuckets, Refers(p, b) PROVE buckets'[b] = buckets[b]
  <2>1. b # conn[c].home
    <3>1. conn[c].home = b => Refers(AccountOf[c], b)
      BY <1>0, Holding
    <3> QED
      BY <1>9, <3>1, KeysOf, OneHolder DEF Keys
  <2> QED
    BY <1>4, <2>1
<1>10. ASSUME NEW p \in Persons PROVE PipeOK(p)'
  <2>1. ASSUME NEW b \in 1..MaxBuckets, Refers(p, b)'
        PROVE  /\ buckets'[b].dead <=> registry'[p] # b
               /\ buckets'[b].dead => buckets'[b].members = {}
               /\ \A d \in buckets'[b].members : InPerson(d)' /\ Person(d) = p
    <3>1. Refers(p, b) /\ p \in Keys
      BY <1>7, <2>1 DEF Narrows, Keys
    <3>2. buckets'[b] = buckets[b]
      BY <1>9, <3>1
    <3> QED
      BY <1>0, <1>8, <3>1, <3>2, MembersOK
  <2> QED
    BY <2>1 DEF PipeOK, Person
<1>11. ASSUME NEW a \in Accounts PROVE SideOK(a)'
  <2>1. ASSUME NEW b \in 1..MaxBuckets, Refers(a, b)' PROVE \A d \in buckets'[b].members : AccountOf[d] = a
    <3>1. Refers(a, b) /\ a \in Keys
      BY <1>7, <2>1 DEF Narrows, Keys
    <3> QED
      BY <1>4, <3>1, MembersOK
  <2> QED
    BY <2>1 DEF SideOK
<1>12. ASSUME NEW d \in Clients PROVE SeatOK(d)'
  <2>1. InPerson(d)' => Reached(d, Person(d))'
    BY <1>0, <1>8, <1>9, KeysOf, SeatOf, NoneIsNone DEF Reached, Person
  <2>2. conn'[d].pc = "unjoin" /\ conn'[d].key \in Persons => conn'[d].bucket = registry'[conn'[d].key]
    BY <1>0, <1>2, <1>6 DEF PipeInv, SeatOK
  <2> QED
    BY <2>1, <2>2 DEF SeatOK, Person
<1> QED
  BY <1>7, <1>10, <1>11, <1>12, NarrowKey DEF PipeInv

\* The first unjoin is of the account's bucket ...
LEMMA UnjoinSide ==
    ASSUME TypeInv, PipeInv, NEW c \in Clients, conn[c].pc = "unjoin", conn[c].key \in Accounts,
           conn' = [conn EXCEPT ![c] = Unjoined(c)], job' = job,
           Elsewhere(conn[c].bucket), buckets'[conn[c].bucket].members \subseteq buckets[conn[c].bucket].members,
           \A k \in Keys : k # conn[c].key => registry'[k] = registry[k],
           \A k \in Keys : registry'[k] \in {None, registry[k]}
    PROVE  PipeInv'
<1> DEFINE b == conn[c].bucket
           key == conn[c].key
           v == Unjoined(c)
<1>1. b \in 1..MaxBuckets /\ key \in Keys /\ key \notin Persons /\ Refers(key, b)
  BY SessionOf, KeysOf, Holding
<1>2. v.pc = "find" /\ v.bucket = None /\ v.home = conn[c].home
  BY UnjoinedFacts DEF SameBut
<1>3. conn'[c] = v /\ \A d \in Clients \ {c} : conn'[d] = conn[d]
  BY ConnStep
<1>4. Clings(c, v)
  BY <1>2, NoneIsNone, Holding DEF Clings
<1>5. Elsewhere(b) /\ buckets'[b].members \subseteq buckets[b].members
  OBVIOUS
<1>6. \A p \in Persons : p # key /\ registry'[p] = registry[p]
  BY <1>1 DEF Keys
<1> HIDE DEF b, key, v
<1>7. Narrows
  BY <1>3, <1>4, ClientNarrows DEF v
<1>8. \A d \in Clients : InPerson(d)' <=> InPerson(d)
  BY <1>2, <1>3 DEF InPerson
<1>9. ASSUME NEW p \in Persons PROVE PipeOK(p)'
  BY <1>1, <1>5, <1>6, <1>7, <1>8, OtherPipe
<1>10. \A a \in Accounts : SideOK(a)'
  <2>1. ASSUME NEW a \in Accounts, Refers(a, b) PROVE \A d \in buckets'[b].members : AccountOf[d] = a
    BY <1>1, <1>5, <2>1, MembersOK DEF Keys
  <2> QED
    BY <1>1, <1>5, <1>7, <2>1, SidesKept
<1>11. ASSUME NEW d \in Clients PROVE SeatOK(d)'
  <2>1. InPerson(d)' => Reached(d, Person(d))'
    BY <1>1, <1>5, <1>6, <1>8, KeysOf, OtherSeat
  <2>2. ASSUME conn'[d].pc = "unjoin", conn'[d].key \in Persons PROVE conn'[d].bucket = registry'[conn'[d].key]
    BY <1>2, <1>3, <1>6, <2>2 DEF PipeInv, SeatOK
  <2> QED
    BY <2>1, <2>2 DEF SeatOK, Person
<1> QED
  BY <1>7, <1>9, <1>10, <1>11, NarrowKey DEF PipeInv

\* ... and the second of the person's, the one that is registered.
LEMMA UnjoinPerson ==
    ASSUME TypeInv, PipeInv, NEW c \in Clients, conn[c].pc = "unjoin", conn[c].key \notin Accounts,
           conn' = [conn EXCEPT ![c] = Unjoined(c)], job' = job,
           Elsewhere(conn[c].bucket), NEW left, left = buckets[conn[c].bucket].members \ {c},
           buckets'[conn[c].bucket].members = left,
           buckets'[conn[c].bucket].dead = (buckets[conn[c].bucket].dead \/ left = {}),
           \A k \in Keys : k # conn[c].key => registry'[k] = registry[k],
           registry'[conn[c].key] = IF left = {} THEN None ELSE registry[conn[c].key]
    PROVE  PipeInv'
<1> DEFINE b == conn[c].bucket
           key == conn[c].key
           v == Unjoined(c)
<1>1. /\ b \in 1..MaxBuckets /\ key = Person(c) /\ key \in Keys /\ key \in Persons /\ Refers(key, b)
      /\ registry[key] = b
  BY SessionOf, KeysOf, Holding DEF PipeInv, SeatOK
<1>2. v.pc = "close" /\ v.bucket = None /\ v.home = conn[c].home
  BY UnjoinedFacts DEF SameBut
<1>3. conn'[c] = v /\ \A d \in Clients \ {c} : conn'[d] = conn[d]
  BY ConnStep
<1>4. Clings(c, v)
  BY <1>2, NoneIsNone, Holding DEF Clings
<1>5. /\ Elsewhere(b) /\ left = buckets[b].members \ {c} /\ buckets'[b].members = left
      /\ buckets'[b].dead = (buckets[b].dead \/ left = {})
      /\ registry'[key] = IF left = {} THEN None ELSE b
      /\ \A k \in Keys : k # key => registry'[k] = registry[k]
  BY <1>1
<1>6. ~ buckets[b].dead /\ \A d \in buckets[b].members : d \in Clients /\ InPerson(d) /\ Person(d) = key
  BY <1>1, MembersOK
<1> HIDE DEF b, key, v
<1>7. Narrows
  <2>1. \A k \in Keys : registry'[k] \in {None, registry[k]}
    BY <1>1, <1>5
  <2> QED
    BY <1>3, <1>4, <2>1, ClientNarrows DEF v
<1>8. ~ InPerson(c)' /\ \A d \in Clients \ {c} : InPerson(d)' <=> InPerson(d)
  BY <1>2, <1>3 DEF InPerson
<1>9. ASSUME NEW p \in Persons PROVE PipeOK(p)'
  <2>1. CASE p # key
    <3>1. registry'[p] = registry[p]
      BY <1>5, <2>1 DEF Keys
    <3> QED
      BY <1>1, <1>5, <1>7, <1>8, <2>1, <3>1, OtherPipe
  <2>2. CASE p = key
    <3>1. ASSUME NEW a \in 1..MaxBuckets, Refers(p, a)'
          PROVE  /\ buckets'[a].dead <=> registry'[p] # a
                 /\ buckets'[a].dead => buckets'[a].members = {}
                 /\ \A d \in buckets'[a].members : InPerson(d)' /\ Person(d) = p
      <4>1. CASE a = b
        BY <1>1, <1>5, <1>6, <1>8, <2>2, <4>1, NoneIsNone
      <4>2. CASE a # b
        <5>1. Refers(p, a) /\ buckets'[a] = buckets[a]
          BY <1>1, <1>5, <1>7, <2>2, <3>1, <4>2 DEF Narrows, Elsewhere
        <5>2. buckets[a].dead /\ buckets[a].members = {}
          BY <1>1, <2>2, <4>2, <5>1, MembersOK
        <5> QED
          BY <1>5, <2>2, <4>2, <5>1, <5>2, NoneIsNone
      <4> QED
        BY <4>1, <4>2
    <3> QED
      BY <2>2, <3>1 DEF PipeOK, Person
  <2> QED
    BY <2>1, <2>2
<1>10. \A a \in Accounts : SideOK(a)'
  <2>1. ASSUME NEW a \in Accounts, Refers(a, b) PROVE FALSE
    BY <1>1, <2>1, OneHolder, SseAssumption DEF Keys
  <2> QED
    BY <1>1, <1>5, <1>7, <2>1, SidesKept
<1>11. ASSUME NEW d \in Clients PROVE SeatOK(d)'
  <2>1. ASSUME InPerson(d)' PROVE Reached(d, Person(d))' /\ registry'[Person(d)] = registry[Person(d)]
    <3>1. d # c /\ InPerson(d)
      BY <1>8, <2>1
    <3>2. CASE Person(d) = key
      <4>1. d \in left
        BY <1>1, <1>5, <3>1, <3>2, SeatOf
      <4>2. registry'[Person(d)] = b /\ registry[Person(d)] = b
        BY <1>1, <1>5, <3>2, <4>1
      <4> QED
        BY <1>1, <1>5, <4>1, <4>2, NoneIsNone DEF Reached, Person
    <3>3. CASE Person(d) # key
      BY <1>1, <1>5, <3>1, <3>3, KeysOf, OtherSeat
    <3> QED
      BY <3>2, <3>3
  <2>2. ASSUME conn'[d].pc = "unjoin", conn'[d].key \in Persons PROVE conn'[d].bucket = registry'[conn'[d].key]
    <3>1. conn'[d] = conn[d]
      BY <1>2, <1>3, <2>2
    <3>2. InPerson(d)' /\ conn[d].key = Person(d)
      BY <2>2, <3>1, SessionOf, KeysOf DEF InPerson
    <3> QED
      BY <2>1, <2>2, <3>1, <3>2 DEF PipeInv, SeatOK
  <2> QED
    BY <2>1, <2>2 DEF SeatOK, Person
<1> QED
  BY <1>7, <1>9, <1>10, <1>11, NarrowKey DEF PipeInv

LEMMA UnjoinPipe ==
    ASSUME TypeInv, PipeInv, NEW c \in Clients, Unjoin(c)
    PROVE  PipeInv'
<1>0. conn[c].pc = "unjoin" /\ job' = job /\ conn[c].key \in Keys
  BY SessionOf DEF Unjoin
<1> DEFINE left == buckets[conn[c].bucket].members \ {c}
<1>1. /\ conn[c].bucket \in 1..MaxBuckets /\ conn' = [conn EXCEPT ![c] = Unjoined(c)]
      /\ Elsewhere(conn[c].bucket) /\ buckets'[conn[c].bucket].members = left
      /\ buckets'[conn[c].bucket].dead = (buckets[conn[c].bucket].dead \/ left = {})
      /\ \/ left # {} /\ registry' = registry
         \/ left = {} /\ registry' = [registry EXCEPT ![conn[c].key] = None]
  BY UnjoinFacts DEF Elsewhere
<1>2. /\ \A k \in Keys : k # conn[c].key => registry'[k] = registry[k]
      /\ registry'[conn[c].key] = IF left = {} THEN None ELSE registry[conn[c].key]
  BY <1>0, <1>1 DEF TypeInv
<1>3. left \subseteq buckets[conn[c].bucket].members /\ \A k \in Keys : registry'[k] \in {None, registry[k]}
  BY <1>2
<1> HIDE DEF left
<1> QED
  BY <1>0, <1>1, <1>2, <1>3, UnjoinSide, UnjoinPerson DEF left

\* The steps of a publisher: it gets an address from the registry, or none.
LEMMA JobKeeps ==
    ASSUME TypeInv, PipeInv, NEW j \in Jobs, NEW v, job' = [job EXCEPT ![j] = v],
           registry' = registry, buckets' = buckets, \A c \in Clients : SameSession(c),
           v.pc = "push" => v.bucket = registry[v.key]
    PROVE  PipeInv'
<1>1. job'[j] = v /\ \A i \in Jobs \ {j} : job'[i] = job[i]
  BY DEF TypeInv
<1>2. ASSUME NEW k \in Keys, NEW b \in 1..MaxBuckets, Refers(k, b)' PROVE Refers(k, b)
  <2>1. CASE registry'[k] = b
    BY <2>1 DEF Refers
  <2>2. ASSUME NEW i \in Jobs, job'[i].pc = "push", job'[i].key = k, job'[i].bucket = b PROVE Refers(k, b)
    BY <1>1, <2>2 DEF Refers
  <2>3. ASSUME NEW d \in Clients, conn'[d].pc # "off",
               (conn'[d].key = k /\ conn'[d].bucket = b) \/ (AccountOf[d] = k /\ conn'[d].home = b)
        PROVE  Refers(k, b)
    BY <2>3 DEF Refers, SameSession
  <2> QED
    BY <1>2, <2>1, <2>2, <2>3 DEF Refers
<1>3. \A c \in Clients : InPerson(c)' <=> InPerson(c)
  BY DEF SameSession, InPerson
<1>4. \A c \in Clients : conn'[c].pc = "unjoin" /\ conn'[c].key \in Persons =>
                           conn'[c].bucket = registry[conn'[c].key]
  BY DEF SameSession, PipeInv, SeatOK
<1> QED
  BY <1>2, <1>3, <1>4, PipeKept

LEMMA SessionsKept ==
    ASSUME TypeInv, conn' = conn
    PROVE  \A c \in Clients : SameSession(c)
BY SessionOf DEF SameSession

LEMMA PublishPipe ==
    ASSUME TypeInv, PipeInv, NEW j \in Jobs, PublishToUser(j) \/ PublishToAccount(j) \/ PublishToAllSessions(j)
    PROVE  PipeInv'
<1>1. registry' = registry /\ buckets' = buckets /\ conn' = conn
  BY DEF PublishToUser, PublishToAccount, PublishToAllSessions, streams
<1>2. PICK keys \in SUBSET Keys, S \in SUBSET Persons : \E stamped \in [S -> Frames] :
        job' = [job EXCEPT ![j] = Fresh(keys, events + 1, stamped)]
  BY PublishFacts
<1>3. PICK stamped \in [S -> Frames] : job' = [job EXCEPT ![j] = Fresh(keys, events + 1, stamped)]
  BY <1>2
<1>4. Fresh(keys, events + 1, stamped).pc = "find"
  BY DEF Fresh
<1> QED
  BY <1>1, <1>3, <1>4, SessionsKept, JobKeeps

LEMMA VisitPipe ==
    ASSUME TypeInv, PipeInv, NEW j \in Jobs, Visit(j)
    PROVE  PipeInv'
<1>1. registry' = registry /\ buckets' = buckets /\ conn' = conn /\ job[j].pc = "find"
  BY DEF Visit, streams
<1>2. PICK k \in job[j].todo :
             /\ k \in Keys
             /\ \/ registry[k] \in 1..MaxBuckets /\ job' = [job EXCEPT ![j] = Pushing(job[j], k, registry[k])]
                \/ registry[k] = None /\ job[j].todo = {k} /\ job' = [job EXCEPT ![j] = Idle]
                \/ registry[k] = None /\ job' = [job EXCEPT ![j] = Skipping(job[j], k)]
  BY VisitFacts
<1>3. job[j] \in Publishes /\ registry[k] \in Address
  BY <1>1, <1>2, JobOf DEF TypeInv
<1>4. /\ Pushing(job[j], k, registry[k]).bucket = registry[k] /\ Pushing(job[j], k, registry[k]).key = k
      /\ Skipping(job[j], k).pc = "find" /\ Idle.pc = "idle"
  BY <1>1, <1>2, <1>3, PushingRecord, SkippingRecord DEF Idle
<1> QED
  BY <1>1, <1>2, <1>4, SessionsKept, JobKeeps

LEMMA PushPipe ==
    ASSUME TypeInv, PipeInv, NEW j \in Jobs, Push(j)
    PROVE  PipeInv'
<1>1. registry' = registry /\ buckets' = buckets
  BY DEF Push, streams
<1>2. PICK v : job' = [job EXCEPT ![j] = v]
  BY PushJob
<1>3. job'[j] = v
  BY <1>2 DEF TypeInv
<1>4. v.pc # "push"
  BY <1>3, PushJob DEF Idle
<1> QED
  BY <1>1, <1>2, <1>4, PushSessions, JobKeeps

\* Where nobody holds an address, there is nothing to keep.
LEMMA NoPipes ==
    ASSUME registry = [k \in Keys |-> None], conn = [d \in Clients |-> Off],
           job = [j \in Jobs |-> Idle]
    PROVE  PipeInv
<1>1. \A k \in Keys, b \in 1..MaxBuckets : ~ Refers(k, b)
  BY NoneIsNone DEF Refers, Off, Idle
<1>2. \A d \in Clients : SeatOK(d)
  BY DEF SeatOK, InPerson, Off
<1> QED
  BY <1>1, <1>2 DEF PipeInv, OneKey, PipeOK, SideOK, Keys

LEMMA PipeInit == Init => PipeInv
BY NoPipes DEF Init

LEMMA RestartPipe ==
    ASSUME Restart
    PROVE  PipeInv'
<1>1. \A k \in Keys, b \in 1..MaxBuckets : ~ Refers(k, b)'
  BY NoneIsNone DEF Refers, Off, Idle, Restart
<1>2. \A d \in Clients : SeatOK(d)'
  BY DEF SeatOK, InPerson, Off, Restart
<1> QED
  BY <1>1, <1>2 DEF PipeInv, OneKey, PipeOK, SideOK, Keys

LEMMA PipeStill ==
    ASSUME PipeInv, vars' = vars
    PROVE  PipeInv'
BY DEF PipeInv, OneKey, PipeOK, SideOK, SeatOK, Refers, InPerson, Reached, Person, vars

LEMMA PipeNext ==
    ASSUME TypeInv, PipeInv, [Next]_vars
    PROVE  PipeInv'
<1>1. ASSUME NEW c \in Clients,
             \/ Open(c) \/ Load(c) \/ Join(c) \/ Prune(c) \/ Evict(c) \/ Resume(c) \/ Read(c)
             \/ Leave(c) \/ Find(c) \/ Unjoin(c) \/ Close(c)
      PROVE  PipeInv'
  BY <1>1, OpenPipe, LoadPipe, JoinPipe, PrunePipe, EvictPipe, ResumePipe, ReadPipe, LeavePipe, FindPipe,
     UnjoinPipe, ClosePipe
<1>2. ASSUME NEW j \in Jobs,
             PublishToUser(j) \/ PublishToAccount(j) \/ PublishToAllSessions(j) \/ Visit(j) \/ Push(j)
      PROVE  PipeInv'
  BY <1>2, PublishPipe, VisitPipe, PushPipe
<1> QED
  BY <1>1, <1>2, RestartPipe, PipeStill DEF Next

LEMMA SpecPipes == Spec => [](TypeInv /\ PipeInv)
<1>1. Init => TypeInv /\ PipeInv
  BY TypeInit, PipeInit
<1>2. TypeInv /\ PipeInv /\ [Next]_vars => (TypeInv /\ PipeInv)'
  BY TypeNext, PipeNext
<1> QED
  BY <1>1, <1>2, PTL DEF Spec

\* A connection that has registered and not left is a member of the bucket that
\* is registered for its person, whatever was torn down while it joined
\* (addToRegistry's retry on a dead bucket).
THEOREM PipeReaches == Spec => []PersonReaches
<1>1. TypeInv /\ PipeInv => PersonReaches
  BY DEF PipeInv, SeatOK, PersonReaches, Registered, InPerson
<1> QED
  BY <1>1, SpecPipes, PTL

\* No push along a person's pipe finds a session whose channel is closed: not in
\* a bucket that the publisher loaded and that was torn down since, either.
THEOREM PushesToOpen == Spec => []SentToOpen
<1>1. TypeInv /\ PipeInv => SentToOpen
  <2>1. ASSUME TypeInv, PipeInv, NEW j \in Jobs, job[j].pc = "push", job[j].key \in Persons
        PROVE  \A c \in buckets[job[j].bucket].members : conn[c].pc # "off"
    <3>1. job[j].bucket \in 1..MaxBuckets /\ job[j].key \in Keys
      BY <2>1, JobOf
    <3>2. Refers(job[j].key, job[j].bucket)
      BY <2>1 DEF Refers
    <3> QED
      BY <2>1, <3>1, <3>2, MembersOK DEF InPerson
  <2> QED
    BY <2>1 DEF SentToOpen
<1> QED
  BY <1>1, SpecPipes, PTL

-----------------------------------------------------------------------------
(* Steps keep the frames *)

\* The logs change in that some are forgotten, at most.
RingsStay == \A p \in Persons : log'[p].ring \in {log[p].ring, <<>>}

LEMMA RingOf ==
    ASSUME TypeInv, NEW p \in Persons
    PROVE  log[p].ring \in Seq(Frames) /\ Len(log[p].ring) \in Nat
           /\ \A i \in 1..Len(log[p].ring) : log[p].ring[i] \in Frames
BY DEF TypeInv

LEMMA QueueOf ==
    ASSUME TypeInv, NEW c \in Clients, conn[c].pc # "off"
    PROVE  conn[c].queue \in Seq(Frames) /\ Len(conn[c].queue) \in Nat
           /\ \A i \in 1..Len(conn[c].queue) : conn[c].queue[i] \in Frames
<1>1. conn[c].queue \in Seq(Frames)
  BY SessionOf DEF Sessions
<1> QED
  BY <1>1

LEMMA RingStays ==
    ASSUME FrameInv, NEW p \in Persons, RingsStay, job' = job, events' = events
    PROVE  RingOK(p)'
<1>1. CASE log'[p].ring = log[p].ring
  BY <1>1 DEF FrameInv, RingOK, Active, Stamps
<1>2. CASE log'[p].ring = <<>>
  BY <1>2 DEF RingOK
<1> QED
  BY <1>1, <1>2 DEF RingsStay

LEMMA QueueStays ==
    ASSUME FrameInv, NEW c \in Clients, RingsStay, job' = job, events' = events,
           conn[c].pc # "off", conn'[c].queue = conn[c].queue
    PROVE  QueueOK(c)'
<1>0. log'[Person(c)].ring \in {log[Person(c)].ring, <<>>}
  BY KeysOf DEF RingsStay
<1> PICK queue, ring, new : queue = conn[c].queue /\ ring = log[Person(c)].ring /\ new = log'[Person(c)].ring
  OBVIOUS
<1>1. ASSUME NEW i \in 1..Len(queue)
      PROVE  /\ queue[i].event \in 1..events
             /\ \A k \in 1..Len(queue) : queue[k].event = queue[i].event => k = i
             /\ \A k \in 1..Len(ring) : ring[k].event = queue[i].event => ring[k] = queue[i]
             /\ \A j \in Jobs : Active(j) /\ job[j].event = queue[i].event =>
                  Stamps(j, Person(c), queue[i]) /\ Passed(j, c)
  BY DEF FrameInv, QueueOK
<1>2. \A k \in 1..Len(new) : k \in 1..Len(ring) /\ new[k] = ring[k]
  BY <1>0
<1>3. ASSUME NEW i \in 1..Len(queue), NEW k \in 1..Len(new), new[k].event = queue[i].event PROVE new[k] = queue[i]
  BY <1>1, <1>2, <1>3
<1>4. ASSUME NEW i \in 1..Len(queue), NEW j \in Jobs, Active(j)', job'[j].event = queue[i].event
      PROVE  Stamps(j, Person(c), queue[i])' /\ Passed(j, c)'
  <2>1. Stamps(j, Person(c), queue[i]) /\ Passed(j, c)
    BY <1>1, <1>4 DEF Active
  <2> QED
    BY <2>1 DEF Stamps, Passed, Pending, Person
<1>5. conn'[c].queue = queue /\ log'[Person(c)].ring = new
  OBVIOUS
<1> QED
  BY <1>1, <1>3, <1>4, <1>5 DEF QueueOK, Person

LEMMA FramesStay ==
    ASSUME FrameInv, NEW c \in Clients, RingsStay, job' = job, events' = events,
           conn[c].pc # "off", conn'[c].queue = conn[c].queue, conn'[c].wrote = conn[c].wrote,
           conn'[c].upTo = conn[c].upTo
    PROVE  QueueOK(c)' /\ WroteOK(c)'
<1>1. WroteOK(c)'
  BY DEF FrameInv, WroteOK, Active, Passed, Pending, Person
<1> QED
  BY <1>1, QueueStays

\* A step of a client, if its own session is right afterwards.
LEMMA ClientFrames ==
    ASSUME TypeInv, FrameInv, NEW c \in Clients, NEW v, conn' = [conn EXCEPT ![c] = v], job' = job,
           events' = events, RingsStay, QueueOK(c)', WroteOK(c)'
    PROVE  FrameInv'
<1>1. \A d \in Clients \ {c} : conn'[d] = conn[d]
  BY ConnStep
<1>2. EventsOK'
  BY DEF FrameInv, EventsOK, Active
<1>3. \A p \in Persons : RingOK(p)'
  BY RingStays
<1>4. ASSUME NEW d \in Clients, d # c PROVE QueueOK(d)' /\ WroteOK(d)'
  <2>1. conn'[d] = conn[d]
    BY <1>1, <1>4
  <2>2. CASE conn[d].pc = "off"
    BY <2>1, <2>2 DEF QueueOK, WroteOK
  <2> QED
    BY <2>1, <2>2, FramesStay
<1> QED
  BY <1>2, <1>3, <1>4 DEF FrameInv

\* The step of a client that leaves its queue and what it wrote as they are, and
\* of one that has neither.
LEMMA ClientSteady ==
    ASSUME TypeInv, FrameInv, NEW c \in Clients, NEW v, conn' = [conn EXCEPT ![c] = v], job' = job,
           events' = events, RingsStay, conn[c].pc # "off",
           v.queue = conn[c].queue, v.wrote = conn[c].wrote, v.upTo = conn[c].upTo
    PROVE  FrameInv'
<1>1. conn'[c] = v
  BY ConnStep
<1>2. QueueOK(c)' /\ WroteOK(c)'
  BY <1>1, FramesStay
<1> QED
  BY <1>2, ClientFrames

LEMMA ClientEmpty ==
    ASSUME TypeInv, FrameInv, NEW c \in Clients, NEW v, conn' = [conn EXCEPT ![c] = v], job' = job,
           events' = events, RingsStay, v.pc # "off" => v.queue = <<>> /\ v.wrote = {}
    PROVE  FrameInv'
<1>1. conn'[c] = v
  BY ConnStep
<1>2. QueueOK(c)' /\ WroteOK(c)'
  BY <1>1 DEF QueueOK, WroteOK
<1> QED
  BY <1>2, ClientFrames

LEMMA OpenFrames ==
    ASSUME TypeInv, FrameInv, NEW c \in Clients, Open(c)
    PROVE  FrameInv'
<1>1. PICK room \in BOOLEAN : conn' = [conn EXCEPT ![c] =
         [pc |-> "load", key |-> AccountOf[c], bucket |-> None, home |-> None, room |-> room,
          seq |-> opens + 1, queue |-> <<>>, lost |-> {}, wrote |-> {},
          upTo |-> 0, from |-> NoPoint]]
  BY DEF Open
<1>2. job' = job /\ events' = events /\ RingsStay
  BY DEF Open, record, RingsStay
<1> QED
  BY <1>1, <1>2, ClientEmpty

LEMMA LoadFrames ==
    ASSUME TypeInv, FrameInv, NEW c \in Clients, Load(c)
    PROVE  FrameInv'
<1>1. conn[c].pc # "off" /\ job' = job /\ events' = events /\ RingsStay
  BY DEF Load, record, bounds, RingsStay
<1>2. PICK b \in 1..MaxBuckets : conn' = [conn EXCEPT ![c] = Placed(conn[c], "join", b)]
  BY LoadFacts
<1>3. b \in Address /\ "join" \in Stages
  BY BoundsOK, StagesOK DEF Address
<1>4. SameBut(conn[c], Placed(conn[c], "join", b))
  BY <1>1, <1>3, SessionOf, PlacedRecord
<1> QED
  BY <1>1, <1>2, <1>4, ClientSteady DEF SameBut

LEMMA JoinFrames ==
    ASSUME TypeInv, FrameInv, NEW c \in Clients, Join(c)
    PROVE  FrameInv'
<1>1. conn[c].pc # "off" /\ job' = job /\ events' = events /\ RingsStay
  BY DEF Join, record, bounds, RingsStay
<1>2. conn[c] \in Sessions /\ "load" \in Stages /\ "prune" \in Stages /\ None \in Address
  BY <1>1, SessionOf, StagesOK
<1>3. SameBut(conn[c], Moved(conn[c], "load")) /\ SameBut(conn[c], Placed(conn[c], "prune", None))
  BY <1>2, MovedRecord, PlacedRecord
<1>4. LET v == Homed(conn[c], Person(c))
      IN v.queue = conn[c].queue /\ v.wrote = conn[c].wrote /\ v.upTo = conn[c].upTo
  BY <1>2, KeysOf, HomedRecord
<1> QED
  BY <1>1, <1>3, <1>4, JoinFacts, ClientSteady DEF SameBut

LEMMA PruneFrames ==
    ASSUME TypeInv, FrameInv, NEW c \in Clients, Prune(c)
    PROVE  FrameInv'
<1>1. conn[c].pc # "off" /\ job' = job /\ events' = events
  BY DEF Prune, bounds
<1>2. RingsStay
  BY PruneFacts DEF RingsStay, Lapsed
<1>3. conn[c] \in Sessions /\ "live" \in Stages /\ "evict" \in Stages
  BY <1>1, SessionOf, StagesOK
<1>4. LET v == Settled(conn[c], "live")
      IN v.queue = conn[c].queue /\ v.wrote = conn[c].wrote /\ v.upTo = conn[c].upTo
  BY <1>3, SettledRecord
<1>5. SameBut(conn[c], Moved(conn[c], "evict"))
  BY <1>3, MovedRecord
<1> QED
  BY <1>1, <1>2, <1>4, <1>5, PruneFacts, ClientSteady DEF SameBut

LEMMA EvictFrames ==
    ASSUME TypeInv, FrameInv, NEW c \in Clients, Evict(c)
    PROVE  FrameInv'
<1>1. conn[c].pc # "off" /\ job' = job /\ events' = events /\ RingsStay
  BY DEF Evict, record, bounds, RingsStay
<1>2. conn[c] \in Sessions /\ "resume" \in Stages
  BY <1>1, SessionOf, StagesOK
<1>3. LET v == Settled(conn[c], "resume")
      IN v.queue = conn[c].queue /\ v.wrote = conn[c].wrote /\ v.upTo = conn[c].upTo
  BY <1>2, SettledRecord
<1> QED
  BY <1>1, <1>3, EvictFacts, ClientSteady

LEMMA LeaveFrames ==
    ASSUME TypeInv, FrameInv, NEW c \in Clients, Leave(c)
    PROVE  FrameInv'
<1>1. conn[c].pc # "off" /\ job' = job /\ events' = events /\ RingsStay
  BY DEF Leave, record, bounds, RingsStay
<1>2. LET v == Left(conn[c], AccountOf[c]) IN v.queue = <<>> /\ v.wrote = {}
  BY <1>1, SessionOf, KeysOf, LeftRecord
<1> QED
  BY <1>1, <1>2, LeaveFacts, ClientEmpty

LEMMA FindFrames ==
    ASSUME TypeInv, FrameInv, NEW c \in Clients, Find(c)
    PROVE  FrameInv'
<1>1. conn[c].pc # "off" /\ job' = job /\ events' = events /\ RingsStay
  BY DEF Find, record, bounds, RingsStay
<1>2. SameBut(conn[c], Unjoined(c))
  BY <1>1, UnjoinedFacts
<1>3. conn[c] \in Sessions /\ "unjoin" \in Stages /\ registry[conn[c].key] \in Address
  BY <1>1, SessionOf, StagesOK
<1>4. SameBut(conn[c], Placed(conn[c], "unjoin", registry[conn[c].key]))
  BY <1>3, PlacedRecord
<1> QED
  BY <1>1, <1>2, <1>4, FindFacts, ClientSteady DEF SameBut

LEMMA UnjoinFrames ==
    ASSUME TypeInv, FrameInv, NEW c \in Clients, Unjoin(c)
    PROVE  FrameInv'
<1>1. conn[c].pc # "off" /\ job' = job /\ events' = events /\ RingsStay
  BY DEF Unjoin, record, bounds, RingsStay
<1>2. SameBut(conn[c], Unjoined(c)) /\ conn' = [conn EXCEPT ![c] = Unjoined(c)]
  BY <1>1, UnjoinedFacts, UnjoinFacts
<1> QED
  BY <1>1, <1>2, ClientSteady DEF SameBut

LEMMA CloseFrames ==
    ASSUME TypeInv, FrameInv, NEW c \in Clients, Close(c)
    PROVE  FrameInv'
<1>1. conn' = [conn EXCEPT ![c] = Off] /\ Off.pc = "off" /\ job' = job /\ events' = events /\ RingsStay
  BY DEF Close, record, bounds, RingsStay, Off
<1> QED
  BY <1>1, ClientEmpty

\* The numbers of a ring rise to its last.
LEMMA RingNumbers ==
    ASSUME TypeInv, NEW p \in Persons, RingOK(p)
    PROVE  LET ring == log[p].ring
           IN /\ \A i \in 1..Len(ring) : ring[i].id <= LastOf(ring) /\ ring[1].id <= ring[i].id
              /\ ring # <<>> => Len(ring) # 0 /\ LastOf(ring) = ring[1].id + Len(ring) - 1
<1> PICK ring : ring = log[p].ring
  OBVIOUS
<1>1. ring \in Seq(Frames) /\ Len(ring) \in Nat /\ \A i \in 1..Len(ring) : ring[i] \in Frames /\ ring[i].id \in Nat
  BY RingOf DEF Frames
<1>2. \A i \in 1..Len(ring) : ring[i].id = ring[1].id + i - 1
  BY DEF RingOK
<1>3. ring # <<>> => LastOf(ring) = ring[Len(ring)].id /\ Len(ring) # 0
  BY <1>1, LastOfOK
<1>4. \A i \in 1..Len(ring) : ring # <<>>
  BY <1>1
<1>5. ASSUME Len(ring) # 0 PROVE Len(ring) \in 1..Len(ring) /\ 1 \in 1..Len(ring)
  BY <1>1, <1>5
<1>6. Len(ring) # 0 => ring[Len(ring)].id = ring[1].id + Len(ring) - 1 /\ ring[1].id \in Nat
  BY <1>1, <1>2, <1>5
<1>7. ASSUME NEW i \in 1..Len(ring) PROVE ring[i].id <= LastOf(ring) /\ ring[1].id <= ring[i].id
  <2>1. Len(ring) # 0 /\ LastOf(ring) = ring[1].id + Len(ring) - 1 /\ ring[i].id = ring[1].id + i - 1
    BY <1>1, <1>2, <1>3, <1>4, <1>6
  <2> QED
    BY <1>1, <1>6, <2>1
<1> QED
  BY <1>3, <1>6, <1>7

\* What a resume hands over.
Handed(ring, last) == {f.event : f \in Missed(ring, last)}

LEMMA MissedFacts ==
    ASSUME NEW ring \in Seq(Frames), NEW last
    PROVE  /\ \A e \in Handed(ring, last) : \E k \in 1..Len(ring) : ring[k].event = e /\ ring[k].id > last
           /\ \A k \in 1..Len(ring) : ring[k].id > last => ring[k].event \in Handed(ring, last)
           /\ Handed(ring, last) # {} <=> Missed(ring, last) # {}
<1>1. DOMAIN ring = 1..Len(ring)
  OBVIOUS
<1> QED
  BY <1>1 DEF Missed, Handed, ToSet

LEMMA ResumeFrames ==
    ASSUME TypeInv, FrameInv, NEW c \in Clients, Resume(c)
    PROVE  FrameInv'
<1>0. conn[c].pc # "off" /\ job' = job /\ events' = events /\ RingsStay /\ conn[c] \in Sessions /\ "live" \in Stages
  BY SessionOf, StagesOK DEF Resume, record, bounds, RingsStay
<1>1. CASE conn' = [conn EXCEPT ![c] = Moved(conn[c], "live")]
  <2>1. SameBut(conn[c], Moved(conn[c], "live"))
    BY <1>0, MovedRecord
  <2> QED
    BY <1>0, <1>1, <2>1, ClientSteady DEF SameBut
<1>2. ASSUME NEW from \in Points, NEW wrote \in SUBSET Nat, NEW upTo \in Nat,
             wrote = {f.event : f \in Missed(log[Person(c)].ring, client[c].id)},
             upTo = IF Missed(log[Person(c)].ring, client[c].id) = {} THEN 0 ELSE LastOf(log[Person(c)].ring),
             conn' = [conn EXCEPT ![c] = Replayed(conn[c], from, wrote, upTo)]
      PROVE  FrameInv'
  <2>3. conn'[c].queue = conn[c].queue /\ conn'[c].wrote = wrote /\ conn'[c].upTo = upTo
    <3>0. conn[c] \in Sessions
      BY <1>0
    <3>1. LET v == Replayed(conn[c], from, wrote, upTo)
          IN v.queue = conn[c].queue /\ v.wrote = wrote /\ v.upTo = upTo
      BY <3>0, ReplayedRecord
    <3>2. conn'[c] = Replayed(conn[c], from, wrote, upTo)
      BY <1>2, ConnStep
    <3> QED
      BY <3>1, <3>2
  <2>4. QueueOK(c)'
    BY <1>0, <2>3, QueueStays
  <2> PICK queue, ring, last : queue = conn[c].queue /\ ring = log[Person(c)].ring /\ last = client[c].id
    OBVIOUS
  <2>0. wrote = Handed(ring, last) /\ upTo = IF Missed(ring, last) = {} THEN 0 ELSE LastOf(ring)
    BY <1>2 DEF Handed
  <2>1. ring \in Seq(Frames) /\ Person(c) \in Persons
    BY KeysOf, RingOf
  <2>2. /\ \A e \in wrote : \E k \in 1..Len(ring) : ring[k].event = e
        /\ wrote # {} => upTo = LastOf(ring)
    BY <2>0, <2>1, MissedFacts
  <2>5. \A k \in 1..Len(ring) : /\ ring[k].id <= LastOf(ring) /\ ring[k].event \in 1..events
                                /\ \A j \in Jobs : Active(j) /\ job[j].event = ring[k].event => Stamps(j, Person(c), ring[k])
    BY <2>1, RingNumbers DEF FrameInv, RingOK
  <2>6. ASSUME NEW e \in wrote PROVE e \in 1..events
    BY <2>2, <2>5
  <2>7. ASSUME NEW i \in 1..Len(queue), queue[i].event \in wrote PROVE queue[i].id <= upTo
    <3>1. PICK k \in 1..Len(ring) : ring[k].event = queue[i].event
      BY <2>2, <2>7
    <3>2. ring[k] = queue[i]
      BY <1>0, <3>1 DEF FrameInv, QueueOK
    <3> QED
      BY <2>2, <2>5, <2>7, <3>2
  <2>8. ASSUME NEW j \in Jobs, Active(j), job[j].event \in wrote
        PROVE  Person(c) \in DOMAIN job[j].stamped /\ job[j].stamped[Person(c)].id <= upTo
    <3>1. PICK k \in 1..Len(ring) : ring[k].event = job[j].event
      BY <2>2, <2>8
    <3> QED
      BY <2>2, <2>5, <2>8, <3>1 DEF Stamps
  <2>9. WroteOK(c)'
    BY <1>0, <2>3, <2>6, <2>7, <2>8 DEF WroteOK, Active, Person
  <2> QED
    BY <1>0, <1>2, <2>4, <2>9, ClientFrames
<1> QED
  BY <1>1, <1>2, ResumeFacts

LEMMA ReadFrames ==
    ASSUME TypeInv, FrameInv, NEW c \in Clients, Read(c)
    PROVE  FrameInv'
<1>0. /\ conn[c].pc # "off" /\ conn[c].queue # <<>> /\ job' = job /\ events' = events /\ log' = log
      /\ conn[c] \in Sessions
  BY SessionOf DEF Read, record, bounds
<1> PICK old, f, ring : old = conn[c].queue /\ f = Head(conn[c].queue) /\ ring = log[Person(c)].ring
  OBVIOUS
<1>1. PICK wrote \in SUBSET Nat :
                /\ conn' = [conn EXCEPT ![c] = Took(conn[c], wrote)]
                /\ \/ wrote = conn[c].wrote \cup {f.event}
                   \/ wrote = conn[c].wrote
  BY ReadFacts
<1> PICK queue : queue = Tail(old)
  OBVIOUS
<1>2. /\ old \in Seq(Frames) /\ Len(old) # 0 /\ Len(old) \in Nat /\ f = old[1] /\ Len(queue) = Len(old) - 1
      /\ \A i \in 1..Len(queue) : i + 1 \in 2..Len(old) /\ queue[i] = old[i + 1]
  BY <1>0, QueueOf
<1>3. conn'[c].queue = queue /\ conn'[c].wrote = wrote /\ conn'[c].upTo = conn[c].upTo
  <2>1. LET v == Took(conn[c], wrote)
        IN v.queue = Tail(conn[c].queue) /\ v.wrote = wrote /\ v.upTo = conn[c].upTo
    BY <1>0, TookRecord
  <2>2. conn'[c] = Took(conn[c], wrote)
    BY <1>1, ConnStep
  <2> QED
    BY <2>1, <2>2
<1>4. ASSUME NEW i \in 1..Len(old)
      PROVE  /\ old[i].event \in 1..events
             /\ \A k \in 1..Len(old) : old[k].event = old[i].event => k = i
             /\ \A k \in 1..Len(ring) : ring[k].event = old[i].event => ring[k] = old[i]
             /\ \A j \in Jobs : Active(j) /\ job[j].event = old[i].event =>
                  Stamps(j, Person(c), old[i]) /\ Passed(j, c)
             /\ old[i].event \in conn[c].wrote => old[i].id <= conn[c].upTo
  BY <1>0 DEF FrameInv, QueueOK, WroteOK
<1>5. ASSUME NEW i \in 1..Len(queue)
      PROVE  /\ queue[i].event \in 1..events
             /\ \A k \in 1..Len(queue) : queue[k].event = queue[i].event => k = i
             /\ \A k \in 1..Len(ring) : ring[k].event = queue[i].event => ring[k] = queue[i]
             /\ \A j \in Jobs : Active(j) /\ job[j].event = queue[i].event =>
                  Stamps(j, Person(c), queue[i]) /\ Passed(j, c)
             /\ queue[i].event \in conn[c].wrote => queue[i].id <= conn[c].upTo
             /\ queue[i].event # f.event
  <2>1. i + 1 \in 1..Len(old) /\ 1 \in 1..Len(old) /\ queue[i] = old[i + 1] /\ i + 1 # 1
    BY <1>2
  <2>2. \A k \in 1..Len(queue) : k + 1 \in 1..Len(old) /\ queue[k] = old[k + 1] /\ (k + 1 = i + 1 => k = i)
    BY <1>2
  <2>3. \A k \in 1..Len(queue) : queue[k].event = queue[i].event => k = i
    BY <1>4, <2>1, <2>2
  <2>4. queue[i].event # f.event
    BY <1>2, <1>4, <2>1
  <2>5. \A k \in 1..Len(ring) : ring[k].event = queue[i].event => ring[k] = queue[i]
    BY <1>4, <2>1
  <2>6. \A j \in Jobs : Active(j) /\ job[j].event = queue[i].event => Stamps(j, Person(c), queue[i]) /\ Passed(j, c)
    BY <1>4, <2>1
  <2>7. queue[i].event \in 1..events /\ (queue[i].event \in conn[c].wrote => queue[i].id <= conn[c].upTo)
    BY <1>4, <2>1
  <2> QED
    BY ONLY <2>3, <2>4, <2>5, <2>6, <2>7
<1>6. f.event \in 1..events /\ \A j \in Jobs : Active(j) /\ job[j].event = f.event => Passed(j, c)
  <2>1. 1 \in 1..Len(old)
    BY <1>2
  <2> QED
    BY <1>2, <1>4, <2>1
<1>7. QueueOK(c)'
  <2>1. ASSUME NEW i \in 1..Len(queue), NEW j \in Jobs, Active(j)', job'[j].event = queue[i].event
        PROVE  Stamps(j, Person(c), queue[i])' /\ Passed(j, c)'
    <3>1. Stamps(j, Person(c), queue[i]) /\ Passed(j, c)
      BY <1>0, <1>5, <2>1 DEF Active
    <3> QED
      BY <1>0, <3>1 DEF Stamps, Passed, Pending, Person
  <2>2. log'[Person(c)].ring = ring
    BY <1>0
  <2> QED
    BY <1>0, <1>3, <1>5, <2>1, <2>2 DEF QueueOK, Person
<1>8. WroteOK(c)'
  <2>1. \A i \in 1..Len(queue) : queue[i].event \in wrote => queue[i].id <= conn[c].upTo
    BY <1>1, <1>5
  <2>2. \A e \in wrote : e \in 1..events
    BY <1>0, <1>1, <1>6 DEF FrameInv, WroteOK
  <2>3. \A j \in Jobs : Active(j) /\ job[j].event \in wrote =>
          \/ Passed(j, c)
          \/ Person(c) \in DOMAIN job[j].stamped /\ job[j].stamped[Person(c)].id <= conn[c].upTo
    BY <1>0, <1>1, <1>6 DEF FrameInv, WroteOK
  <2> QED
    BY <1>0, <1>3, <2>1, <2>2, <2>3 DEF WroteOK, Active, Passed, Pending, Person
<1>9. RingsStay
  BY <1>0 DEF RingsStay
<1> QED
  BY <1>0, <1>1, <1>7, <1>8, <1>9, ClientFrames

\* What a ring has after one frame more.
Numbered(ring) == \A i \in 1..Len(ring) : ring[i].id = ring[1].id + i - 1

LEMMA ShiftedOK ==
    ASSUME NEW old \in Seq(Frames), Numbered(old),
           NEW f \in Frames, f.id = LastOf(old) + 1, NEW new, NEW s, Shifted(old, new, f, s)
    PROVE  /\ Len(new) \in Nat /\ Len(new) # 0 /\ new # <<>> /\ LastOf(new) = f.id
           /\ Numbered(new) /\ \A i \in 1..Len(new) : new[i] = f \/ \E k \in 1..Len(old) : new[i] = old[k]
           /\ \E i \in 1..Len(new) : new[i] = f
           /\ \A k \in 1..Len(old) : new[1].id <= old[k].id => \E i \in 1..Len(new) : new[i] = old[k]
           /\ old # <<>> => old[1].id <= new[1].id
<1> PICK n \in Nat : n = Len(old)
  OBVIOUS
<1>1. s \in {0, 1} /\ (s = 1 => n # 0) /\ new # <<>> /\ Len(new) = n + 1 - s
  BY DEF Shifted
<1>0. n + 1 - s \in Nat
  BY ONLY <1>1, n \in Nat
<1> PICK m \in Nat : m = Len(new) /\ m = n + 1 - s
  BY ONLY <1>0, <1>1
<1>2. \A i \in 1..m : new[i] = IF i + s = n + 1 THEN f ELSE old[i + s]
  BY DEF Shifted
<1>3. m # 0 /\ m \in 1..m /\ 1 \in 1..m /\ m + s = n + 1
  BY <1>1
<1>4. new[m] = f /\ LastOf(new) = f.id
  BY <1>1, <1>2, <1>3 DEF LastOf
<1>5. ASSUME n # 0 PROVE old[1].id \in Nat /\ f.id = old[1].id + n
  <2>1. 1 \in 1..n /\ n \in 1..n
    BY ONLY <1>5, n \in Nat
  <2>2. old # <<>>
    BY ONLY <1>5, n = Len(old)
  <2>3. LastOf(old) = old[n].id
    BY <2>2, LastOfOK
  <2>4. old[1] \in Frames /\ old[n].id = old[1].id + n - 1
    BY <2>1 DEF Numbered
  <2>5. old[1].id \in Nat
    BY <2>4 DEF Frames
  <2> QED
    BY ONLY <2>3, <2>4, <2>5, f.id = LastOf(old) + 1, n \in Nat
<1> PICK a : a = old[1].id
  OBVIOUS
<1>6. \A i \in 1..m : \/ i + s = n + 1 /\ new[i] = f
                      \/ i + s \in 1..n /\ new[i] = old[i + s]
  BY <1>1, <1>2
<1>7. ASSUME n # 0, NEW i \in 1..m PROVE new[i].id = a + s + i - 1
  <2>1. a \in Nat /\ f.id = a + n
    BY <1>5, <1>7
  <2>2. CASE i + s = n + 1 /\ new[i] = f
    BY ONLY <1>1, <2>1, <2>2, i \in 1..m, n \in Nat, m \in Nat
  <2>3. CASE i + s \in 1..n /\ new[i] = old[i + s]
    <3>1. new[i].id = a + (i + s) - 1
      BY <2>3 DEF Numbered
    <3> QED
      BY ONLY <1>1, <2>1, <3>1, i \in 1..m, n \in Nat, m \in Nat
  <2> QED
    BY <1>6, <2>2, <2>3
<1>8. ASSUME NEW i \in 1..m PROVE new[i].id = new[1].id + i - 1
  <2>1. CASE n = 0
    <3>1. i = 1 /\ i = m
      BY <1>1, <2>1
    <3>2. new[1].id \in Nat
      BY <1>4, <3>1 DEF Frames
    <3> QED
      BY <3>1, <3>2
  <2>2. CASE n # 0
    <3>1. new[i].id = a + s + i - 1 /\ new[1].id = a + s + 1 - 1 /\ a \in Nat
      BY <1>3, <1>5, <1>7, <2>2
    <3> QED
      BY ONLY <1>1, <3>1, i \in 1..m, n \in Nat, m \in Nat
  <2> QED
    BY <2>1, <2>2
<1>9. ASSUME NEW k \in 1..n, new[1].id <= old[k].id PROVE \E i \in 1..m : new[i] = old[k]
  <2>1. n # 0 /\ a \in Nat /\ new[1].id = a + s + 1 - 1 /\ old[k].id = a + k - 1
    BY <1>3, <1>5, <1>7 DEF Numbered
  <2>2. k - s \in 1..m /\ k - s + s # n + 1 /\ k - s + s = k
    BY ONLY <1>1, <1>9, <2>1, k \in 1..n, n \in Nat, m \in Nat, m = n + 1 - s
  <2>3. new[k - s] = old[k]
    BY <1>2, <2>2
  <2> QED
    BY <2>2, <2>3
<1>10. ASSUME old # <<>> PROVE old[1].id <= new[1].id
  <2>1. n # 0
    BY <1>10
  <2>2. a \in Nat /\ new[1].id = a + s + 1 - 1
    BY <1>3, <1>5, <1>7, <2>1
  <2> QED
    BY ONLY <1>1, <2>2, a = old[1].id, n \in Nat
<1>11. Numbered(new) /\ \A i \in 1..m : new[i] = f \/ \E k \in 1..n : new[i] = old[k]
  BY <1>6, <1>8 DEF Numbered
<1> QED
  BY <1>1, <1>3, <1>4, <1>9, <1>10, <1>11

\* What becomes of a publisher: it goes on with the event and the frames it has,
\* and has no more to push to; or it has a new event.
Follows(i) ==
  Active(i)' =>
    \/ /\ Active(i) /\ job'[i].event = job[i].event /\ Pending(i)' \subseteq Pending(i)
       /\ \A p \in DOMAIN job[i].stamped : p \in DOMAIN job'[i].stamped /\ job'[i].stamped[p] = job[i].stamped[p]
    \/ job'[i].event = events + 1

\* A ring has old frames, and new ones of the event e.
Renews(p, e) ==
  \A k \in 1..Len(log'[p].ring) :
    \/ \E m \in 1..Len(log[p].ring) : log'[p].ring[k] = log[p].ring[m]
    \/ log'[p].ring[k].event = e

LEMMA RingFollows ==
    ASSUME FrameInv, NEW p \in Persons, log'[p].ring = log[p].ring, events' \in {events, events + 1}, events \in Nat,
           \A i \in Jobs : Follows(i)
    PROVE  RingOK(p)'
<1> PICK ring : ring = log[p].ring
  OBVIOUS
<1>1. ASSUME NEW i \in 1..Len(ring)
      PROVE  /\ ring[i].id = ring[1].id + i - 1 /\ ring[i].event \in 1..events
             /\ \A j \in Jobs : Active(j) /\ job[j].event = ring[i].event => Stamps(j, p, ring[i])
  BY DEF FrameInv, RingOK
<1>2. ASSUME NEW i \in 1..Len(ring), NEW j \in Jobs, Active(j)', job'[j].event = ring[i].event
      PROVE  Stamps(j, p, ring[i])'
  <2>1. ring[i].event # events + 1
    BY <1>1
  <2> QED
    BY <1>1, <1>2, <2>1 DEF Follows, Stamps
<1>3. \A i \in 1..Len(ring) : ring[i].event \in 1..events'
  BY <1>1
<1> QED
  BY <1>1, <1>2, <1>3 DEF RingOK

LEMMA QueuedFollows ==
    ASSUME TypeInv, FrameInv, NEW c \in Clients, conn[c].pc # "off", events' \in {events, events + 1},
           \A i \in Jobs : Follows(i), NEW e, Renews(Person(c), e),
           NEW x \in 1..Len(conn[c].queue), NEW f, f = conn[c].queue[x], f.event # e
    PROVE  /\ f.event \in 1..events'
           /\ \A k \in 1..Len(log'[Person(c)].ring) :
                log'[Person(c)].ring[k].event = f.event => log'[Person(c)].ring[k] = f
           /\ \A j \in Jobs : Active(j)' /\ job'[j].event = f.event => Stamps(j, Person(c), f)' /\ Passed(j, c)'
<1> PICK ring, new : ring = log[Person(c)].ring /\ new = log'[Person(c)].ring
  OBVIOUS
<1>1. /\ f.event \in 1..events
      /\ \A k \in 1..Len(ring) : ring[k].event = f.event => ring[k] = f
      /\ \A j \in Jobs : Active(j) /\ job[j].event = f.event => Stamps(j, Person(c), f) /\ Passed(j, c)
  BY DEF FrameInv, QueueOK
<1>2. f.event # events + 1 /\ f.event \in 1..events'
  BY <1>1 DEF TypeInv
<1>3. ASSUME NEW k \in 1..Len(new), new[k].event = f.event PROVE new[k] = f
  BY <1>1, <1>3 DEF Renews
<1>4. ASSUME NEW j \in Jobs, Active(j)', job'[j].event = f.event PROVE Stamps(j, Person(c), f)' /\ Passed(j, c)'
  <2>1. Active(j) /\ job[j].event = f.event /\ Pending(j)' \subseteq Pending(j)
    BY <1>2, <1>4 DEF Follows
  <2>2. Stamps(j, Person(c), f) /\ Passed(j, c)
    BY <1>1, <2>1
  <2>3. Passed(j, c)'
    BY <2>1, <2>2 DEF Passed, Person
  <2>4. Stamps(j, Person(c), f)'
    BY <1>2, <1>4, <2>2 DEF Follows, Stamps, Person
  <2> QED
    BY <2>3, <2>4
<1> QED
  BY <1>2, <1>3, <1>4

LEMMA WroteFollows ==
    ASSUME TypeInv, FrameInv, NEW c \in Clients, conn[c].pc # "off", events' \in {events, events + 1},
           \A i \in Jobs : Follows(i)
    PROVE  /\ \A e \in conn[c].wrote : e \in 1..events'
           /\ \A j \in Jobs : Active(j)' /\ job'[j].event \in conn[c].wrote =>
                \/ Passed(j, c)'
                \/ /\ Person(c) \in DOMAIN job'[j].stamped
                   /\ job'[j].stamped[Person(c)].id <= conn[c].upTo
<1>1. \A e \in conn[c].wrote : e \in 1..events
  BY DEF FrameInv, WroteOK
<1>2. \A e \in conn[c].wrote : e \in 1..events' /\ e # events + 1
  BY <1>1 DEF TypeInv
<1>3. ASSUME NEW j \in Jobs, Active(j)', job'[j].event \in conn[c].wrote
      PROVE  \/ Passed(j, c)'
             \/ /\ Person(c) \in DOMAIN job'[j].stamped
                /\ job'[j].stamped[Person(c)].id <= conn[c].upTo
  <2>1. Active(j) /\ job'[j].event = job[j].event /\ Pending(j)' \subseteq Pending(j)
    BY <1>2, <1>3 DEF Follows
  <2>2. \A p \in DOMAIN job[j].stamped : p \in DOMAIN job'[j].stamped /\ job'[j].stamped[p] = job[j].stamped[p]
    BY <1>2, <1>3 DEF Follows
  <2>3. \/ Passed(j, c)
        \/ Person(c) \in DOMAIN job[j].stamped /\ job[j].stamped[Person(c)].id <= conn[c].upTo
    BY <1>3, <2>1 DEF FrameInv, WroteOK
  <2>4. Passed(j, c) => Passed(j, c)'
    BY <2>1 DEF Passed, Person
  <2> QED
    BY <2>2, <2>3, <2>4
<1> QED
  BY <1>2, <1>3

\* A session that the step does not queue anything for.
LEMMA SessionFollows ==
    ASSUME TypeInv, FrameInv, NEW c \in Clients, events' \in {events, events + 1}, \A i \in Jobs : Follows(i),
           NEW e, Renews(Person(c), e),
           conn[c].pc # "off" => \A x \in 1..Len(conn[c].queue) : conn[c].queue[x].event # e,
           conn'[c].pc = conn[c].pc,
           conn[c].pc # "off" => /\ conn'[c].queue = conn[c].queue /\ conn'[c].wrote = conn[c].wrote
                                 /\ conn'[c].upTo = conn[c].upTo
    PROVE  QueueOK(c)' /\ WroteOK(c)'
<1>1. CASE conn[c].pc = "off"
  BY <1>1 DEF QueueOK, WroteOK
<1>2. CASE conn[c].pc # "off"
  <2> PICK queue : queue = conn[c].queue
    OBVIOUS
  <2>1. ASSUME NEW x \in 1..Len(queue)
        PROVE  /\ queue[x].event \in 1..events'
               /\ \A k \in 1..Len(log'[Person(c)].ring) :
                    log'[Person(c)].ring[k].event = queue[x].event => log'[Person(c)].ring[k] = queue[x]
               /\ \A j \in Jobs : Active(j)' /\ job'[j].event = queue[x].event =>
                                    Stamps(j, Person(c), queue[x])' /\ Passed(j, c)'
    BY <1>2, QueuedFollows
  <2>2. /\ \A x \in 1..Len(queue) : \A k \in 1..Len(queue) : queue[k].event = queue[x].event => k = x
        /\ \A x \in 1..Len(queue) : queue[x].event \in conn[c].wrote => queue[x].id <= conn[c].upTo
    BY <1>2 DEF FrameInv, QueueOK, WroteOK
  <2>3. QueueOK(c)'
    BY <1>2, <2>1, <2>2 DEF QueueOK, Person
  <2>4. WroteOK(c)'
    BY <1>2, <2>2, WroteFollows DEF WroteOK, Person
  <2> QED
    BY <2>3, <2>4
<1> QED
  BY <1>1, <1>2

\* A ring that records the frame which the event's publisher has.
LEMMA RingRecords ==
    ASSUME TypeInv, FrameInv, NEW p \in Persons, NEW f \in Frames, f.id = LastOf(log[p].ring) + 1,
           NEW s, Shifted(log[p].ring, log'[p].ring, f, s), events' \in {events, events + 1},
           f.event \in 1..events', \A i \in Jobs : Follows(i),
           \A i \in Jobs : Active(i)' /\ job'[i].event = f.event => Stamps(i, p, f)'
    PROVE  RingOK(p)' /\ Renews(p, f.event)
<1> PICK old, new : old = log[p].ring /\ new = log'[p].ring
  OBVIOUS
<1>1. /\ old \in Seq(Frames) /\ events \in Nat
      /\ \A k \in 1..Len(old) : /\ old[k].event \in 1..events
                                /\ \A i \in Jobs : Active(i) /\ job[i].event = old[k].event => Stamps(i, p, old[k])
  BY RingOf DEF FrameInv, RingOK, TypeInv
<1>0. Numbered(old)
  BY DEF FrameInv, RingOK, Numbered
<1>2. Numbered(new) /\ \A k \in 1..Len(new) : new[k] = f \/ \E m \in 1..Len(old) : new[k] = old[m]
  BY <1>0, <1>1, ShiftedOK
<1>3. ASSUME NEW m \in 1..Len(old), NEW i \in Jobs, Active(i)', job'[i].event = old[m].event PROVE Stamps(i, p, old[m])'
  <2>1. old[m].event # events + 1
    BY <1>1
  <2> QED
    BY <1>1, <1>3, <2>1 DEF Follows, Stamps
<1>4. \A m \in 1..Len(old) : old[m].event \in 1..events'
  BY <1>1
<1>5. ASSUME NEW k \in 1..Len(new)
      PROVE  /\ new[k].event \in 1..events'
             /\ \A i \in Jobs : Active(i)' /\ job'[i].event = new[k].event => Stamps(i, p, new[k])'
  <2>1. CASE new[k] = f
    BY <2>1 DEF Stamps
  <2>2. ASSUME NEW m \in 1..Len(old), new[k] = old[m]
        PROVE  /\ new[k].event \in 1..events'
               /\ \A i \in Jobs : Active(i)' /\ job'[i].event = new[k].event => Stamps(i, p, new[k])'
    BY <1>3, <1>4, <2>2 DEF Stamps
  <2> QED
    BY <1>2, <2>1, <2>2
<1>6. RingOK(p)'
  BY <1>2, <1>5 DEF RingOK, Numbered
<1>7. Renews(p, f.event)
  BY <1>2 DEF Renews
<1> QED
  BY <1>6, <1>7

LEMMA PublishFrames ==
    ASSUME TypeInv, FrameInv, NEW j \in Jobs, PublishToUser(j) \/ PublishToAccount(j) \/ PublishToAllSessions(j)
    PROVE  FrameInv'
<1>0. conn' = conn /\ events' = events + 1 /\ events \in Nat /\ ~ Active(j)
  BY DEF PublishToUser, PublishToAccount, PublishToAllSessions, Publish, Starts, Active, TypeInv
<1>1. PICK keys \in SUBSET Keys, S \in SUBSET Persons : \E stamped \in [S -> Frames] :
             /\ job' = [job EXCEPT ![j] = Fresh(keys, events + 1, stamped)]
             /\ keys \subseteq Accounts \/ \E p \in Persons : keys \subseteq {p}
             /\ \/ log' = log /\ issued' = issued /\ S = {}
                \/ \E p \in Persons : LET f == Frame(p, events + 1)
                                      IN /\ keys = {p} /\ S = {p} /\ stamped[p] = f
                                         /\ log' = Recorded(p, f)
                                         /\ issued' = issued \cup {[p |-> p, f |-> f]}
  BY PublishFacts
<1>2. PICK stamped \in [S -> Frames] :
             /\ job' = [job EXCEPT ![j] = Fresh(keys, events + 1, stamped)]
             /\ \/ log' = log /\ S = {}
                \/ \E p \in Persons : /\ S = {p} /\ stamped[p] = Frame(p, events + 1)
                                      /\ log' = Recorded(p, Frame(p, events + 1))
  BY <1>1
<1>3. /\ \A i \in Jobs \ {j} : job'[i] = job[i]
      /\ job'[j].event = events + 1 /\ job'[j].stamped = stamped /\ job'[j].pc = "find"
  BY <1>2 DEF TypeInv, Fresh
<1>4. \A i \in Jobs : Follows(i)
  BY <1>3 DEF Follows, Active, Pending
<1>5. \A q \in S : stamped[q].event = events + 1
  BY <1>0, <1>2, FrameOK
<1>6. EventsOK'
  <2>1. \A i \in Jobs \ {j} : Active(i)' =>
          /\ job'[i].event \in 1..events
          /\ \A p \in DOMAIN job'[i].stamped : job'[i].stamped[p].event = job'[i].event
    BY <1>3 DEF FrameInv, EventsOK, Active
  <2>2. \A i, k \in Jobs \ {j} : Active(i)' /\ Active(k)' /\ job'[i].event = job'[k].event => i = k
    BY <1>3 DEF FrameInv, EventsOK, Active
  <2>3. \A i \in Jobs \ {j} : Active(i)' => job'[i].event \in 1..events' /\ job'[i].event # events + 1
    BY <1>0, <2>1
  <2>4. job'[j].event \in 1..events' /\ \A p \in DOMAIN job'[j].stamped : job'[j].stamped[p].event = job'[j].event
    BY <1>0, <1>3, <1>5
  <2> QED
    BY <1>3, <2>1, <2>2, <2>3, <2>4 DEF EventsOK
<1>7. ASSUME NEW q \in Persons PROVE RingOK(q)' /\ Renews(q, events + 1)
  <2>1. CASE log'[q].ring = log[q].ring
    BY <1>0, <1>4, <2>1, RingFollows DEF Renews
  <2>2. CASE log'[q].ring # log[q].ring
    <3>1. S = {q} /\ stamped[q] = Frame(q, events + 1) /\ log' = Recorded(q, Frame(q, events + 1))
      <4>1. PICK p \in Persons : /\ S = {p} /\ stamped[p] = Frame(p, events + 1)
                                 /\ log' = Recorded(p, Frame(p, events + 1))
        BY <1>2, <2>2
      <4>2. q # p => log'[q] = log[q]
        BY <1>0, <4>1, FrameOK, RecordedOK
      <4> QED
        BY <2>2, <4>1, <4>2
    <3> PICK f \in Frames : f = Frame(q, events + 1)
      BY <1>0, FrameOK
    <3>2. f.event = events + 1 /\ f.id = LastOf(log[q].ring) + 1 /\ f.event \in 1..events'
      BY <1>0, FrameOK
    <3>3. PICK s \in {0, 1} : Shifted(log[q].ring, log'[q].ring, f, s)
      BY <3>1, RecordedOK
    <3>4. ASSUME NEW i \in Jobs, Active(i)', job'[i].event = f.event PROVE Stamps(i, q, f)'
      <4>1. i = j
        <5>1. Active(j)' /\ job'[j].event = f.event
          BY <1>3, <3>2 DEF Active
        <5> QED
          BY <1>6, <3>4, <5>1 DEF EventsOK
      <4> QED
        BY <1>3, <3>1, <4>1 DEF Stamps
    <3> QED
      BY <1>0, <1>4, <3>2, <3>3, <3>4, RingRecords
  <2> QED
    BY <2>1, <2>2
<1>8. ASSUME NEW c \in Clients PROVE QueueOK(c)' /\ WroteOK(c)'
  <2>1. conn[c].pc # "off" => \A x \in 1..Len(conn[c].queue) : conn[c].queue[x].event # events + 1
    BY <1>0 DEF FrameInv, QueueOK
  <2> QED
    BY <1>0, <1>4, <1>7, <2>1, KeysOf, SessionFollows
<1> QED
  BY <1>6, <1>7, <1>8 DEF FrameInv

LEMMA VisitFrames ==
    ASSUME TypeInv, FrameInv, NEW j \in Jobs, Visit(j)
    PROVE  FrameInv'
<1>0. conn' = conn /\ log' = log /\ events' = events /\ events \in Nat /\ job[j].pc = "find"
  BY DEF Visit, record, bounds, TypeInv
<1>1. PICK k \in job[j].todo :
             /\ k \in Keys
             /\ \/ registry[k] \in 1..MaxBuckets /\ job' = [job EXCEPT ![j] = Pushing(job[j], k, registry[k])]
                \/ registry[k] = None /\ job[j].todo = {k} /\ job' = [job EXCEPT ![j] = Idle]
                \/ registry[k] = None /\ job' = [job EXCEPT ![j] = Skipping(job[j], k)]
  BY VisitFacts
<1>2. job[j] \in Publishes /\ registry[k] \in Address
  BY <1>0, <1>1, JobOf DEF TypeInv
<1>3. \/ job'[j] = Idle
      \/ /\ job'[j].event = job[j].event /\ job'[j].stamped = job[j].stamped
         /\ \/ job'[j].pc = "push" /\ job'[j].key = k /\ job'[j].todo = job[j].todo \ {k}
            \/ job'[j].pc = "find" /\ job'[j].todo = job[j].todo \ {k}
  <2>1. job'[j] = Pushing(job[j], k, registry[k]) \/ job'[j] = Idle \/ job'[j] = Skipping(job[j], k)
    BY <1>1 DEF TypeInv
  <2> QED
    BY <1>0, <1>1, <1>2, <2>1, PushingRecord, SkippingRecord
<1>4. \A i \in Jobs \ {j} : job'[i] = job[i]
  BY <1>1 DEF TypeInv
<1>5. Active(j) /\ (Active(j)' => Pending(j)' \subseteq Pending(j))
  BY <1>0, <1>1, <1>3 DEF Active, Pending, Idle
<1>6. ASSUME NEW i \in Jobs PROVE Follows(i)
  BY <1>3, <1>4, <1>5 DEF Follows, Active, Pending, Idle
<1>7. EventsOK'
  <2>1. \A i \in Jobs : Active(i)' => Active(i) /\ job'[i].event = job[i].event /\ job'[i].stamped = job[i].stamped
    BY <1>3, <1>4, <1>5 DEF Active, Idle
  <2> QED
    BY <1>0, <2>1 DEF FrameInv, EventsOK
<1>8. ASSUME NEW c \in Clients PROVE QueueOK(c)' /\ WroteOK(c)'
  <2>1. conn[c].pc # "off" => \A x \in 1..Len(conn[c].queue) : conn[c].queue[x].event # events + 1
    BY <1>0 DEF FrameInv, QueueOK
  <2>2. Renews(Person(c), events + 1)
    BY <1>0 DEF Renews
  <2> QED
    BY <1>0, <1>6, <2>1, <2>2, SessionFollows
<1>9. \A p \in Persons : RingOK(p)'
  BY <1>0, <1>6, RingFollows
<1> QED
  BY <1>7, <1>8, <1>9 DEF FrameInv

\* Who is in the bucket that a publisher has come to, and what that makes of the
\* publisher's stamps and turns.
LEMMA Pushed ==
    ASSUME TypeInv, PipeInv, NEW j \in Jobs, job[j].pc = "push", NEW c \in buckets[job[j].bucket].members
    PROVE  /\ c \in Clients /\ Owner(job[j].key) = Person(c) /\ ~ Passed(j, c)
           /\ AccountOf[c] \notin job[j].todo /\ Person(c) \notin job[j].todo
<1>1. /\ job[j].key \in Keys \ job[j].todo /\ job[j].bucket \in 1..MaxBuckets
      /\ Pending(j) \subseteq Accounts \/ \E p \in Persons : Pending(j) \subseteq {p}
  BY JobOf
<1>2. Pending(j) = job[j].todo \cup {job[j].key}
  BY DEF Pending
<1>3. Refers(job[j].key, job[j].bucket)
  BY DEF Refers
<1>4. /\ c \in Clients
      /\ job[j].key \in Persons => Person(c) = job[j].key
      /\ job[j].key \in Accounts => AccountOf[c] = job[j].key
  BY <1>1, <1>3, MembersOK
<1>5. /\ AccountOf[c] \in Accounts /\ AccountOf[c] \notin Persons
      /\ Person(c) \in Persons /\ Person(c) \notin Accounts
  BY <1>4, KeysOf
<1>6. CASE job[j].key \in Accounts
  <2>1. Owner(job[j].key) = Person(c) /\ AccountOf[c] = job[j].key
    BY <1>4, <1>6 DEF Owner, Person
  <2>2. Pending(j) \subseteq Accounts
    BY <1>1, <1>2, <1>4, <1>5, <1>6
  <2> QED
    BY <1>1, <1>2, <1>4, <1>5, <2>1, <2>2 DEF Passed
<1>7. CASE job[j].key \in Persons
  <2>1. Owner(job[j].key) = Person(c) /\ Person(c) = job[j].key
    BY <1>4, <1>5, <1>7 DEF Owner
  <2>2. Pending(j) \subseteq {job[j].key}
    BY <1>1, <1>2, <1>5, <2>1
  <2> QED
    BY <1>1, <1>2, <1>4, <1>5, <2>1, <2>2 DEF Passed
<1> QED
  BY <1>1, <1>6, <1>7 DEF Keys

\* The publisher after a push has the event and the frames that it had.
LEMMA PushFollows ==
    ASSUME TypeInv, FrameInv, NEW j \in Jobs, Push(j), NEW p, p = Owner(job[j].key), NEW f, f = Stamped(j, p)
    PROVE  /\ \A i \in Jobs : Follows(i)
           /\ EventsOK'
           /\ Active(j) /\ job[j].event \in 1..events /\ f.event = job[j].event
           /\ Active(j)' => /\ job'[j].event = job[j].event /\ Pending(j)' = job[j].todo
                            /\ buckets[job[j].bucket].members # {} => Stamps(j, p, f)'
<1> PICK to : to = buckets[job[j].bucket].members
  OBVIOUS
<1>0. job[j].pc = "push" /\ events' = events /\ Active(j)
  BY DEF Push, bounds, Active
<1>1. /\ \A i \in Jobs : i # j => job'[i] = job[i]
      /\ \/ job'[j] = Idle
         \/ /\ job'[j].pc = "find" /\ job'[j].todo = job[j].todo /\ job'[j].event = job[j].event
            /\ \/ to = {} /\ job'[j].stamped = job[j].stamped
               \/ to # {} /\ job'[j].stamped = Stamping(j, p, f)
  BY PushJob
<1>2. p \in Persons /\ f \in Frames /\ (p \in DOMAIN job[j].stamped => f = job[j].stamped[p])
  BY <1>0, JobOf, OwnerKey, StampedOK
<1>3. job[j].event \in 1..events /\ f.event = job[j].event
  <2>1. job[j].event \in 1..events /\ \A q \in DOMAIN job[j].stamped : job[j].stamped[q].event = job[j].event
    BY <1>0 DEF FrameInv, EventsOK
  <2>2. job[j].event \in Nat
    BY <1>0, JobOf DEF Publishes
  <2> QED
    BY <1>0, <1>2, <2>1, <2>2, StampedOK, FrameOK
<1>4. DOMAIN Stamping(j, p, f) = DOMAIN job[j].stamped \cup {p}
  BY DEF Stamping
<1>5. /\ Stamping(j, p, f)[p] = f
      /\ \A q \in DOMAIN job[j].stamped : Stamping(j, p, f)[q] = job[j].stamped[q]
  BY <1>2 DEF Stamping
<1>6. Active(j)' => /\ job'[j].pc = "find" /\ job'[j].todo = job[j].todo /\ job'[j].event = job[j].event
                    /\ \/ to = {} /\ job'[j].stamped = job[j].stamped
                       \/ to # {} /\ job'[j].stamped = Stamping(j, p, f)
  BY <1>1 DEF Active, Idle
<1>7. ASSUME NEW i \in Jobs PROVE Follows(i)
  <2>1. CASE i = j
    BY <1>0, <1>4, <1>5, <1>6, <2>1 DEF Follows, Pending
  <2>2. CASE i # j
    BY <1>1, <2>2 DEF Follows, Active, Pending
  <2> QED
    BY <2>1, <2>2
<1>8. EventsOK'
  <2>1. \A i \in Jobs : Active(i)' => Active(i) /\ job'[i].event = job[i].event
    BY <1>0, <1>1, <1>6 DEF Active
  <2>2. ASSUME NEW i \in Jobs, Active(i)', NEW q \in DOMAIN job'[i].stamped
        PROVE  job'[i].stamped[q].event = job'[i].event
    <3>1. \A r \in DOMAIN job[i].stamped : job[i].stamped[r].event = job[i].event
      BY <2>1, <2>2 DEF FrameInv, EventsOK
    <3>2. CASE i # j
      BY <1>1, <2>2, <3>1, <3>2
    <3>3. CASE i = j
      BY <1>3, <1>4, <1>5, <1>6, <2>2, <3>1, <3>3
    <3> QED
      BY <3>2, <3>3
  <2> QED
    BY <1>0, <2>1, <2>2 DEF FrameInv, EventsOK
<1>9. Active(j)' /\ to # {} => p \in DOMAIN job'[j].stamped /\ job'[j].stamped[p] = f
  BY <1>4, <1>5, <1>6
<1>10. Active(j)' => Pending(j)' = job[j].todo
  BY <1>6 DEF Pending
<1> QED
  BY <1>0, <1>3, <1>6, <1>7, <1>8, <1>9, <1>10 DEF Stamps

\* The rings after a push.
LEMMA PushRings ==
    ASSUME TypeInv, FrameInv, NEW j \in Jobs, Push(j), NEW q \in Persons
    PROVE  /\ RingOK(q)'
           /\ \/ log'[q].ring = log[q].ring
              \/ /\ q = Owner(job[j].key) /\ q \notin DOMAIN job[j].stamped
                 /\ Renews(q, job[j].event)
                 /\ \E s \in {0, 1} : Shifted(log[q].ring, log'[q].ring, Stamped(j, q), s)
<1> PICK p \in Persons, f \in Frames :
         /\ p = Owner(job[j].key) /\ f = Stamped(j, p)
         /\ \/ log' = log
            \/ buckets[job[j].bucket].members # {} /\ p \notin DOMAIN job[j].stamped /\ log' = Recorded(p, f)
  BY PushFacts
<1>1. /\ \A i \in Jobs : Follows(i)
      /\ EventsOK' /\ Active(j) /\ job[j].event \in 1..events /\ f.event = job[j].event
      /\ Active(j)' => /\ job'[j].event = job[j].event
                       /\ buckets[job[j].bucket].members # {} => Stamps(j, p, f)'
  BY PushFollows
<1>2. events' = events /\ events \in Nat
  BY DEF Push, bounds, TypeInv
<1>3. CASE log'[q].ring = log[q].ring
  BY <1>1, <1>2, <1>3, RingFollows
<1>4. CASE log'[q].ring # log[q].ring
  <2>1. log' = Recorded(p, f) /\ p \notin DOMAIN job[j].stamped /\ buckets[job[j].bucket].members # {}
    BY <1>4
  <2>2. q = p
    BY <1>4, <2>1, RecordedOK
  <2>3. PICK s \in {0, 1} : Shifted(log[q].ring, log'[q].ring, f, s)
    BY <2>1, <2>2, RecordedOK
  <2>4. f.id = LastOf(log[q].ring) + 1
    <3>1. f = Frame(p, job[j].event)
      BY <1>1, <2>1, StampedOK DEF Active
    <3> QED
      BY <1>1, <2>2, <3>1, FrameOK
  <2>5. ASSUME NEW i \in Jobs, Active(i)', job'[i].event = f.event PROVE Stamps(i, q, f)'
    <3>1. Active(i) /\ job[i].event = job'[i].event
      BY <1>1, <1>2, <2>5 DEF Follows
    <3>2. i = j
      BY <1>1, <2>5, <3>1 DEF FrameInv, EventsOK
    <3> QED
      BY <1>1, <2>1, <2>2, <2>5, <3>2
  <2>6. RingOK(q)' /\ Renews(q, f.event)
    BY <1>1, <1>2, <2>3, <2>4, <2>5, RingRecords
  <2> QED
    BY <1>1, <2>1, <2>2, <2>3, <2>6
<1> QED
  BY <1>3, <1>4

\* A session that a push queues the frame for.
LEMMA QueuedFrames ==
    ASSUME TypeInv, PipeInv, FrameInv, NEW j \in Jobs, Push(j), NEW c \in buckets[job[j].bucket].members,
           conn[c].pc # "off", NEW f \in Frames, f = Stamped(j, Person(c)), conn'[c] = Queued(conn[c], f)
    PROVE  QueueOK(c)' /\ WroteOK(c)'
<1>0. /\ c \in Clients /\ job[j].pc = "push" /\ Owner(job[j].key) = Person(c) /\ ~ Passed(j, c)
      /\ AccountOf[c] \notin job[j].todo /\ Person(c) \notin job[j].todo
      /\ events' = events /\ events \in Nat
  BY Pushed DEF Push, bounds, TypeInv
<1> PICK P \in Persons : P = Person(c)
  BY <1>0, KeysOf
<1>1. /\ \A i \in Jobs : Follows(i)
      /\ EventsOK' /\ Active(j) /\ job[j].event \in 1..events /\ f.event = job[j].event
      /\ Active(j)' => /\ job'[j].event = job[j].event /\ Pending(j)' = job[j].todo
                       /\ buckets[job[j].bucket].members # {} => Stamps(j, P, f)'
  BY <1>0, PushFollows
<1> PICK old, queue : old = conn[c].queue /\ queue = Append(old, f)
  OBVIOUS
<1>2. /\ old \in Seq(Frames) /\ Len(old) \in Nat /\ Len(queue) = Len(old) + 1
      /\ queue[Len(old) + 1] = f /\ \A x \in 1..Len(old) : queue[x] = old[x]
  BY <1>0, QueueOf
<1>3. conn'[c].pc = conn[c].pc /\ conn'[c].queue = queue /\ conn'[c].wrote = conn[c].wrote /\ conn'[c].upTo = conn[c].upTo
  <2>1. conn[c] \in Sessions
    BY <1>0, SessionOf
  <2>2. LET v == Queued(conn[c], f)
        IN v.pc = conn[c].pc /\ v.queue = Append(conn[c].queue, f) /\ v.wrote = conn[c].wrote /\ v.upTo = conn[c].upTo
    BY <2>1, QueuedRecord
  <2> QED
    BY <2>2
<1>4. \A x \in 1..Len(queue) : (x \in 1..Len(old) /\ queue[x] = old[x]) \/ (x = Len(old) + 1 /\ queue[x] = f)
  <2>1. ASSUME NEW m \in Nat, NEW x \in 1..(m + 1) PROVE x \in 1..m \/ x = m + 1
    OBVIOUS
  <2> QED
    BY ONLY <1>2, <2>1
\* Nothing of this event is queued yet: the publisher was still to come.
<1>5. \A x \in 1..Len(old) : old[x].event # f.event
  BY <1>0, <1>1 DEF FrameInv, QueueOK
<1>6. /\ RingOK(P)'
      /\ \/ log'[P].ring = log[P].ring
         \/ P \notin DOMAIN job[j].stamped /\ Renews(P, f.event) /\ \E s \in {0, 1} : Shifted(log[P].ring, log'[P].ring, f, s)
  BY <1>0, <1>1, PushRings
<1>7. Renews(P, f.event)
  BY <1>6 DEF Renews
<1>8. ASSUME NEW x \in 1..Len(old)
      PROVE  /\ old[x].event \in 1..events'
             /\ \A k \in 1..Len(log'[P].ring) : log'[P].ring[k].event = old[x].event => log'[P].ring[k] = old[x]
             /\ \A i \in Jobs : Active(i)' /\ job'[i].event = old[x].event => Stamps(i, P, old[x])' /\ Passed(i, c)'
             /\ old[x].event \in conn[c].wrote => old[x].id <= conn[c].upTo
             /\ \A k \in 1..Len(old) : old[k].event = old[x].event => k = x
  <2>1. /\ old[x].event \in 1..events'
        /\ \A k \in 1..Len(log'[P].ring) : log'[P].ring[k].event = old[x].event => log'[P].ring[k] = old[x]
        /\ \A i \in Jobs : Active(i)' /\ job'[i].event = old[x].event => Stamps(i, P, old[x])' /\ Passed(i, c)'
    <3> PICK g : g = old[x]
      OBVIOUS
    <3> PICK e : e = f.event
      OBVIOUS
    <3>1. Renews(Person(c), e) /\ g.event # e
      BY <1>5, <1>7
    <3>2. x \in 1..Len(conn[c].queue) /\ g = conn[c].queue[x] /\ c \in Clients
      BY <1>0
    <3>3. events' \in {events, events + 1} /\ \A i \in Jobs : Follows(i)
      BY <1>0, <1>1
    <3>4. /\ g.event \in 1..events'
          /\ \A k \in 1..Len(log'[Person(c)].ring) : log'[Person(c)].ring[k].event = g.event => log'[Person(c)].ring[k] = g
          /\ \A i \in Jobs : Active(i)' /\ job'[i].event = g.event => Stamps(i, Person(c), g)' /\ Passed(i, c)'
      BY ONLY TypeInv, FrameInv, conn[c].pc # "off", <3>1, <3>2, <3>3, QueuedFollows
    <3>5. \A i \in Jobs : Active(i)' /\ job'[i].event = old[x].event => Stamps(i, P, old[x])' /\ Passed(i, c)'
      BY <3>4
    <3> QED
      BY <3>4, <3>5
  <2>2. /\ old[x].event \in conn[c].wrote => old[x].id <= conn[c].upTo
        /\ \A k \in 1..Len(old) : old[k].event = old[x].event => k = x
    BY <1>0 DEF FrameInv, QueueOK, WroteOK
  <2> QED
    BY <2>1, <2>2
<1>9. /\ f.event \in 1..events'
      /\ \A k \in 1..Len(log'[P].ring) : log'[P].ring[k].event = f.event => log'[P].ring[k] = f
      /\ \A i \in Jobs : Active(i)' /\ job'[i].event = f.event => Stamps(i, P, f)' /\ Passed(i, c)'
      /\ f.event \in conn[c].wrote => f.id <= conn[c].upTo
  <2>1. ASSUME NEW i \in Jobs, Active(i)', job'[i].event = f.event PROVE Stamps(i, P, f)' /\ Passed(i, c)'
    <3>1. i = j
      <4>1. Active(i) /\ job[i].event = job'[i].event
        BY <1>0, <1>1, <2>1 DEF Follows
      <4> QED
        BY <1>1, <2>1, <4>1 DEF FrameInv, EventsOK
    <3>2. Stamps(j, P, f)' /\ Pending(j)' = job[j].todo
      BY <1>1, <2>1, <3>1
    <3>3. Passed(j, c)'
      BY <1>0, <3>2 DEF Passed, Person
    <3> QED
      BY <3>1, <3>2, <3>3
  <2>2. P \in DOMAIN job[j].stamped => f = job[j].stamped[P]
    BY <1>0, StampedOK
  <2>3. ASSUME NEW k \in 1..Len(log[P].ring), log[P].ring[k].event = f.event
        PROVE  P \in DOMAIN job[j].stamped /\ log[P].ring[k] = f
    BY <1>1, <2>2, <2>3 DEF FrameInv, RingOK, Stamps
  <2>4. ASSUME NEW k \in 1..Len(log'[P].ring), log'[P].ring[k].event = f.event PROVE log'[P].ring[k] = f
    <3>1. CASE log'[P].ring = log[P].ring
      BY <2>3, <2>4, <3>1
    <3>2. ASSUME P \notin DOMAIN job[j].stamped, NEW s \in {0, 1}, Shifted(log[P].ring, log'[P].ring, f, s)
          PROVE  log'[P].ring[k] = f
      <4>1. log[P].ring \in Seq(Frames) /\ Numbered(log[P].ring)
        BY RingOf DEF FrameInv, RingOK, Numbered
      <4>2. f.id = LastOf(log[P].ring) + 1
        <5>1. f = Frame(P, job[j].event)
          BY <1>0, <3>2, StampedOK
        <5> QED
          BY <1>1, <5>1, FrameOK
      <4>3. log'[P].ring[k] = f \/ \E m \in 1..Len(log[P].ring) : log'[P].ring[k] = log[P].ring[m]
        BY <3>2, <4>1, <4>2, ShiftedOK
      <4> QED
        BY <2>3, <2>4, <3>2, <4>3
    <3> QED
      BY <1>6, <3>1, <3>2
  <2>5. f.event \in conn[c].wrote => f.id <= conn[c].upTo
    BY <1>0, <1>1, <2>2 DEF FrameInv, WroteOK
  <2>6. f.event \in 1..events'
    BY <1>0, <1>1
  <2> QED
    BY <2>1, <2>4, <2>5, <2>6
<1>10. QueueOK(c)'
  <2> PICK ring : ring = log'[P].ring
    OBVIOUS
  <2>1. ASSUME NEW x \in 1..Len(queue)
        PROVE  /\ queue[x].event \in 1..events'
               /\ \A k \in 1..Len(queue) : queue[k].event = queue[x].event => k = x
               /\ \A k \in 1..Len(ring) : ring[k].event = queue[x].event => ring[k] = queue[x]
               /\ \A i \in Jobs : Active(i)' /\ job'[i].event = queue[x].event => Stamps(i, P, queue[x])' /\ Passed(i, c)'
    <3>1. CASE x \in 1..Len(old) /\ queue[x] = old[x]
      BY <1>4, <1>5, <1>8, <3>1
    <3>2. CASE x = Len(old) + 1 /\ queue[x] = f
      BY <1>4, <1>5, <1>9, <3>2
    <3> QED
      BY <1>4, <3>1, <3>2
  <2>2. Person(c)' = P
    BY DEF Person
  <2>3. conn'[c].queue = queue /\ log'[Person(c)'].ring = ring
    BY <1>3, <2>2
  <2> QED
    BY ONLY <2>1, <2>2, <2>3 DEF QueueOK
<1>11. WroteOK(c)'
  <2>1. \A x \in 1..Len(queue) : queue[x].event \in conn[c].wrote => queue[x].id <= conn[c].upTo
    BY <1>4, <1>8, <1>9
  <2> QED
    BY <1>0, <1>1, <1>3, <2>1, WroteFollows DEF WroteOK, Person
<1> QED
  BY <1>10, <1>11

LEMMA PushFrames ==
    ASSUME TypeInv, PipeInv, FrameInv, NEW j \in Jobs, Push(j)
    PROVE  FrameInv'
<1> PICK p \in Persons, f \in Frames :
         /\ p = Owner(job[j].key) /\ f = Stamped(j, p)
         /\ \A c \in buckets[job[j].bucket].members : conn[c].pc # "off"
         /\ \A c \in Clients :
              /\ c \notin buckets[job[j].bucket].members \/ Leaving(c) => conn'[c] = conn[c]
              /\ c \in buckets[job[j].bucket].members /\ ~ Leaving(c) => \/ conn'[c] = Queued(conn[c], f)
                                                                        \/ conn'[c] = Dropped(conn[c], f)
  BY PushFacts
<1>0. job[j].pc = "push" /\ events' = events /\ events \in Nat
  BY DEF Push, bounds, TypeInv
<1>1. /\ \A i \in Jobs : Follows(i)
      /\ EventsOK' /\ Active(j) /\ job[j].event \in 1..events /\ f.event = job[j].event
  BY PushFollows
<1>2. ASSUME NEW c \in Clients, conn[c].pc # "off" => conn'[c].queue = conn[c].queue PROVE QueueOK(c)' /\ WroteOK(c)'
  <2>1. conn'[c].pc = conn[c].pc
        /\ (conn[c].pc # "off" => conn'[c].wrote = conn[c].wrote /\ conn'[c].upTo = conn[c].upTo)
    BY PushSessions DEF SameSession
  <2>2. PICK P \in Persons : P = Person(c)
    BY KeysOf
  <2>3. CASE log'[P].ring = log[P].ring
    <3>1. Renews(P, events + 1)
      BY <2>3 DEF Renews
    <3>2. conn[c].pc # "off" => \A x \in 1..Len(conn[c].queue) : conn[c].queue[x].event # events + 1
      BY <1>0 DEF FrameInv, QueueOK
    <3> QED
      BY <1>0, <1>1, <1>2, <2>1, <2>2, <3>1, <3>2, SessionFollows
  <2>4. CASE P \notin DOMAIN job[j].stamped /\ Renews(P, job[j].event)
    <3>1. conn[c].pc # "off" => \A x \in 1..Len(conn[c].queue) : conn[c].queue[x].event # job[j].event
      BY <1>1, <2>2, <2>4 DEF FrameInv, QueueOK, Stamps
    <3> QED
      BY <1>0, <1>1, <1>2, <2>1, <2>2, <2>4, <3>1, SessionFollows
  <2> QED
    BY <2>3, <2>4, PushRings
<1>3. ASSUME NEW c \in Clients PROVE QueueOK(c)' /\ WroteOK(c)'
  <2>1. CASE conn'[c] = conn[c]
    BY <1>2, <2>1
  <2>2. CASE conn[c].pc # "off" /\ conn'[c] = Dropped(conn[c], f)
    <3>1. conn'[c].queue = conn[c].queue
      BY <2>2, SessionOf, DroppedRecord
    <3> QED
      BY <1>2, <3>1
  <2>3. CASE c \in buckets[job[j].bucket].members /\ conn[c].pc # "off" /\ conn'[c] = Queued(conn[c], f)
    <3>1. p = Person(c)
      BY <1>0, <2>3, Pushed
    <3> QED
      BY <2>3, <3>1, QueuedFrames
  <2> QED
    BY <2>1, <2>2, <2>3
<1>4. \A q \in Persons : RingOK(q)'
  BY PushRings
<1> QED
  BY <1>1, <1>3, <1>4 DEF FrameInv

LEMMA FrameInit == Init => FrameInv
<1> SUFFICES ASSUME Init PROVE FrameInv
  OBVIOUS
<1>1. \A p \in Persons : log[p].ring = <<>>
  BY DEF Init
<1>2. (\A c \in Clients : conn[c].pc = "off") /\ \A j \in Jobs : ~ Active(j)
  BY DEF Init, Off, Idle, Active
<1> QED
  BY <1>1, <1>2 DEF FrameInv, EventsOK, RingOK, QueueOK, WroteOK

LEMMA RestartFrames ==
    ASSUME Restart
    PROVE  FrameInv'
<1>1. \A p \in Persons : log'[p].ring = <<>>
  BY DEF Restart
<1>2. (\A c \in Clients : conn'[c].pc = "off") /\ \A j \in Jobs : ~ Active(j)'
  BY DEF Restart, Off, Idle, Active
<1>3. EventsOK'
  BY <1>2 DEF EventsOK
<1>4. \A p \in Persons : RingOK(p)'
  BY <1>1 DEF RingOK
<1>5. \A c \in Clients : QueueOK(c)' /\ WroteOK(c)'
  BY <1>2 DEF QueueOK, WroteOK
<1> QED
  BY <1>3, <1>4, <1>5 DEF FrameInv

LEMMA FrameStill ==
    ASSUME FrameInv, vars' = vars
    PROVE  FrameInv'
<1>1. EventsOK'
  BY DEF FrameInv, EventsOK, Active, vars
<1>2. \A p \in Persons : RingOK(p)'
  BY DEF FrameInv, RingOK, Active, Stamps, vars
<1>3. ASSUME NEW c \in Clients PROVE QueueOK(c)' /\ WroteOK(c)'
  <2>1. CASE conn[c].pc = "off"
    BY <2>1 DEF QueueOK, WroteOK, vars
  <2>2. CASE conn[c].pc # "off"
    BY <2>2, FramesStay DEF RingsStay, vars
  <2> QED
    BY <2>1, <2>2
<1> QED
  BY <1>1, <1>2, <1>3 DEF FrameInv

LEMMA FrameNext ==
    ASSUME TypeInv, PipeInv, FrameInv, [Next]_vars
    PROVE  FrameInv'
<1>1. ASSUME NEW c \in Clients,
             \/ Open(c) \/ Load(c) \/ Join(c) \/ Prune(c) \/ Evict(c) \/ Resume(c) \/ Read(c)
             \/ Leave(c) \/ Find(c) \/ Unjoin(c) \/ Close(c)
      PROVE  FrameInv'
  BY <1>1, OpenFrames, LoadFrames, JoinFrames, PruneFrames, EvictFrames, ResumeFrames, ReadFrames, LeaveFrames,
     FindFrames, UnjoinFrames, CloseFrames
<1>2. ASSUME NEW j \in Jobs,
             PublishToUser(j) \/ PublishToAccount(j) \/ PublishToAllSessions(j) \/ Visit(j) \/ Push(j)
      PROVE  FrameInv'
  BY <1>2, PublishFrames, VisitFrames, PushFrames
<1> QED
  BY <1>1, <1>2, RestartFrames, FrameStill DEF Next

LEMMA SpecFrames == Spec => [](TypeInv /\ PipeInv /\ FrameInv)
<1>1. Init => TypeInv /\ PipeInv /\ FrameInv
  BY TypeInit, PipeInit, FrameInit
<1>2. TypeInv /\ PipeInv /\ FrameInv /\ [Next]_vars => (TypeInv /\ PipeInv /\ FrameInv)'
  BY TypeNext, PipeNext, FrameNext
<1> QED
  BY <1>1, <1>2, PTL DEF Spec

\* No stream is told of an event twice: not of one that it was handed when it
\* resumed and that is queued as well, and not from two of its buckets (the
\* stamper's one number for a person, and the replay's high-water mark).
THEOREM ToldOnce == Spec => []NothingTwice
<1>1. TypeInv /\ FrameInv => NothingTwice
  <2>1. ASSUME TypeInv, FrameInv, NEW c \in Clients, conn[c].pc = "live", NEW i \in DOMAIN conn[c].queue,
               Told(c, conn[c].queue[i])
        PROVE  /\ conn[c].queue[i].event \notin conn[c].wrote
               /\ \A k \in DOMAIN conn[c].queue : conn[c].queue[k].event = conn[c].queue[i].event => k = i
    <3>1. DOMAIN conn[c].queue = 1..Len(conn[c].queue)
      BY <2>1, QueueOf
    <3>2. conn[c].queue[i].id \in Nat /\ conn[c].upTo \in Nat
      BY <2>1, <3>1, QueueOf, SessionOf DEF Frames, Sessions
    <3> QED
      BY <2>1, <3>1, <3>2 DEF FrameInv, QueueOK, WroteOK, Told
  <2> QED
    BY <2>1 DEF NothingTwice
<1> QED
  BY <1>1, SpecFrames, PTL


-----------------------------------------------------------------------------
(* Steps keep what is due to a stream *)

\* A log is what it was, or has lapsed, or has one frame more.
Grows(p) ==
  \/ log'[p] = log[p]
  \/ log'[p].ring = <<>> /\ log'[p].lapse = log[p].lapse + 1
  \/ /\ log'[p].lapse = log[p].lapse
     /\ \E f \in Frames, s \in {0, 1} :
          f.id = LastOf(log[p].ring) + 1 /\ Shifted(log[p].ring, log'[p].ring, f, s)

\* Its last number does not fall within a life of the log.
LEMMA LastRises ==
    ASSUME TypeInv, FrameInv, NEW p \in Persons, Grows(p)
    PROVE  /\ log[p].lapse \in Nat /\ log'[p].lapse \in Nat /\ log[p].lapse <= log'[p].lapse
           /\ log'[p].lapse = log[p].lapse =>
                LastOf(log[p].ring) \in Nat /\ LastOf(log'[p].ring) \in Nat
                /\ LastOf(log[p].ring) <= LastOf(log'[p].ring)
<1> PICK old, new : old = log[p].ring /\ new = log'[p].ring
  OBVIOUS
<1>1. old \in Seq(Frames) /\ log[p].lapse \in Nat /\ Numbered(old)
  BY RingOf DEF FrameInv, RingOK, Numbered, TypeInv
<1>2. LastOf(old) \in Nat
  BY <1>1, LastOfOK
<1>3. CASE log'[p] = log[p]
  BY <1>1, <1>2, <1>3
<1>4. CASE log'[p].lapse = log[p].lapse + 1
  BY <1>1, <1>4
<1>5. ASSUME log'[p].lapse = log[p].lapse, NEW f \in Frames, NEW s \in {0, 1}, f.id = LastOf(old) + 1,
             Shifted(old, new, f, s)
      PROVE  LastOf(new) \in Nat /\ LastOf(old) <= LastOf(new)
  <2>1. LastOf(new) = f.id
    BY <1>1, <1>5, ShiftedOK
  <2> QED
    BY <1>2, <1>5, <2>1
<1> QED
  BY <1>1, <1>2, <1>3, <1>4, <1>5 DEF Grows

\* What was issued stays in its log, until the log is lost or the ring is past it.
LEMMA IssuedFollows ==
    ASSUME TypeInv, FrameInv, ReplayInv, NEW i \in issued, Grows(i.p), \A j \in Jobs : Follows(j),
           events' \in {events, events + 1}
    PROVE  IssuedOK(i)'
<1> PICK p, g, old, new : p = i.p /\ g = i.f /\ old = log[p].ring /\ new = log'[p].ring
  OBVIOUS
<1>0. p \in Persons /\ g \in Frames /\ events \in Nat /\ log[p].lapse \in Nat
  BY DEF TypeInv
<1>1. /\ g.event \in 1..events /\ g.lapse <= log[p].lapse
      /\ g.lapse = log[p].lapse =>
           /\ old # <<>> /\ g.id <= LastOf(old)
           /\ old[1].id <= g.id => \E k \in 1..Len(old) : old[k] = g
      /\ \A j \in Jobs : Active(j) /\ job[j].event = g.event => Stamps(j, p, g)
  BY DEF ReplayInv, IssuedOK, Holds
<1>2. ASSUME NEW j \in Jobs, Active(j)', job'[j].event = g.event PROVE Stamps(j, p, g)'
  <2>1. g.event # events + 1
    BY <1>0, <1>1
  <2> QED
    BY <1>1, <1>2, <2>1 DEF Follows, Stamps
<1>3. g.event \in 1..events' /\ g.lapse \in Nat /\ g.id \in Nat
  BY <1>0, <1>1 DEF Frames
<1>4. log[p].lapse <= log'[p].lapse /\ log'[p].lapse \in Nat /\ g.lapse <= log'[p].lapse
  <2>1. log[p].lapse <= log'[p].lapse /\ log'[p].lapse \in Nat
    BY <1>0, LastRises
  <2> QED
    BY <1>0, <1>1, <1>3, <2>1
<1>5. ASSUME g.lapse = log'[p].lapse
      PROVE  /\ new # <<>> /\ g.id <= LastOf(new)
             /\ new[1].id <= g.id => \E k \in 1..Len(new) : new[k] = g
  <2>1. log'[p].lapse = log[p].lapse
    BY <1>0, <1>1, <1>3, <1>4, <1>5
  <2>2. CASE log'[p] = log[p]
    BY <1>1, <1>5, <2>2
  <2>3. ASSUME NEW f \in Frames, NEW s \in {0, 1}, f.id = LastOf(old) + 1, Shifted(old, new, f, s)
        PROVE  /\ new # <<>> /\ g.id <= LastOf(new)
               /\ new[1].id <= g.id => \E k \in 1..Len(new) : new[k] = g
    <3>1. old \in Seq(Frames) /\ Numbered(old)
      BY <1>0, RingOf DEF FrameInv, RingOK, Numbered
    <3>2. /\ new # <<>> /\ LastOf(new) = f.id /\ (old # <<>> => old[1].id <= new[1].id)
          /\ \A k \in 1..Len(old) : new[1].id <= old[k].id => \E m \in 1..Len(new) : new[m] = old[k]
      BY ONLY <2>3, <3>1, ShiftedOK
    <3>3. LastOf(old) \in Nat /\ LastOf(new) \in Nat /\ LastOf(old) <= LastOf(new)
      BY <1>0, <2>1, LastRises
    <3>4. g.id <= LastOf(new)
      BY <1>1, <1>3, <1>5, <2>1, <3>3
    <3>5. ASSUME new[1].id <= g.id PROVE \E m \in 1..Len(new) : new[m] = g
      <4>1. old[1].id \in Nat /\ new[1].id \in Nat
        <5>1. old # <<>> /\ 1 \in 1..Len(old)
          BY <1>1, <1>5, <2>1, <3>1
        <5>2. old[1] \in Frames
          BY <3>1, <5>1
        <5>3. Len(new) \in Nat /\ Len(new) # 0 /\ \A k \in 1..Len(new) : new[k] = f \/ \E m \in 1..Len(old) : new[k] = old[m]
          BY <2>3, <3>1, ShiftedOK
        <5>4. 1 \in 1..Len(new)
          BY <5>3
        <5>5. new[1] \in Frames
          BY <3>1, <5>3, <5>4
        <5> QED
          BY <5>2, <5>5 DEF Frames
      <4>2. old[1].id <= g.id
        BY <1>1, <1>3, <1>5, <2>1, <3>2, <3>5, <4>1
      <4>3. PICK k \in 1..Len(old) : old[k] = g
        BY <1>1, <1>5, <2>1, <4>2
      <4> QED
        BY <3>2, <3>5, <4>3
    <3> QED
      BY <3>2, <3>4, <3>5
  <2> QED
    BY <1>0, <2>1, <2>2, <2>3 DEF Grows
<1> QED
  BY <1>2, <1>3, <1>4, <1>5 DEF IssuedOK, Holds

\* A session goes on, and nothing of what it wrote, has queued or lost is undone.
Carries(c) ==
  /\ conn'[c].pc = conn[c].pc
  /\ conn[c].pc # "off" =>
       /\ conn'[c].room = conn[c].room /\ conn'[c].from = conn[c].from /\ conn'[c].upTo = conn[c].upTo
       /\ conn'[c].wrote = conn[c].wrote /\ conn[c].lost \subseteq conn'[c].lost
       /\ \A f : Holds(conn[c].queue, f) => Holds(conn'[c].queue, f)

\* A publisher still comes to a stream, or has handed it the frame.
Comes(c) ==
  Resumed(c) =>
    \A i \in issued, j \in Jobs : i.p = Person(c) /\ job[j].event = i.f.event /\ Coming(j, Person(c)) =>
      \/ Holds(conn'[c].queue, i.f) \/ i.f.event \in conn'[c].lost
      \/ job'[j].event = job[j].event /\ Coming(j, Person(c))'

\* What is issued is numbered after all that its log had, and its publisher comes.
Issues ==
  \A i \in issued' : \/ i \in issued
                     \/ /\ i.p \in Persons /\ i.f \in Frames
                        /\ i.f.lapse = log[i.p].lapse /\ i.f.id = LastOf(log[i.p].ring) + 1
                        /\ \E j \in Jobs : job'[j].event = i.f.event /\ Coming(j, i.p)'

LEMMA ResumeCarried ==
    ASSUME TypeInv, FrameInv, ReplayInv, NEW c \in Clients, Carries(c), Comes(c), Issues, Grows(Person(c))
    PROVE  ResumeOK(c)' /\ FromOK(c)'
<1>1. FromOK(c)'
  BY DEF ReplayInv, FromOK, Carries
<1>2. SUFFICES ASSUME Resumed(c)' PROVE ResumeOK(c)'
  BY <1>1 DEF ResumeOK
<1> PICK P \in Persons, from \in Points, upTo \in Nat :
         P = Person(c) /\ from = conn[c].from /\ upTo = conn[c].upTo
  BY <1>2, KeysOf, SessionOf DEF Resumed, Carries, Sessions
<1> PICK wrote, life, last : wrote = conn[c].wrote /\ life = log[P].lapse /\ last = LastOf(log[P].ring)
  OBVIOUS
<1>3. /\ Resumed(c) /\ conn'[c].from = from /\ conn'[c].upTo = upTo /\ conn'[c].wrote = wrote
      /\ conn[c].lost \subseteq conn'[c].lost
      /\ \A f : Holds(conn[c].queue, f) => Holds(conn'[c].queue, f)
  BY <1>2 DEF Resumed, Carries
<1>4. /\ from.lapse <= life /\ (from.lapse = life => upTo <= last)
      /\ \A i \in issued : i.p = P /\ i.f.lapse = from.lapse /\ i.f.id > from.id =>
           /\ i.f.id <= upTo => i.f.event \in wrote
           /\ \/ i.f.event \in wrote \/ Holds(conn[c].queue, i.f) \/ i.f.event \in conn[c].lost
              \/ \E j \in Jobs : job[j].event = i.f.event /\ Coming(j, P)
  BY <1>3 DEF ReplayInv, ResumeOK, Due
<1>5. /\ life \in Nat /\ log'[P].lapse \in Nat /\ life <= log'[P].lapse /\ last \in Nat /\ from.lapse \in Nat
      /\ log'[P].lapse = life => LastOf(log'[P].ring) \in Nat /\ last <= LastOf(log'[P].ring)
  BY LastRises, RingOf, LastOfOK DEF Points
<1>6. from.lapse <= log'[P].lapse
  BY <1>4, <1>5
<1>7. ASSUME from.lapse = log'[P].lapse PROVE upTo <= LastOf(log'[P].ring)
  <2>1. log'[P].lapse = life /\ from.lapse = life
    BY <1>4, <1>5, <1>7
  <2> QED
    BY <1>4, <1>5, <2>1
<1>8. ASSUME NEW i \in issued', i.p = P, i.f.lapse = from.lapse, i.f.id > from.id
      PROVE  /\ i.f.id <= upTo => i.f.event \in wrote
             /\ \/ i.f.event \in wrote \/ Holds(conn'[c].queue, i.f) \/ i.f.event \in conn'[c].lost
                \/ \E j \in Jobs : job'[j].event = i.f.event /\ Coming(j, P)'
  <2>1. CASE i \in issued
    <3>1. /\ i.f.id <= upTo => i.f.event \in wrote
          /\ \/ i.f.event \in wrote \/ Holds(conn[c].queue, i.f) \/ i.f.event \in conn[c].lost
             \/ \E j \in Jobs : job[j].event = i.f.event /\ Coming(j, P)
      BY <1>4, <1>8, <2>1
    <3>2. ASSUME NEW j \in Jobs, job[j].event = i.f.event, Coming(j, P)
          PROVE  \/ Holds(conn'[c].queue, i.f) \/ i.f.event \in conn'[c].lost
                 \/ job'[j].event = i.f.event /\ Coming(j, P)'
      <4>1. \/ Holds(conn'[c].queue, i.f) \/ i.f.event \in conn'[c].lost
            \/ job'[j].event = job[j].event /\ Coming(j, Person(c))'
        BY <1>3, <1>8, <2>1, <3>2 DEF Comes
      <4>2. Coming(j, Person(c))' => Coming(j, P)'
        BY DEF Coming, Person
      <4> QED
        BY <3>2, <4>1, <4>2
    <3> QED
      BY <1>3, <3>1, <3>2
  <2>2. CASE i \notin issued
    <3>1. /\ i.f \in Frames /\ i.f.lapse = life /\ i.f.id = last + 1
          /\ \E j \in Jobs : job'[j].event = i.f.event /\ Coming(j, P)'
      <4>1. /\ i.f \in Frames /\ i.f.lapse = log[i.p].lapse /\ i.f.id = LastOf(log[i.p].ring) + 1
            /\ \E j \in Jobs : job'[j].event = i.f.event /\ Coming(j, i.p)'
        BY <1>8, <2>2 DEF Issues
      <4>2. ASSUME NEW j \in Jobs, Coming(j, i.p)' PROVE Coming(j, P)'
        BY <1>8, <4>2 DEF Coming
      <4> QED
        BY <1>8, <4>1, <4>2
    <3>2. upTo <= last
      BY <1>4, <1>8, <3>1
    <3>3. ~ (i.f.id <= upTo)
      BY <1>5, <3>1, <3>2
    <3> QED
      BY <3>1, <3>3
  <2> QED
    BY <2>1, <2>2
<1>9. Person(c)' = P
  BY DEF Person
<1>10. \A i \in issued' : Due(c, i)' => i.p = P /\ i.f.lapse = from.lapse /\ i.f.id > from.id
  BY <1>3, <1>9 DEF Due
<1> QED
  BY <1>3, <1>6, <1>7, <1>8, <1>9, <1>10 DEF ResumeOK


\* A step of a client: others are reached as before, and its own session is seen to.
LEMMA ClientReplays ==
    ASSUME TypeInv, PipeInv, FrameInv, ReplayInv, NEW c \in Clients, NEW v, conn' = [conn EXCEPT ![c] = v],
           job' = job, events' = events, issued' = issued, \A p \in Persons : Grows(p),
           \A d \in Clients : d # c /\ InPerson(d) => registry'[Person(d)] = registry[Person(d)],
           ResumeOK(c)', FromOK(c)'
    PROVE  ReplayInv'
<1>1. \A d \in Clients \ {c} : conn'[d] = conn[d]
  BY ConnStep
<1>2. \A j \in Jobs : Follows(j)
  BY DEF Follows, Active, Pending
<1>3. ASSUME NEW i \in issued PROVE IssuedOK(i)'
  <2>1. i.p \in Persons
    BY DEF TypeInv
  <2> QED
    BY <1>2, <2>1, IssuedFollows
<1>4. Issues
  BY DEF Issues
<1>5. ASSUME NEW d \in Clients, d # c PROVE ResumeOK(d)' /\ FromOK(d)'
  <2>1. Carries(d)
    BY <1>1, <1>5 DEF Carries
  <2>2. Comes(d)
    <3>1. ASSUME Resumed(d), NEW j \in Jobs, Coming(j, Person(d)) PROVE Coming(j, Person(d))'
      <4>1. registry'[Person(d)] = registry[Person(d)]
        BY <1>5, <3>1 DEF Resumed, InPerson
      <4> QED
        BY <3>1, <4>1 DEF Coming, Active, Person
    <3> QED
      BY <3>1 DEF Comes
  <2> QED
    BY <1>4, <2>1, <2>2, KeysOf, ResumeCarried
<1> QED
  BY <1>3, <1>5 DEF ReplayInv

\* In particular of one that is not resumed afterwards, and has no point.
LEMMA ClientUnresumed ==
    ASSUME TypeInv, PipeInv, FrameInv, ReplayInv, NEW c \in Clients, NEW v, conn' = [conn EXCEPT ![c] = v],
           job' = job, events' = events, issued' = issued, \A p \in Persons : Grows(p),
           \A d \in Clients : d # c /\ InPerson(d) => registry'[Person(d)] = registry[Person(d)],
           v.pc # "off" => v.from = NoPoint
    PROVE  ReplayInv'
<1>1. conn'[c] = v
  BY ConnStep
<1>2. ResumeOK(c)' /\ FromOK(c)'
  BY <1>1 DEF ResumeOK, Resumed, FromOK
<1> QED
  BY <1>2, ClientReplays

\* What a step that touches neither logs nor buckets leaves.
Still == /\ log' = log /\ registry' = registry /\ issued' = issued /\ job' = job /\ events' = events

LEMMA StillReplays ==
    ASSUME TypeInv, PipeInv, FrameInv, ReplayInv, NEW c \in Clients, NEW v, conn' = [conn EXCEPT ![c] = v], Still,
           v.pc # "off" => v.from = NoPoint
    PROVE  ReplayInv'
<1>1. \A p \in Persons : Grows(p)
  BY DEF Still, Grows
<1> QED
  BY <1>1, ClientUnresumed DEF Still

LEMMA OpenReplays ==
    ASSUME TypeInv, PipeInv, FrameInv, ReplayInv, NEW c \in Clients, Open(c)
    PROVE  ReplayInv'
<1>1. PICK room \in BOOLEAN : conn' = [conn EXCEPT ![c] =
         [pc |-> "load", key |-> AccountOf[c], bucket |-> None, home |-> None, room |-> room,
          seq |-> opens + 1, queue |-> <<>>, lost |-> {}, wrote |-> {},
          upTo |-> 0, from |-> NoPoint]]
  BY DEF Open
<1>2. Still
  BY DEF Open, streams, record, Still
<1> QED
  BY <1>1, <1>2, StillReplays

\* A load registers a bucket only where there was none.
LEMMA LoadReplays ==
    ASSUME TypeInv, PipeInv, FrameInv, ReplayInv, NEW c \in Clients, Load(c)
    PROVE  ReplayInv'
<1>1. /\ conn[c].pc = "load" /\ job' = job /\ events' = events /\ issued' = issued
      /\ \A p \in Persons : Grows(p)
  BY DEF Load, record, bounds, Grows
<1>2. PICK b \in 1..MaxBuckets :
        /\ conn' = [conn EXCEPT ![c] = Placed(conn[c], "join", b)]
        /\ \/ registry' = registry
           \/ registry[conn[c].key] = None /\ registry' = [registry EXCEPT ![conn[c].key] = b]
  BY LoadFacts
<1>3. ASSUME NEW d \in Clients, d # c, InPerson(d) PROVE registry'[Person(d)] = registry[Person(d)]
  <2>1. registry[Person(d)] # None /\ Person(d) \in Keys
    BY <1>3, SeatOf, KeysOf, NoneIsNone
  <2> QED
    BY <1>2, <2>1 DEF TypeInv
<1>4. Placed(conn[c], "join", b).from = NoPoint
  <2>1. conn[c] \in Sessions /\ b \in Address /\ "join" \in Stages
    BY <1>1, SessionOf, BoundsOK, StagesOK DEF Address
  <2>2. SameBut(conn[c], Placed(conn[c], "join", b))
    BY <2>1, PlacedRecord
  <2>3. conn[c].from = NoPoint
    BY <1>1 DEF ReplayInv, FromOK
  <2> QED
    BY <2>2, <2>3 DEF SameBut
<1> QED
  BY <1>1, <1>2, <1>3, <1>4, ClientUnresumed

LEMMA JoinReplays ==
    ASSUME TypeInv, PipeInv, FrameInv, ReplayInv, NEW c \in Clients, Join(c)
    PROVE  ReplayInv'
<1>1. conn[c].pc = "join" /\ Still
  BY DEF Join, record, bounds, Still
<1>2. conn[c] \in Sessions /\ "load" \in Stages /\ "prune" \in Stages /\ None \in Address
  BY <1>1, SessionOf, StagesOK
<1>3. conn[c].from = NoPoint
  BY <1>1 DEF ReplayInv, FromOK
<1>4. SameBut(conn[c], Moved(conn[c], "load")) /\ SameBut(conn[c], Placed(conn[c], "prune", None))
  BY <1>2, MovedRecord, PlacedRecord
<1>5. Homed(conn[c], Person(c)).from = conn[c].from
  BY <1>2, KeysOf, HomedRecord
<1> QED
  BY <1>1, <1>3, <1>4, <1>5, JoinFacts, StillReplays DEF SameBut

LEMMA PruneReplays ==
    ASSUME TypeInv, PipeInv, FrameInv, ReplayInv, NEW c \in Clients, Prune(c)
    PROVE  ReplayInv'
<1>1. conn[c].pc = "prune" /\ job' = job /\ events' = events /\ issued' = issued /\ registry' = registry
  BY DEF Prune, bounds, streams
<1>2. \A p \in Persons : Grows(p)
  BY PruneFacts DEF Grows, Lapsed
<1>3. conn[c] \in Sessions /\ "live" \in Stages /\ "evict" \in Stages
  BY <1>1, SessionOf, StagesOK
<1>4. conn[c].from = NoPoint
  BY <1>1 DEF ReplayInv, FromOK
<1>5. Settled(conn[c], "live").from = conn[c].from /\ SameBut(conn[c], Moved(conn[c], "evict"))
  BY <1>3, SettledRecord, MovedRecord
<1> QED
  BY <1>1, <1>2, <1>4, <1>5, PruneFacts, ClientUnresumed DEF SameBut

LEMMA EvictReplays ==
    ASSUME TypeInv, PipeInv, FrameInv, ReplayInv, NEW c \in Clients, Evict(c)
    PROVE  ReplayInv'
<1>1. conn[c].pc = "evict" /\ Still
  BY DEF Evict, record, bounds, Still
<1>2. conn[c] \in Sessions /\ "resume" \in Stages
  BY <1>1, SessionOf, StagesOK
<1>3. conn[c].from = NoPoint
  BY <1>1 DEF ReplayInv, FromOK
<1>4. Settled(conn[c], "resume").from = conn[c].from
  BY <1>2, SettledRecord
<1> QED
  BY <1>1, <1>3, <1>4, EvictFacts, StillReplays

LEMMA LeaveReplays ==
    ASSUME TypeInv, PipeInv, FrameInv, ReplayInv, NEW c \in Clients, Leave(c)
    PROVE  ReplayInv'
<1>1. conn[c].pc = "live" /\ Still
  BY DEF Leave, streams, record, bounds, Still
<1>2. Left(conn[c], AccountOf[c]).from = NoPoint
  BY <1>1, SessionOf, KeysOf, LeftRecord
<1> QED
  BY <1>1, <1>2, LeaveFacts, StillReplays

LEMMA FindReplays ==
    ASSUME TypeInv, PipeInv, FrameInv, ReplayInv, NEW c \in Clients, Find(c)
    PROVE  ReplayInv'
<1>1. conn[c].pc = "find" /\ Still
  BY DEF Find, streams, record, bounds, Still
<1>2. SameBut(conn[c], Unjoined(c))
  BY <1>1, UnjoinedFacts
<1>3. conn[c] \in Sessions /\ "unjoin" \in Stages /\ registry[conn[c].key] \in Address
  BY <1>1, SessionOf, StagesOK
<1>4. SameBut(conn[c], Placed(conn[c], "unjoin", registry[conn[c].key]))
  BY <1>3, PlacedRecord
<1>5. conn[c].from = NoPoint
  BY <1>1 DEF ReplayInv, FromOK
<1> QED
  BY <1>1, <1>2, <1>4, <1>5, FindFacts, StillReplays DEF SameBut

\* The person's bucket is torn down only when nobody else is in it.
LEMMA UnjoinReplays ==
    ASSUME TypeInv, PipeInv, FrameInv, ReplayInv, NEW c \in Clients, Unjoin(c)
    PROVE  ReplayInv'
<1>1. /\ conn[c].pc = "unjoin" /\ job' = job /\ events' = events /\ issued' = issued
      /\ \A p \in Persons : Grows(p)
  BY DEF Unjoin, record, bounds, Grows
<1>2. /\ conn' = [conn EXCEPT ![c] = Unjoined(c)]
      /\ \/ registry' = registry
         \/ buckets[conn[c].bucket].members \ {c} = {} /\ registry' = [registry EXCEPT ![conn[c].key] = None]
  BY UnjoinFacts
<1>3. ASSUME NEW d \in Clients, d # c, InPerson(d) PROVE registry'[Person(d)] = registry[Person(d)]
  <2>1. Person(d) \in Persons /\ Person(d) \in Keys /\ d \in buckets[registry[Person(d)]].members
    BY <1>3, SeatOf, KeysOf
  <2>2. CASE conn[c].key = Person(d)
    <3>1. conn[c].bucket = registry[Person(d)]
      BY <1>1, <2>1, <2>2 DEF PipeInv, SeatOK
    <3>2. d \in buckets[conn[c].bucket].members \ {c}
      BY <1>3, <2>1, <3>1
    <3> QED
      BY <1>2, <3>2
  <2>3. CASE conn[c].key # Person(d)
    BY <1>2, <2>1, <2>3 DEF TypeInv
  <2> QED
    BY <2>2, <2>3
<1>4. Unjoined(c).from = NoPoint
  <2>1. SameBut(conn[c], Unjoined(c))
    BY <1>1, UnjoinedFacts
  <2>2. conn[c].from = NoPoint
    BY <1>1 DEF ReplayInv, FromOK
  <2> QED
    BY <2>1, <2>2 DEF SameBut
<1> QED
  BY <1>1, <1>2, <1>3, <1>4, ClientUnresumed

LEMMA CloseReplays ==
    ASSUME TypeInv, PipeInv, FrameInv, ReplayInv, NEW c \in Clients, Close(c)
    PROVE  ReplayInv'
<1>1. conn' = [conn EXCEPT ![c] = Off] /\ Off.pc = "off" /\ Still
  BY DEF Close, streams, record, bounds, Still, Off
<1> QED
  BY <1>1, StillReplays


\* What a stream is handed when it resumes is all that is due to it.
LEMMA ResumeReplays ==
    ASSUME TypeInv, PipeInv, FrameInv, ReplayInv, NEW c \in Clients, Resume(c)
    PROVE  ReplayInv'
<1>0. conn[c].pc = "resume" /\ Still /\ conn[c] \in Sessions /\ "live" \in Stages
  BY SessionOf, StagesOK DEF Resume, streams, record, bounds, Still
<1>1. CASE conn' = [conn EXCEPT ![c] = Moved(conn[c], "live")]
  <2>1. SameBut(conn[c], Moved(conn[c], "live"))
    BY <1>0, MovedRecord
  <2>2. conn[c].from = NoPoint
    BY <1>0 DEF ReplayInv, FromOK
  <2> QED
    BY <1>0, <1>1, <2>1, <2>2, StillReplays DEF SameBut
<1>2. ASSUME NEW from \in Points, NEW wrote \in SUBSET Nat, NEW upTo \in Nat,
             Provable(log[Person(c)].ring, client[c].id),
             from = IF client[c].lapse = log[Person(c)].lapse THEN client[c] ELSE NoPoint,
             wrote = {f.event : f \in Missed(log[Person(c)].ring, client[c].id)},
             upTo = IF Missed(log[Person(c)].ring, client[c].id) = {} THEN 0 ELSE LastOf(log[Person(c)].ring),
             conn' = [conn EXCEPT ![c] = Replayed(conn[c], from, wrote, upTo)]
      PROVE  ReplayInv'
  <2> PICK ring, last, life : ring = log[Person(c)].ring /\ last = client[c].id /\ life = log[Person(c)].lapse
    OBVIOUS
  <2>0. Person(c) \in Persons /\ ring \in Seq(Frames) /\ LastOf(ring) \in Nat /\ last \in Nat /\ life \in Nat
    BY KeysOf, RingOf, LastOfOK DEF TypeInv, Points
  <2>1. /\ wrote = Handed(ring, last)
        /\ upTo \in {0, LastOf(ring)}
        /\ ring[1].id <= last + 1
        /\ from # NoPoint => from = client[c] /\ from.lapse = life /\ from.id = last
    BY <1>2 DEF Handed, Provable
  <2>2. LET v == Replayed(conn[c], from, wrote, upTo)
        IN v.pc = "live" /\ v.from = from /\ v.upTo = upTo /\ v.wrote = wrote
    <3> PICK s \in Sessions : s = conn[c]
      BY <1>0
    <3>1. LET v == Replayed(s, from, wrote, upTo)
          IN v.pc = "live" /\ v.from = from /\ v.upTo = upTo /\ v.wrote = wrote
      BY ONLY DEF Replayed, Sessions
    <3> QED
      BY ONLY <3>1, s = conn[c]
  <2>3. CASE from = NoPoint
    <3>1. Replayed(conn[c], from, wrote, upTo).from = NoPoint
      BY <2>2, <2>3
    <3>2. conn' = [conn EXCEPT ![c] = Replayed(conn[c], from, wrote, upTo)]
      BY <1>2
    <3> QED
      BY <1>0, <3>1, <3>2, StillReplays
  <2>4. CASE from # NoPoint
    <3>1. conn'[c].pc = "live" /\ conn'[c].from = from /\ conn'[c].upTo = upTo /\ conn'[c].wrote = wrote
      <4>1. conn'[c] = Replayed(conn[c], from, wrote, upTo)
        BY <1>2, ConnStep
      <4> QED
        BY <2>2, <4>1
    <3>2. ASSUME NEW i \in issued, i.p = Person(c), i.f.lapse = life, i.f.id > last PROVE i.f.event \in wrote
      <4> PICK g \in Frames : g = i.f
        BY DEF TypeInv
      <4>1. /\ ring # <<>> /\ ring[1].id <= g.id => \E k \in 1..Len(ring) : ring[k] = g
            /\ ring # <<>>
        BY <3>2 DEF ReplayInv, IssuedOK, Holds
      <4>2. ring[1].id \in Nat
        <5>1. 1 \in 1..Len(ring)
          BY <2>0, <4>1
        <5>2. ring[1] \in Frames
          BY <2>0, <5>1
        <5> QED
          BY <5>2 DEF Frames
      <4>3. g.id \in Nat /\ g.id > last
        BY <3>2 DEF Frames
      <4>4. ring[1].id <= g.id
        BY ONLY <2>0, <2>1, <4>2, <4>3
      <4>5. PICK k \in 1..Len(ring) : ring[k] = g
        BY <4>1, <4>4
      <4>6. ring[k].event \in Handed(ring, last)
        BY <2>0, <4>3, <4>5, MissedFacts
      <4> QED
        BY <2>1, <4>5, <4>6
    <3>3. upTo <= LastOf(ring)
      BY <2>0, <2>1
    <3>4. from.lapse = life /\ from.id = last /\ life <= life
      BY <2>0, <2>1, <2>4
    <3>5. log'[Person(c)].ring = ring /\ log'[Person(c)].lapse = life /\ issued' = issued /\ Person(c)' = Person(c)
      BY <1>0 DEF Still, Person
    <3>6. ASSUME NEW i \in issued, Due(c, i)' PROVE i.f.event \in wrote
      <4>1. i.p = Person(c) /\ i.f.lapse = life /\ i.f.id > last
        BY <3>1, <3>4, <3>5, <3>6 DEF Due
      <4> QED
        BY <3>2, <4>1
    <3>7. ResumeOK(c)'
      BY <3>1, <3>3, <3>4, <3>5, <3>6 DEF ResumeOK
    <3>8. FromOK(c)'
      BY <3>1 DEF FromOK
    <3> QED
      BY <1>0, <1>2, <3>7, <3>8, ClientReplays DEF Still, Grows
  <2> QED
    BY <2>3, <2>4
<1> QED
  BY <1>1, <1>2, ResumeFacts

\* The frame that is read is written, or has been: it is as old as what was handed
\* over.
LEMMA ReadReplays ==
    ASSUME TypeInv, PipeInv, FrameInv, ReplayInv, NEW c \in Clients, Read(c)
    PROVE  ReplayInv'
<1>0. conn[c].pc = "live" /\ conn[c].queue # <<>> /\ Still /\ conn[c] \in Sessions
  BY SessionOf DEF Read, streams, record, bounds, Still
<1> PICK old, queue, f : old = conn[c].queue /\ queue = Tail(old) /\ f = Head(old)
  OBVIOUS
<1>1. PICK wrote \in SUBSET Nat :
                /\ conn' = [conn EXCEPT ![c] = Took(conn[c], wrote)]
                /\ \/ ~ conn[c].room /\ Told(c, f) /\ wrote = conn[c].wrote \cup {f.event}
                   \/ (conn[c].room \/ ~ Told(c, f)) /\ wrote = conn[c].wrote
  BY ReadFacts
<1>2. LET v == Took(conn[c], wrote)
      IN /\ v.pc = conn[c].pc /\ v.room = conn[c].room /\ v.queue = Tail(conn[c].queue) /\ v.lost = conn[c].lost
         /\ v.wrote = wrote /\ v.upTo = conn[c].upTo /\ v.from = conn[c].from
  BY <1>0, TookRecord
<1>3. conn'[c] = Took(conn[c], wrote)
  BY <1>1, ConnStep
<1>4. /\ conn'[c].pc = "live" /\ conn'[c].room = conn[c].room /\ conn'[c].queue = queue
      /\ conn'[c].lost = conn[c].lost /\ conn'[c].wrote = wrote /\ conn'[c].upTo = conn[c].upTo
      /\ conn'[c].from = conn[c].from
  BY <1>0, <1>2, <1>3
<1>5. FromOK(c)'
  BY <1>4 DEF FromOK
<1>6. SUFFICES ASSUME Resumed(c)' PROVE ResumeOK(c)'
  <2>1. ResumeOK(c)' => ReplayInv'
    BY <1>0, <1>1, <1>5, ClientReplays DEF Still, Grows
  <2> QED
    BY <2>1 DEF ResumeOK
<1>7. Resumed(c) /\ ~ conn[c].room
  BY <1>0, <1>4, <1>6 DEF Resumed
<1>8. \A g : Holds(old, g) => Holds(queue, g) \/ g = f
  <2>1. old \in Seq(Frames) /\ old # <<>>
    BY <1>0, QueueOf
  <2>2. /\ Len(old) \in Nat /\ Len(queue) = Len(old) - 1 /\ f = old[1]
        /\ \A i \in 1..Len(queue) : queue[i] = old[i + 1]
    BY <2>1, HeadTailProperties
  <2>3. ASSUME NEW g, NEW k \in 1..Len(old), old[k] = g, g # f PROVE Holds(queue, g)
    <3>1. k - 1 \in 1..Len(queue) /\ k - 1 + 1 = k
      BY <2>2, <2>3
    <3>2. queue[k - 1] = old[k]
      BY <2>2, <3>1
    <3> QED
      BY <2>3, <3>1, <3>2 DEF Holds
  <2> QED
    BY <2>3 DEF Holds
<1>9. /\ conn[c].from.lapse <= log[Person(c)].lapse
      /\ conn[c].from.lapse = log[Person(c)].lapse => conn[c].upTo <= LastOf(log[Person(c)].ring)
      /\ \A i \in issued : Due(c, i) =>
           /\ i.f.id <= conn[c].upTo => i.f.event \in conn[c].wrote
           /\ \/ i.f.event \in conn[c].wrote \/ Holds(old, i.f) \/ i.f.event \in conn[c].lost
              \/ \E j \in Jobs : job[j].event = i.f.event /\ Coming(j, Person(c))
  BY <1>7 DEF ReplayInv, ResumeOK
<1>10. conn[c].wrote \subseteq wrote /\ (Told(c, f) => f.event \in wrote)
  BY <1>1, <1>7
<1>11. ASSUME NEW i \in issued, Due(c, i)
       PROVE  /\ i.f.id <= conn[c].upTo => i.f.event \in wrote
              /\ \/ i.f.event \in wrote \/ Holds(queue, i.f) \/ i.f.event \in conn[c].lost
                 \/ \E j \in Jobs : job[j].event = i.f.event /\ Coming(j, Person(c))
  <2>1. CASE i.f = f
    <3>1. f.id \in Nat /\ conn[c].upTo \in Nat
      <4>1. i.f \in Frames
        BY DEF TypeInv
      <4> QED
        BY <1>0, <2>1, <4>1 DEF Frames, Sessions
    <3>2. Told(c, f) \/ f.id <= conn[c].upTo
      BY <3>1 DEF Told
    <3> QED
      BY <1>9, <1>10, <1>11, <2>1, <3>2
  <2>2. CASE i.f # f
    BY <1>8, <1>9, <1>10, <1>11, <2>2
  <2> QED
    BY <2>1, <2>2
<1>12. ASSUME NEW i \in issued, Due(c, i)' PROVE Due(c, i)
  BY <1>4, <1>12 DEF Due, Person
<1>13. \A j \in Jobs : Coming(j, Person(c)) => job'[j] = job[j] /\ Coming(j, Person(c))'
  BY <1>0 DEF Still, Coming, Active, Person
<1>14. log' = log /\ issued' = issued /\ Person(c)' = Person(c)
  BY <1>0 DEF Still, Person
<1>15. ASSUME NEW i \in issued, Due(c, i)'
       PROVE  /\ i.f.id <= conn'[c].upTo => i.f.event \in conn'[c].wrote
              /\ \/ i.f.event \in conn'[c].wrote \/ Holds(conn'[c].queue, i.f) \/ i.f.event \in conn'[c].lost
                 \/ \E j \in Jobs : job'[j].event = i.f.event /\ Coming(j, Person(c))'
  <2>1. /\ i.f.id <= conn[c].upTo => i.f.event \in wrote
        /\ \/ i.f.event \in wrote \/ Holds(queue, i.f) \/ i.f.event \in conn[c].lost
           \/ \E j \in Jobs : job[j].event = i.f.event /\ Coming(j, Person(c))
    BY <1>11, <1>12, <1>15
  <2> QED
    BY <1>4, <1>13, <2>1
<1> QED
  BY <1>4, <1>9, <1>14, <1>15 DEF ResumeOK


\* A step of a publisher.
LEMMA JobReplays ==
    ASSUME TypeInv, FrameInv, ReplayInv, \A c \in Clients : Carries(c) /\ Comes(c), Issues,
           \A p \in Persons : Grows(p), \A j \in Jobs : Follows(j), events' \in {events, events + 1},
           \A i \in issued' : i \in issued \/ IssuedOK(i)'
    PROVE  ReplayInv'
<1>1. ASSUME NEW i \in issued PROVE IssuedOK(i)'
  <2>1. i.p \in Persons
    BY DEF TypeInv
  <2> QED
    BY <2>1, IssuedFollows
<1>2. \A c \in Clients : ResumeOK(c)' /\ FromOK(c)'
  BY KeysOf, ResumeCarried
<1> QED
  BY <1>1, <1>2 DEF ReplayInv

LEMMA PublishReplays ==
    ASSUME TypeInv, PipeInv, FrameInv, ReplayInv, NEW j \in Jobs,
           PublishToUser(j) \/ PublishToAccount(j) \/ PublishToAllSessions(j)
    PROVE  ReplayInv'
<1>0. conn' = conn /\ registry' = registry /\ events' = events + 1 /\ events \in Nat /\ ~ Active(j)
  BY DEF PublishToUser, PublishToAccount, PublishToAllSessions, Publish, Starts, Active, TypeInv, streams
<1>1. PICK keys \in SUBSET Keys, S \in SUBSET Persons : \E stamped \in [S -> Frames] :
             /\ job' = [job EXCEPT ![j] = Fresh(keys, events + 1, stamped)]
             /\ keys \subseteq Accounts \/ \E p \in Persons : keys \subseteq {p}
             /\ \/ log' = log /\ issued' = issued /\ S = {}
                \/ \E p \in Persons : LET f == Frame(p, events + 1)
                                      IN /\ keys = {p} /\ S = {p} /\ stamped[p] = f
                                         /\ log' = Recorded(p, f)
                                         /\ issued' = issued \cup {[p |-> p, f |-> f]}
  BY PublishFacts
<1>2. PICK stamped \in [S -> Frames] :
             /\ job' = [job EXCEPT ![j] = Fresh(keys, events + 1, stamped)]
             /\ \/ log' = log /\ issued' = issued
                \/ \E p \in Persons : /\ keys = {p} /\ S = {p} /\ stamped[p] = Frame(p, events + 1)
                                      /\ log' = Recorded(p, Frame(p, events + 1))
                                      /\ issued' = issued \cup {[p |-> p, f |-> Frame(p, events + 1)]}
  BY <1>1
<1>3. /\ \A i \in Jobs \ {j} : job'[i] = job[i]
      /\ job'[j].event = events + 1 /\ job'[j].stamped = stamped /\ job'[j].pc = "find" /\ job'[j].todo = keys
  BY <1>2 DEF TypeInv, Fresh
<1>4. \A i \in Jobs : Follows(i)
  BY <1>3 DEF Follows, Active, Pending
<1>5. ASSUME NEW c \in Clients PROVE Carries(c) /\ Comes(c)
  <2>1. Carries(c)
    BY <1>0 DEF Carries
  <2>2. ASSUME NEW i \in Jobs, Coming(i, Person(c)) PROVE job'[i].event = job[i].event /\ Coming(i, Person(c))'
    <3>1. job'[i] = job[i]
      BY <1>0, <1>3, <2>2 DEF Coming
    <3> QED
      BY <1>0, <2>2, <3>1 DEF Coming, Active, Person
  <2> QED
    BY <2>1, <2>2 DEF Comes
<1>6. CASE log' = log /\ issued' = issued
  <2>1. Issues /\ \A p \in Persons : Grows(p)
    BY <1>6 DEF Issues, Grows
  <2> QED
    BY <1>0, <1>4, <1>5, <1>6, <2>1, JobReplays
<1>7. ASSUME NEW p \in Persons, keys = {p}, S = {p}, stamped[p] = Frame(p, events + 1),
             log' = Recorded(p, Frame(p, events + 1)),
             issued' = issued \cup {[p |-> p, f |-> Frame(p, events + 1)]}
      PROVE  ReplayInv'
  <2>1. PICK f \in Frames : f = Frame(p, events + 1)
    BY <1>0, FrameOK
  <2>2. f.event = events + 1 /\ f.id = LastOf(log[p].ring) + 1 /\ f.lapse = log[p].lapse
    BY <1>0, <2>1, FrameOK
  <2>3. /\ \A q \in Persons : q # p => log'[q] = log[q]
        /\ log'[p].lapse = log[p].lapse
        /\ \E s \in {0, 1} : Shifted(log[p].ring, log'[p].ring, f, s)
    BY <1>7, <2>1, RecordedOK
  <2>4. \A q \in Persons : Grows(q)
    BY <2>2, <2>3 DEF Grows
  <2>5. \A i \in issued' : i \in issued \/ (i.p = p /\ i.f = f)
    BY <1>7, <2>1
  <2>6. Coming(j, p)'
    BY <1>3, <1>7 DEF Coming, Active
  <2>7. Issues
    <3>1. ASSUME NEW i, i.p = p, i.f = f
          PROVE  /\ i.p \in Persons /\ i.f \in Frames
                 /\ i.f.lapse = log[i.p].lapse /\ i.f.id = LastOf(log[i.p].ring) + 1
                 /\ \E k \in Jobs : job'[k].event = i.f.event /\ Coming(k, i.p)'
      <4>1. Coming(j, i.p)'
        BY <2>6, <3>1 DEF Coming
      <4> QED
        BY <1>3, <2>2, <3>1, <4>1
    <3> QED
      BY <2>5, <3>1 DEF Issues
  <2>8. ASSUME NEW i, i.p = p, i.f = f PROVE IssuedOK(i)'
    <3>1. PICK s \in {0, 1} : Shifted(log[p].ring, log'[p].ring, f, s)
      BY <2>3
    <3>2. log[p].ring \in Seq(Frames) /\ Numbered(log[p].ring) /\ log[p].lapse \in Nat
      BY RingOf DEF FrameInv, RingOK, Numbered, TypeInv
    <3>3. /\ log'[p].ring # <<>> /\ LastOf(log'[p].ring) = f.id
          /\ \E k \in 1..Len(log'[p].ring) : log'[p].ring[k] = f
      BY ONLY <2>2, <3>1, <3>2, f \in Frames, ShiftedOK
    <3>4. ASSUME NEW k \in Jobs, Active(k)', job'[k].event = f.event PROVE Stamps(k, p, f)'
      <4>1. k = j
        <5>1. CASE k # j
          <6>1. Active(k) /\ job[k].event = events + 1
            BY <1>3, <2>2, <3>4, <5>1 DEF Active
          <6>2. job[k].event \in 1..events
            BY <6>1 DEF FrameInv, EventsOK
          <6> QED
            BY <1>0, <6>1, <6>2
        <5> QED
          BY <5>1
      <4> QED
        BY <1>3, <1>7, <2>1, <4>1 DEF Stamps
    <3>5. f.event \in 1..events' /\ f.id \in Nat /\ f.lapse <= log'[p].lapse
      BY <1>0, <2>2, <2>3, <3>2 DEF Frames
    <3>6. Holds(log'[p].ring, f) /\ f.id <= LastOf(log'[p].ring)
      BY <3>3, <3>5 DEF Holds
    <3> QED
      BY <2>8, <3>3, <3>4, <3>5, <3>6 DEF IssuedOK
  <2> QED
    BY <1>0, <1>4, <1>5, <2>4, <2>5, <2>7, <2>8, JobReplays
<1> QED
  BY <1>2, <1>6, <1>7

\* A visit finds the bucket that the person's streams are in.
LEMMA VisitReplays ==
    ASSUME TypeInv, PipeInv, FrameInv, ReplayInv, NEW j \in Jobs, Visit(j)
    PROVE  ReplayInv'
<1>0. /\ conn' = conn /\ registry' = registry /\ log' = log /\ issued' = issued
      /\ events' = events /\ events \in Nat /\ job[j].pc = "find"
  BY DEF Visit, streams, record, bounds, TypeInv
<1>1. PICK k \in job[j].todo :
             /\ k \in Keys
             /\ \/ registry[k] \in 1..MaxBuckets /\ job' = [job EXCEPT ![j] = Pushing(job[j], k, registry[k])]
                \/ registry[k] = None /\ job[j].todo = {k} /\ job' = [job EXCEPT ![j] = Idle]
                \/ registry[k] = None /\ job' = [job EXCEPT ![j] = Skipping(job[j], k)]
  BY VisitFacts
<1>2. job[j] \in Publishes /\ registry[k] \in Address
  BY <1>0, <1>1, JobOf DEF TypeInv
<1>3. \A i \in Jobs \ {j} : job'[i] = job[i]
  BY <1>1 DEF TypeInv
<1>4. \/ /\ job'[j].pc = "push" /\ job'[j].key = k /\ job'[j].bucket = registry[k]
         /\ job'[j].todo = job[j].todo \ {k} /\ job'[j].event = job[j].event /\ job'[j].stamped = job[j].stamped
      \/ registry[k] = None /\ job[j].todo = {k} /\ job'[j] = Idle
      \/ /\ registry[k] = None /\ job'[j].pc = "find"
         /\ job'[j].todo = job[j].todo \ {k} /\ job'[j].event = job[j].event /\ job'[j].stamped = job[j].stamped
  <2>1. \/ registry[k] \in 1..MaxBuckets /\ job'[j] = Pushing(job[j], k, registry[k])
        \/ registry[k] = None /\ job[j].todo = {k} /\ job'[j] = Idle
        \/ registry[k] = None /\ job'[j] = Skipping(job[j], k)
    BY <1>1 DEF TypeInv
  <2>2. CASE job'[j] = Pushing(job[j], k, registry[k])
    BY <1>1, <1>2, <2>2, PushingRecord
  <2>3. CASE registry[k] = None /\ job'[j] = Skipping(job[j], k)
    BY <1>0, <1>1, <1>2, <2>3, SkippingRecord
  <2> QED
    BY <2>1, <2>2, <2>3
<1>5. ASSUME NEW i \in Jobs PROVE Follows(i)
  <2>1. Active(j) /\ (Active(j)' => Pending(j)' \subseteq Pending(j))
    BY <1>0, <1>1, <1>4 DEF Active, Pending, Idle
  <2> QED
    BY <1>3, <1>4, <2>1 DEF Follows, Active, Pending, Idle
<1>6. ASSUME NEW c \in Clients PROVE Carries(c) /\ Comes(c)
  <2>1. Carries(c)
    BY <1>0 DEF Carries
  <2>2. ASSUME Resumed(c), NEW i \in Jobs, Coming(i, Person(c))
        PROVE  job'[i].event = job[i].event /\ Coming(i, Person(c))'
    <3>1. CASE i # j
      <4>1. job'[i] = job[i]
        BY <1>3, <3>1
      <4> QED
        BY <1>0, <2>2, <4>1 DEF Coming, Active, Person
    <3>2. CASE i = j
      <4>1. Person(c) \in job[j].todo
        BY <1>0, <2>2, <3>2 DEF Coming
      <4>2. registry[Person(c)] # None
        <5>1. InPerson(c)
          BY <2>2 DEF Resumed, InPerson
        <5> QED
          BY <5>1, SeatOf, NoneIsNone
      <4>3. job'[j].event = job[j].event /\ job'[j].pc \in {"push", "find"}
            /\ \/ Person(c) \in job'[j].todo
               \/ job'[j].pc = "push" /\ job'[j].key = Person(c) /\ job'[j].bucket = registry[Person(c)]
        BY <1>4, <4>1, <4>2
      <4> QED
        BY <1>0, <3>2, <4>3 DEF Coming, Active, Person
    <3> QED
      BY <3>1, <3>2
  <2> QED
    BY <2>1, <2>2 DEF Comes
<1>7. Issues /\ \A p \in Persons : Grows(p)
  BY <1>0 DEF Issues, Grows
<1> QED
  BY <1>0, <1>5, <1>6, <1>7, JobReplays

\* A push along a person's pipe hands every stream in it the frame that was issued.
LEMMA PushComes ==
    ASSUME TypeInv, PipeInv, FrameInv, ReplayInv, NEW j \in Jobs, Push(j), NEW c \in Clients, Resumed(c),
           NEW i \in issued, i.p = Person(c), job[j].event = i.f.event, Coming(j, Person(c))
    PROVE  \/ Holds(conn'[c].queue, i.f) \/ i.f.event \in conn'[c].lost
           \/ job'[j].event = job[j].event /\ Coming(j, Person(c))'
<1>0. job[j].pc = "push" /\ Active(j) /\ registry' = registry
  BY DEF Push, Active, streams
<1>1. CASE Person(c) \in job[j].todo
  <2>1. job'[j].pc = "find" /\ job'[j].todo = job[j].todo /\ job'[j].event = job[j].event
    BY <1>1, PushJob
  <2> QED
    BY <1>1, <2>1 DEF Coming, Active, Person
<1>2. CASE job[j].key = Person(c) /\ job[j].bucket = registry[Person(c)]
  <2>1. conn[c].pc = "live" /\ c \in buckets[job[j].bucket].members /\ ~ Leaving(c)
    <3>1. InPerson(c) /\ conn[c].pc = "live"
      BY DEF Resumed, InPerson
    <3> QED
      BY <1>2, <3>1, SeatOf DEF Leaving
  <2>2. PICK f \in Frames : /\ f = Stamped(j, Owner(job[j].key))
                            /\ conn'[c] = Queued(conn[c], f) \/ conn'[c] = Dropped(conn[c], f)
    BY <2>1, PushFacts
  <2>3. f = i.f
    <3>1. Owner(job[j].key) = Person(c) /\ Person(c) \in Persons
      BY <1>2, KeysOf, OwnerKey
    <3>2. Stamps(j, Person(c), i.f)
      BY <1>0 DEF ReplayInv, IssuedOK
    <3> QED
      BY <1>0, <2>2, <3>1, <3>2, StampedOK DEF Stamps
  <2>4. conn[c] \in Sessions /\ conn[c].queue \in Seq(Frames) /\ Len(conn[c].queue) \in Nat
    BY <2>1, SessionOf, QueueOf
  <2>5. CASE conn'[c] = Queued(conn[c], f)
    <3>0. Queued(conn[c], f).queue = Append(conn[c].queue, f)
      BY <2>4, QueuedRecord
    <3>1. conn'[c].queue = Append(conn[c].queue, f)
      BY <2>5, <3>0
    <3>2. /\ Append(conn[c].queue, f)[Len(conn[c].queue) + 1] = f
          /\ Len(conn[c].queue) + 1 \in 1..Len(Append(conn[c].queue, f))
      BY <2>4
    <3> QED
      BY <2>3, <3>1, <3>2 DEF Holds
  <2>6. CASE conn'[c] = Dropped(conn[c], f)
    <3>1. conn'[c].lost = conn[c].lost \cup {f.event}
      BY <2>4, <2>6, DroppedRecord
    <3> QED
      BY <2>3, <3>1
  <2> QED
    BY <2>2, <2>5, <2>6
<1> QED
  BY <1>0, <1>1, <1>2 DEF Coming

LEMMA PushCarries ==
    ASSUME TypeInv, NEW j \in Jobs, Push(j), NEW c \in Clients
    PROVE  Carries(c)
<1>1. PICK f \in Frames :
        conn'[c] = conn[c] \/ (conn[c].pc # "off" /\ conn'[c] \in {Queued(conn[c], f), Dropped(conn[c], f)})
  BY PushFacts
<1>2. CASE conn'[c] = conn[c]
  BY <1>2 DEF Carries
<1>3. CASE conn[c].pc # "off" /\ conn'[c] = Queued(conn[c], f)
  <2> PICK old, new : old = conn[c].queue /\ new = conn'[c].queue
    OBVIOUS
  <2>1. conn[c] \in Sessions /\ old \in Seq(Frames) /\ Len(old) \in Nat
    BY <1>3, SessionOf, QueueOf
  <2>0. LET v == Queued(conn[c], f)
        IN /\ v.pc = conn[c].pc /\ v.room = conn[c].room /\ v.from = conn[c].from
           /\ v.upTo = conn[c].upTo /\ v.wrote = conn[c].wrote /\ v.lost = conn[c].lost
           /\ v.queue = Append(conn[c].queue, f)
    BY <2>1, QueuedRecord
  <2>2. /\ conn'[c].pc = conn[c].pc /\ conn'[c].room = conn[c].room /\ conn'[c].from = conn[c].from
        /\ conn'[c].upTo = conn[c].upTo /\ conn'[c].wrote = conn[c].wrote /\ conn'[c].lost = conn[c].lost
        /\ new = Append(old, f)
    BY <1>3, <2>0
  <2>3. \A k \in 1..Len(old) : k \in 1..Len(new) /\ new[k] = old[k]
    BY <2>1, <2>2
  <2>4. \A g : Holds(old, g) => Holds(new, g)
    BY <2>3 DEF Holds
  <2> QED
    BY <2>2, <2>4 DEF Carries
<1>4. CASE conn[c].pc # "off" /\ conn'[c] = Dropped(conn[c], f)
  BY <1>4, SessionOf, DroppedRecord DEF Carries
<1> QED
  BY <1>1, <1>2, <1>3, <1>4

LEMMA PushReplays ==
    ASSUME TypeInv, PipeInv, FrameInv, ReplayInv, NEW j \in Jobs, Push(j)
    PROVE  ReplayInv'
<1>0. registry' = registry /\ issued' = issued /\ events' = events /\ Active(j)
  BY DEF Push, streams, bounds, Active
<1> PICK p \in Persons, f \in Frames :
         /\ p = Owner(job[j].key) /\ f = Stamped(j, p)
         /\ log' = log \/ (p \notin DOMAIN job[j].stamped /\ log' = Recorded(p, f))
  BY PushFacts
<1>1. \A i \in Jobs : Follows(i)
  BY PushFollows
<1>2. ASSUME NEW q \in Persons PROVE Grows(q)
  <2>1. CASE log' = log
    BY <2>1 DEF Grows
  <2>2. CASE p \notin DOMAIN job[j].stamped /\ log' = Recorded(p, f)
    <3>1. /\ q # p => log'[q] = log[q]
          /\ log'[p].lapse = log[p].lapse
          /\ \E s \in {0, 1} : Shifted(log[p].ring, log'[p].ring, f, s)
      BY <2>2, RecordedOK
    <3>2. f.id = LastOf(log[p].ring) + 1
      <4>1. f = Frame(p, job[j].event) /\ job[j].event \in Nat
        BY <1>0, <2>2, StampedOK, JobOf DEF Active, Publishes
      <4> QED
        BY <4>1, FrameOK
    <3> QED
      BY <3>1, <3>2 DEF Grows
  <2> QED
    BY <2>1, <2>2
<1>3. ASSUME NEW c \in Clients PROVE Comes(c)
  <2>1. ASSUME Resumed(c), NEW i \in issued, NEW k \in Jobs, i.p = Person(c), job[k].event = i.f.event,
               Coming(k, Person(c))
        PROVE  \/ Holds(conn'[c].queue, i.f) \/ i.f.event \in conn'[c].lost
               \/ job'[k].event = job[k].event /\ Coming(k, Person(c))'
    <3>1. CASE k = j
      BY <2>1, <3>1, PushComes
    <3>2. CASE k # j
      <4>1. job'[k] = job[k]
        BY <3>2, PushJob
      <4> QED
        BY <1>0, <2>1, <4>1 DEF Coming, Active, Person
    <3> QED
      BY <3>1, <3>2
  <2> QED
    BY <2>1 DEF Comes
<1>4. Issues
  BY <1>0 DEF Issues
<1> QED
  BY <1>0, <1>1, <1>2, <1>3, <1>4, PushCarries, JobReplays

LEMMA ReplayInit == Init => ReplayInv
<1> SUFFICES ASSUME Init PROVE ReplayInv
  OBVIOUS
<1>1. issued = {} /\ \A c \in Clients : conn[c].pc = "off"
  BY DEF Init, Off
<1> QED
  BY <1>1 DEF ReplayInv, ResumeOK, Resumed, FromOK

LEMMA RestartReplays ==
    ASSUME TypeInv, FrameInv, ReplayInv, Restart
    PROVE  ReplayInv'
<1>1. /\ issued' = issued /\ events' = events
      /\ \A p \in Persons : log'[p].ring = <<>> /\ log'[p].lapse = log[p].lapse + 1
      /\ (\A c \in Clients : conn'[c].pc = "off") /\ \A j \in Jobs : ~ Active(j)'
  BY DEF Restart, bounds, Off, Idle, Active
<1>2. ASSUME NEW i \in issued PROVE IssuedOK(i)'
  <2>1. i.p \in Persons /\ Grows(i.p)
    BY <1>1 DEF TypeInv, Grows
  <2>2. \A j \in Jobs : Follows(j)
    BY <1>1 DEF Follows
  <2> QED
    BY <1>1, <2>1, <2>2, IssuedFollows
<1>3. \A c \in Clients : ResumeOK(c)' /\ FromOK(c)'
  BY <1>1 DEF ResumeOK, Resumed, FromOK
<1> QED
  BY <1>1, <1>2, <1>3 DEF ReplayInv

LEMMA ReplayStill ==
    ASSUME TypeInv, FrameInv, ReplayInv, vars' = vars
    PROVE  ReplayInv'
<1>1. \A c \in Clients : Carries(c) /\ Comes(c)
  BY DEF vars, Carries, Comes, Coming, Active, Person
<1>2. Issues /\ (\A p \in Persons : Grows(p)) /\ \A j \in Jobs : Follows(j)
  BY DEF vars, Issues, Grows, Follows, Active, Pending
<1> QED
  BY <1>1, <1>2, JobReplays DEF vars

LEMMA ReplayNext ==
    ASSUME TypeInv, PipeInv, FrameInv, ReplayInv, [Next]_vars
    PROVE  ReplayInv'
<1>1. ASSUME NEW c \in Clients,
             \/ Open(c) \/ Load(c) \/ Join(c) \/ Prune(c) \/ Evict(c) \/ Resume(c) \/ Read(c)
             \/ Leave(c) \/ Find(c) \/ Unjoin(c) \/ Close(c)
      PROVE  ReplayInv'
  BY <1>1, OpenReplays, LoadReplays, JoinReplays, PruneReplays, EvictReplays, ResumeReplays, ReadReplays,
     LeaveReplays, FindReplays, UnjoinReplays, CloseReplays
<1>2. ASSUME NEW j \in Jobs,
             PublishToUser(j) \/ PublishToAccount(j) \/ PublishToAllSessions(j) \/ Visit(j) \/ Push(j)
      PROVE  ReplayInv'
  BY <1>2, PublishReplays, VisitReplays, PushReplays
<1> QED
  BY <1>1, <1>2, RestartReplays, ReplayStill DEF Next

LEMMA SpecReplays == Spec => [](TypeInv /\ PipeInv /\ FrameInv /\ ReplayInv)
<1>1. Init => ReplayInv
  BY ReplayInit
<1>2. TypeInv /\ PipeInv /\ FrameInv /\ ReplayInv /\ [Next]_vars => ReplayInv'
  BY ReplayNext
<1> QED
  BY <1>1, <1>2, SpecFrames, PTL DEF Spec

\* A stream that came back and was resumed misses nothing that was published to
\* its person after the number it gave: what the ring had was handed over before
\* the stream went live (streamLog.ReplayAfter), and what came after is queued,
\* dropped at a full buffer or on its way.
THEOREM NothingIsMissed == Spec => []NothingMissed
<1>1. TypeInv /\ ReplayInv => NothingMissed
  <2>1. ASSUME TypeInv, ReplayInv, NEW c \in Clients, Resumed(c), NEW i \in issued, Due(c, i)
        PROVE  \/ i.f.event \in conn[c].wrote \/ i.f \in ToSet(conn[c].queue)
               \/ i.f.event \in conn[c].lost
               \/ \E j \in Jobs : job[j].pc # "idle" /\ job[j].event = i.f.event
    <3>1. \/ i.f.event \in conn[c].wrote \/ Holds(conn[c].queue, i.f) \/ i.f.event \in conn[c].lost
          \/ \E j \in Jobs : job[j].event = i.f.event /\ Coming(j, Person(c))
      BY <2>1 DEF ReplayInv, ResumeOK
    <3>2. Holds(conn[c].queue, i.f) => i.f \in ToSet(conn[c].queue)
      <4>1. conn[c].queue \in Seq(Frames)
        BY <2>1, QueueOf DEF Resumed
      <4>2. DOMAIN conn[c].queue = 1..Len(conn[c].queue)
        BY <4>1
      <4> QED
        BY <4>2 DEF Holds, ToSet
    <3>3. \A j \in Jobs : Coming(j, Person(c)) => job[j].pc # "idle"
      BY DEF Coming, Active
    <3> QED
      BY <3>1, <3>2, <3>3
  <2> QED
    BY <2>1 DEF NothingMissed, Resumed, Due
<1> QED
  BY <1>1, SpecReplays, PTL

=============================================================================
