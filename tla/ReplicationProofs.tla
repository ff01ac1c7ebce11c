-------------------------- MODULE ReplicationProofs --------------------------
(***************************************************************************)
(* What reaches the copies, proved for any names, readers, shard size and  *)
(* lost connections of the resolution cache, and for any queue, replicas,  *)
(* batch size, attempt limit and disturbances of the outbox drain.         *)
(*                                                                         *)
(* The cache: a hearing cache serves nothing its stamps vouch for that is  *)
(* stale.  The induction carries the same promise back to the reads under  *)
(* way: while announcements are heard, what a reader has found is          *)
(* committed, or its announcement is coming, or a stamp or an emptying of  *)
(* the stamps is there to keep it out.                                     *)
(*                                                                         *)
(* The drain: what is asked is durable until it has landed or is set aside *)
(* for an answer of the plane.                                             *)
(***************************************************************************)
EXTENDS ResolveCache, OutboxDrain, TLAPS

-----------------------------------------------------------------------------
(* The resolution cache. *)

\* What commits is announced, and what was announced while it was not is gone.
Heard == listener \in {"cleared", "hearing"}

Fresh(n, v) == v = db[n] \/ Coming(n)

\* A fill of n from a read that began at a is refused, or vouched for by nothing.
KeptOut(n, a) == a <= cleared \/ \E s \in stamps : s.name = n /\ s.at >= a

Safe(n, v, a) == Fresh(n, v) \/ KeptOut(n, a)

ReaderOK(r) ==
  /\ reader[r].pc = "asked" => reader[r].at \in 1..clock /\ reader[r].names \subseteq Names
  /\ reader[r].pc \in {"filling", "storing"} =>
       /\ reader[r].at \in 1..clock /\ DOMAIN reader[r].found \subseteq Names
       /\ Heard => \A n \in DOMAIN reader[r].found : Safe(n, reader[r].found[n], reader[r].at)
  /\ reader[r].pc = "storing" => reader[r].name \in DOMAIN reader[r].found

EntryOK(e) ==
  /\ e.read \in 1..clock /\ e.name \in Names
  /\ Heard /\ e.read > cleared => Fresh(e.name, e.ver)

Shape ==
  /\ clock \in Nat /\ cleared \in 0..clock
  /\ inbox \in Seq(Names) /\ DOMAIN db = Names /\ DOMAIN reader = Readers

CacheInv == Shape /\ (\A r \in Readers : ReaderOK(r)) /\ (\A e \in entries : EntryOK(e))

\* What a step must leave true for a read that it does not itself advance.
Keeps ==
  /\ clock' \in Nat /\ clock <= clock'
  /\ Heard' => \A n \in Names, a \in 1..clock : \A v :
                 (Heard => Safe(n, v, a)) => Safe(n, v, a)'

LEMMA ReaderKept ==
  ASSUME CacheInv, NEW r \in Readers, reader'[r] = reader[r], Keeps
  PROVE  ReaderOK(r)'
<1>1. ReaderOK(r)
  BY DEF CacheInv
<1>2. 1..clock \subseteq 1..clock'
  BY DEF Keeps, CacheInv, Shape
<1>3. ASSUME Heard', reader[r].pc \in {"filling", "storing"}, NEW n \in DOMAIN reader[r].found
      PROVE  Safe(n, reader[r].found[n], reader[r].at)'
  <2>1. n \in Names /\ reader[r].at \in 1..clock
    BY <1>1, <1>3 DEF ReaderOK
  <2>2. Heard => Safe(n, reader[r].found[n], reader[r].at)
    BY <1>1, <1>3 DEF ReaderOK
  <2>3. \A v : (Heard => Safe(n, v, reader[r].at)) =>
                 (v = db'[n] \/ Coming(n)' \/ KeptOut(n, reader[r].at)')
    BY <1>3, <2>1 DEF Keeps, Safe, Fresh
  <2> QED
    BY <2>2, <2>3 DEF Safe, Fresh
<1> QED
  BY <1>1, <1>2, <1>3 DEF ReaderOK

LEMMA CacheInvStarts == CacheInit => CacheInv
  BY DEF CacheInit, CacheInv, Shape, ReaderOK, NoRead

\* A change of n is committed: the only one whose binding it alters is announced.
LEMMA CommitKeeps ==
  ASSUME CacheInv, NEW n \in Names, Commit(n)
  PROVE  CacheInv'
<1>1. /\ Heard => inbox' = Append(inbox, n)
      /\ inbox' \in Seq(Names) /\ (Heard' <=> Heard)
      /\ DOMAIN db' = Names /\ \A m \in Names : m # n => db'[m] = db[m]
      /\ UNCHANGED <<entries, stamps, cleared, reader, clock>>
  BY DEF Commit, Connected, Heard, CacheInv, Shape, shard
<1>2. ASSUME Heard, NEW m \in Names, NEW v, Fresh(m, v)
      PROVE  Fresh(m, v)'
  <2>1. CASE m = n
    <3>1. Len(inbox') \in 1..Len(inbox') /\ inbox'[Len(inbox')] = m
      BY <1>1, <1>2, <2>1 DEF CacheInv, Shape
    <3> QED
      BY <3>1 DEF Fresh, Coming
  <2>2. CASE m # n /\ Coming(m)
    <3>1. PICK i \in 1..Len(inbox) : inbox[i] = m
      BY <2>2 DEF Coming
    <3>2. i \in 1..Len(inbox') /\ inbox'[i] = m
      BY <1>1, <1>2, <3>1 DEF CacheInv, Shape
    <3> QED
      BY <3>2 DEF Fresh, Coming
  <2>3. CASE m # n /\ v = db[m]
    BY <1>1, <2>3 DEF Fresh
  <2> QED
    BY <1>2, <2>1, <2>2, <2>3 DEF Fresh
<1>3. Keeps
  BY <1>1, <1>2 DEF Keeps, Safe, KeptOut, CacheInv, Shape
<1>4. \A r \in Readers : ReaderOK(r)'
  BY <1>1, <1>3, ReaderKept
<1>5. \A e \in entries' : EntryOK(e)'
  BY <1>1, <1>2 DEF EntryOK, CacheInv
<1> QED
  BY <1>1, <1>4, <1>5 DEF CacheInv, Shape

LEMMA MissKeeps ==
  ASSUME CacheInv, NEW r \in Readers, Miss(r)
  PROVE  CacheInv'
<1>1. /\ clock' = clock + 1 /\ UNCHANGED <<db, entries, stamps, cleared, listener, inbox>>
      /\ DOMAIN reader' = Readers /\ \A q \in Readers : q # r => reader'[q] = reader[q]
  BY DEF Miss, CacheInv, Shape, shard
<1>2. PICK ns \in SUBSET Names : reader'[r] = [pc |-> "asked", names |-> ns, at |-> clock']
  BY DEF Miss, CacheInv, Shape
<1>3. Keeps
  BY <1>1 DEF Keeps, Heard, Safe, Fresh, KeptOut, Coming, CacheInv, Shape
<1>4. ReaderOK(r)'
  BY <1>1, <1>2 DEF ReaderOK, CacheInv, Shape
<1>5. \A q \in Readers : ReaderOK(q)'
  BY <1>1, <1>3, <1>4, ReaderKept
<1>6. \A e \in entries' : EntryOK(e)'
  BY <1>1 DEF EntryOK, Heard, Fresh, Coming, CacheInv, Shape
<1> QED
  BY <1>1, <1>5, <1>6 DEF CacheInv, Shape

\* A step of one reader that leaves the cache as it is.
LEMMA ReaderStepKeeps ==
  ASSUME CacheInv, NEW r \in Readers, DOMAIN reader' = Readers,
         \A q \in Readers : q # r => reader'[q] = reader[q], ReaderOK(r)',
         UNCHANGED <<db, entries, stamps, cleared, listener, inbox, clock>>
  PROVE  CacheInv'
<1>1. Keeps
  BY DEF Keeps, Heard, Safe, Fresh, KeptOut, Coming, CacheInv, Shape
<1>2. \A q \in Readers : ReaderOK(q)'
  BY <1>1, ReaderKept
<1>3. \A e \in entries' : EntryOK(e)'
  BY DEF EntryOK, Heard, Fresh, Coming, CacheInv
<1> QED
  BY <1>2, <1>3 DEF CacheInv, Shape

LEMMA ReadKeeps ==
  ASSUME CacheInv, NEW r \in Readers, Read(r)
  PROVE  CacheInv'
<1>1. ReaderOK(r) /\ DOMAIN reader = Readers
  BY DEF CacheInv, Shape
<1>2. reader'[r] = [pc |-> "filling", at |-> reader[r].at, found |-> [n \in reader[r].names |-> db[n]]]
  BY <1>1 DEF Read
<1>3. UNCHANGED <<db, entries, stamps, cleared, listener, inbox, clock>>
  BY DEF Read, shard
<1>4. ReaderOK(r)'
  BY <1>1, <1>2, <1>3 DEF ReaderOK, Read, Safe, Fresh
<1> QED
  BY <1>1, <1>3, <1>4, ReaderStepKeeps DEF Read

\* What is left of a lookup is as safe as the whole of it was.
LEMMA RestOK ==
  ASSUME NEW r \in Readers, NEW n, ReaderOK(r), reader[r].pc \in {"filling", "storing"},
         reader'[r] = Rest(r, n), clock' = clock,
         Heard' => Heard /\ \A m \in Names : \A v, a : Safe(m, v, a) => Safe(m, v, a)'
  PROVE  ReaderOK(r)'
<1> DEFINE rest == DOMAIN reader[r].found \ {n}
<1>1. CASE rest = {}
  BY <1>1 DEF Rest, NoRead, ReaderOK
<1>2. CASE rest # {}
  <2>1. reader'[r] = [pc |-> "filling", at |-> reader[r].at,
                      found |-> [m \in rest |-> reader[r].found[m]]]
    BY <1>2 DEF Rest
  <2>2. ASSUME Heard', NEW m \in rest, NEW v, NEW a,
               v = reader[r].found[m], a = reader[r].at
        PROVE  Safe(m, v, a)'
    <3>1. m \in Names /\ Safe(m, v, a)
      BY <2>2 DEF ReaderOK
    <3> QED
      BY <2>2, <3>1
  <2>3. reader'[r].at \in 1..clock' /\ DOMAIN reader'[r].found \subseteq Names
    BY <2>1 DEF ReaderOK
  <2>4. ASSUME Heard', NEW m \in DOMAIN reader'[r].found
        PROVE  Safe(m, reader[r].found[m], reader[r].at)'
    <3>1. m \in rest /\ reader'[r].found[m] = reader[r].found[m] /\ reader'[r].at = reader[r].at
      BY <2>1
    <3>2. \A v, a : v = reader[r].found[m] /\ a = reader[r].at => Safe(m, v, a)'
      BY <2>2, <2>4, <3>1
    <3> QED
      BY <3>1, <3>2 DEF Safe, Fresh, KeptOut
  <2> QED
    BY <2>1, <2>3, <2>4 DEF ReaderOK
<1> QED
  BY <1>1, <1>2

LEMMA AskKeeps ==
  ASSUME CacheInv, NEW r \in Readers, AskHearing(r)
  PROVE  CacheInv'
<1>1. ReaderOK(r) /\ DOMAIN reader = Readers /\ reader[r].pc = "filling"
  BY DEF CacheInv, Shape, AskHearing
<1>2. UNCHANGED <<db, entries, stamps, cleared, listener, inbox, clock>>
  BY DEF AskHearing, shard
<1>3. PICK n \in DOMAIN reader[r].found :
        reader' = [reader EXCEPT ![r] =
         IF hearing THEN [pc |-> "storing", at |-> @.at, found |-> @.found, name |-> n]
         ELSE Rest(r, n)]
  BY DEF AskHearing
<1>4. ReaderOK(r)'
  <2>1. CASE hearing
    BY <1>1, <1>2, <1>3, <2>1 DEF ReaderOK, Safe, Fresh, KeptOut, Coming, Heard
  <2>2. CASE ~ hearing
    <3>1. reader'[r] = Rest(r, n)
      BY <1>1, <1>3, <2>2
    <3> QED
      <4>1. Heard' => Heard /\ \A m \in Names : \A v, a : Safe(m, v, a) => Safe(m, v, a)'
        BY <1>2 DEF Safe, Fresh, KeptOut, Coming, Heard
      <4> QED
        BY <1>1, <1>2, <3>1, <4>1, RestOK
  <2> QED
    BY <2>1, <2>2
<1> QED
  BY <1>1, <1>2, <1>3, <1>4, ReaderStepKeeps

\* What a fill stores is vouched for, or older than the last emptying.
LEMMA FillKeeps ==
  ASSUME CacheInv, NEW r \in Readers, Fill(r)
  PROVE  CacheInv'
<1> DEFINE n == reader[r].name
<1>1. ReaderOK(r) /\ DOMAIN reader = Readers /\ reader[r].pc = "storing"
      /\ n \in Names /\ reader[r].at \in 1..clock
  BY DEF CacheInv, Shape, Fill, ReaderOK
<1>2. UNCHANGED <<db, listener, inbox, clock>> /\ DOMAIN reader' = Readers
      /\ reader'[r] = Rest(r, reader[r].name)
      /\ \A q \in Readers : q # r => reader'[q] = reader[q]
  BY <1>1 DEF Fill, Filled
<1>3. CASE Announced(r) /\ UNCHANGED shard
  <2>1. Heard' => Heard /\ \A m \in Names : \A v, a : Safe(m, v, a) => Safe(m, v, a)'
    BY <1>2, <1>3 DEF Safe, Fresh, KeptOut, Coming, Heard, shard
  <2>2. ReaderOK(r)'
    BY <1>1, <1>2, <2>1, RestOK
  <2> QED
    BY <1>2, <1>3, <2>2, ReaderStepKeeps DEF shard
<1>4. CASE ~ Announced(r) /\ Store(r)
  <2>1. \/ stamps' = stamps /\ cleared' = cleared
        \/ cleared' = clock
    BY <1>4 DEF Store
  <2>2. \A e \in entries' : e \in entries \/ e = Entry(r)
    BY <1>4 DEF Store, Others
  <2>3. cleared \in 0..clock /\ clock \in Nat
    BY DEF CacheInv, Shape
  <2>4. Keeps
    BY <1>2, <2>1, <2>3 DEF Keeps, Safe, Fresh, KeptOut, Coming, Heard
  <2>5. ReaderOK(r)'
    <3>1. CASE stamps' = stamps /\ cleared' = cleared
      <4>1. Heard' => Heard /\ \A m \in Names : \A v, a : Safe(m, v, a) => Safe(m, v, a)'
        BY <1>2, <3>1 DEF Safe, Fresh, KeptOut, Coming, Heard
      <4> QED
        BY <1>1, <1>2, <4>1, RestOK
    <3>2. CASE cleared' = clock
      <4>1. reader'[r].pc = "idle" \/
              /\ reader'[r].pc = "filling" /\ reader'[r].at = reader[r].at
              /\ DOMAIN reader'[r].found \subseteq DOMAIN reader[r].found
        BY <1>2 DEF Rest, NoRead
      <4>2. reader'[r].pc = "filling" => reader'[r].at <= cleared'
        BY <1>1, <2>3, <3>2, <4>1
      <4> QED
        BY <1>1, <1>2, <4>1, <4>2 DEF ReaderOK, Safe, KeptOut
    <3> QED
      BY <2>1, <3>1, <3>2
  <2>6. \A q \in Readers : ReaderOK(q)'
    BY <1>2, <2>4, <2>5, ReaderKept
  <2>7. ASSUME NEW e \in entries'
        PROVE  EntryOK(e)'
    <3>1. CASE e \in entries
      <4>1. EntryOK(e)
        BY <3>1 DEF CacheInv
      <4> QED
        BY <1>2, <2>1, <2>3, <4>1 DEF EntryOK, Heard, Fresh, Coming
    <3>2. CASE e = Entry(r)
      <4>1. e.name = n /\ e.ver = reader[r].found[n] /\ e.read = reader[r].at
        BY <3>2 DEF Entry
      <4>2. Heard => Safe(e.name, e.ver, e.read)
        BY <1>1, <4>1 DEF ReaderOK
      <4>3. Heard /\ e.read > cleared => Fresh(e.name, e.ver)
        BY <1>1, <1>4, <2>3, <4>1, <4>2 DEF Safe, KeptOut, Announced
      <4> QED
        BY <1>1, <1>2, <2>1, <2>3, <4>1, <4>3 DEF EntryOK, Heard, Fresh, Coming
    <3> QED
      BY <2>2, <3>1, <3>2
  <2> QED
    BY <1>2, <2>1, <2>3, <2>6, <2>7 DEF CacheInv, Shape
<1> QED
  BY <1>3, <1>4 DEF Fill

\* An eviction takes its name's announcement out of the inbox, and stamps it.
LEMMA EvictKeeps ==
  ASSUME CacheInv, inbox # <<>>, NEW n, n = Head(inbox), Evict(n), inbox' = Tail(inbox),
         UNCHANGED <<db, listener, reader, clock>>
  PROVE  CacheInv'
<1>1. n \in Names /\ inbox' \in Seq(Names) /\ cleared \in 0..clock /\ clock \in Nat
  BY DEF CacheInv, Shape
<1>2. ASSUME NEW m, Coming(m), m # n
      PROVE  Coming(m)'
  <2>1. PICK i \in 1..Len(inbox) : inbox[i] = m
    BY <1>2 DEF Coming
  <2>2. i - 1 \in 1..Len(inbox') /\ inbox'[i - 1] = m
    BY <1>2, <2>1 DEF CacheInv, Shape
  <2> QED
    BY <2>2 DEF Coming
<1>3. /\ \E s \in stamps' : s.name = n /\ s.at = clock
      /\ cleared' = clock \/ (cleared' = cleared /\ \A s \in stamps : s.name # n => s \in stamps')
      /\ entries' = Others(n)
  <2>1. [name |-> n, at |-> clock] \in stamps' /\ entries' = Others(n)
    BY DEF Evict
  <2>2. \E s \in stamps' : s.name = n /\ s.at = clock
    BY <2>1
  <2>3. CASE Cardinality(stamps) >= PerShard
    BY <2>1, <2>2, <2>3 DEF Evict
  <2>4. CASE ~ (Cardinality(stamps) >= PerShard)
    BY <2>1, <2>2, <2>4 DEF Evict
  <2> QED
    BY <2>3, <2>4
<1>4. ASSUME NEW m \in Names, NEW a \in 1..clock, NEW v, Safe(m, v, a)
      PROVE  v = db[m] \/ Coming(m)' \/ KeptOut(m, a)'
  <2>1. CASE m = n
    BY <1>1, <1>3, <2>1 DEF KeptOut
  <2>2. CASE cleared' = clock
    BY <1>1, <2>2 DEF KeptOut
  <2>3. CASE m # n /\ cleared' = cleared /\ \A s \in stamps : s.name # n => s \in stamps'
    BY <1>2, <1>4, <2>3 DEF Safe, Fresh, KeptOut
  <2> QED
    BY <1>3, <2>1, <2>2, <2>3
<1>5. Keeps
  <2>1. \A m \in Names, a \in 1..clock : \A v : Safe(m, v, a) => Safe(m, v, a)'
    BY <1>4 DEF Safe, Fresh
  <2>2. Heard' <=> Heard
    BY DEF Heard
  <2> QED
    BY <1>1, <2>1, <2>2 DEF Keeps
<1>6. \A q \in Readers : ReaderOK(q)'
  BY <1>5, ReaderKept
<1>7. ASSUME NEW e \in entries'
      PROVE  EntryOK(e)'
  <2>1. EntryOK(e) /\ e.name # n
    BY <1>3 DEF Others, CacheInv
  <2>2. cleared <= cleared'
    BY <1>1, <1>3
  <2>3. e.read > cleared' => e.read > cleared
    BY <1>1, <1>3, <2>1 DEF EntryOK
  <2>4. Fresh(e.name, e.ver) => e.ver = db[e.name] \/ Coming(e.name)'
    BY <1>2, <2>1 DEF Fresh
  <2> QED
    BY <2>1, <2>3, <2>4 DEF EntryOK, Heard, Fresh
<1> QED
  BY <1>1, <1>3, <1>6, <1>7 DEF CacheInv, Shape

\* After a clear every read under way is older than the stamps.
LEMMA ClearKeeps ==
  ASSUME CacheInv, Clear, UNCHANGED <<db, inbox, reader, clock>>
  PROVE  CacheInv'
<1>1. Keeps
  BY DEF Clear, Keeps, Safe, KeptOut, CacheInv, Shape
<1>2. \A q \in Readers : ReaderOK(q)'
  BY <1>1, ReaderKept
<1> QED
  BY <1>2 DEF Clear, CacheInv, Shape

\* A step of the listener that touches no entry and starts no hearing.
LEMMA ListenerKeeps ==
  ASSUME CacheInv, UNCHANGED <<db, shard, reader, clock>>, inbox' \in Seq(Names),
         Heard' => Heard /\ inbox' = inbox
  PROVE  CacheInv'
<1>1. Keeps
  BY DEF Keeps, Safe, Fresh, KeptOut, Coming, CacheInv, Shape, shard
<1>2. \A q \in Readers : ReaderOK(q)'
  BY <1>1, ReaderKept
<1>3. \A e \in entries' : EntryOK(e)'
  BY DEF EntryOK, Fresh, Coming, CacheInv, shard
<1> QED
  BY <1>2, <1>3 DEF CacheInv, Shape, shard

LEMMA CacheInvStep == CacheInv /\ [CacheNext]_cacheVars => CacheInv'
<1> SUFFICES ASSUME CacheInv, [CacheNext]_cacheVars
             PROVE  CacheInv'
  OBVIOUS
<1>1. inbox \in Seq(Names)
  BY DEF CacheInv, Shape
<1>2. CASE \E n \in Names : Commit(n)
  BY <1>2, CommitKeeps
<1>3. CASE \E r \in Readers : Miss(r) \/ Read(r) \/ AskHearing(r) \/ Fill(r)
  BY <1>3, MissKeeps, ReadKeeps, AskKeeps, FillKeeps
<1>4. CASE Hear \/ HearLast
  BY <1>4, EvictKeeps DEF Hear, HearLast
<1>5. CASE ClearReconnected \/ ClearDeaf \/ ClearListening
  BY <1>5, ClearKeeps DEF ClearReconnected, ClearDeaf, ClearListening
<1>6. CASE Lose
  <2>1. inbox' \in Seq(Names)
    BY <1>1, <1>6 DEF Lose
  <2> QED
    BY <1>6, <2>1, ListenerKeeps DEF Lose, Goto, Heard
<1>7. CASE Reconnect \/ GoDeaf \/ Listen \/ StartHearing
  BY <1>1, <1>7, ListenerKeeps DEF Reconnect, GoDeaf, Listen, StartHearing, Goto, Heard
<1>8. CASE UNCHANGED cacheVars
  BY <1>1, <1>8, ListenerKeeps DEF cacheVars, shard, Heard
<1> QED
  BY <1>2, <1>3, <1>4, <1>5, <1>6, <1>7, <1>8 DEF CacheNext, Listening

\* What the stamps of a hearing cache can vouch for is the committed binding, or
\* the announcement that drops it is on its way (cache.rs, "How it stays right").
THEOREM HearingServesFresh == CacheSpec => []VouchedIsFresh
<1>1. CacheInv => VouchedIsFresh
  BY DEF CacheInv, EntryOK, VouchedIsFresh, Heard, Fresh
<1> QED
  BY CacheInvStarts, CacheInvStep, <1>1, PTL DEF CacheSpec

-----------------------------------------------------------------------------
(* The outbox drain. *)

\* A verdict a drain holds is one the plane gave: "landed" is never made up.
VerdictsHonest ==
  \A p \in Replicas, r \in Rows : drain[p].verdict[r] = "landed" => r \in landed

DrainState ==
  [pc : {"idle", "read", "call", "settle", "quarantine", "release"},
   batch : SUBSET Rows, left : SUBSET Rows, more : BOOLEAN, seen : [Rows -> Nat],
   verdict : [Rows -> Verdicts \cup {"none", "skipped"}]]

\* The types the proofs rest on, without the links between the tables.
DrainTypes ==
  /\ queued \subseteq Rows
  /\ attempts \in [Rows -> Nat] /\ answered \in [Rows -> 0..MaxAttempts]
  /\ drain \in [Replicas -> DrainState]
  /\ \A p \in Replicas : drain[p].left \subseteq drain[p].batch

DurableInv == DrainTypes /\ VerdictsHonest /\ Durable

LEMMA IdleIsDrainState ==
  /\ Idle \in DrainState
  /\ \A pc \in {"idle", "read", "call", "settle", "quarantine", "release"} :
       [Idle EXCEPT !.pc = pc] \in DrainState
  BY DEF Idle, DrainState

LEMMA ClaimIsQueued == Claim \subseteq queued
  BY DEF Claim, Pending

\* Stopping or advancing a drain keeps its type, and the verdicts it holds are
\* those it held or none.
LEMMA StopKeeps ==
  ASSUME DrainTypes, NEW p \in Replicas, NEW again \in BOOLEAN, Stop(p, again)
  PROVE  /\ drain' \in [Replicas -> DrainState]
         /\ \A q \in Replicas : drain'[q].left \subseteq drain'[q].batch
         /\ \A q \in Replicas, r \in Rows :
              drain'[q].verdict[r] \in {drain[q].verdict[r], "none"}
<1>1. drain' \in [Replicas -> DrainState]
  BY IdleIsDrainState DEF Stop, DrainTypes
<1>2. \A q \in Replicas : q # p => drain'[q] = drain[q]
  BY DEF Stop, DrainTypes
<1>3. drain'[p].left = {} /\ \A r \in Rows : drain'[p].verdict[r] = "none"
  BY DEF Stop, DrainTypes, Idle
<1> QED
  BY <1>1, <1>2, <1>3 DEF DrainTypes

LEMMA AdvanceKeeps ==
  ASSUME DrainTypes, NEW p \in Replicas, NEW r \in Rows, NEW more \in BOOLEAN,
         Advance(p, r, more)
  PROVE  /\ drain' \in [Replicas -> DrainState]
         /\ \A q \in Replicas : drain'[q].left \subseteq drain'[q].batch
         /\ \A q \in Replicas, x \in Rows :
              drain'[q].verdict[x] \in {drain[q].verdict[x], "none"}
<1>1. CASE drain[p].left = {r}
  BY <1>1, StopKeeps DEF Advance
<1>2. CASE drain[p].left # {r}
  <2>1. drain' = [drain EXCEPT ![p] =
                   [drain[p] EXCEPT !.pc = "settle", !.left = @ \ {r}, !.more = more]]
    BY <1>2 DEF Advance
  <2>2. [drain[p] EXCEPT !.pc = "settle", !.left = @ \ {r}, !.more = more] \in DrainState
    BY DEF DrainTypes, DrainState
  <2> QED
    BY <2>1, <2>2 DEF DrainTypes, DrainState
<1> QED
  BY <1>1, <1>2

\* The plane's answer to one op of a live request.
LEMMA PlaneStepKeeps ==
  ASSUME DurableInv, NEW p \in Replicas, PlaneStep(p)
  PROVE  DurableInv'
<1>1. PICK r \in Unasked(drain[p]), v \in Verdicts :
        /\ ApplyOne(r, v)
        /\ drain' = [drain EXCEPT ![p].verdict =
             [q \in Rows |-> IF q = r THEN v
                             ELSE IF Halts(v) /\ q \in Unasked(drain[p]) THEN "skipped"
                             ELSE drain[p].verdict[q]]]
  BY DEF PlaneStep
<1> DEFINE given == [q \in Rows |-> IF q = r THEN v
                             ELSE IF Halts(v) /\ q \in Unasked(drain[p]) THEN "skipped"
                             ELSE drain[p].verdict[q]]
<1>2. drain[p] \in DrainState /\ r \in Rows
  BY DEF DurableInv, DrainTypes, Unasked, DrainState
<1>3. given \in [Rows -> Verdicts \cup {"none", "skipped"}]
  BY <1>2 DEF DrainState
<1>4. drain' = [drain EXCEPT ![p] = [drain[p] EXCEPT !.verdict = given]]
  BY <1>1
<1>5. [drain[p] EXCEPT !.verdict = given] \in DrainState
  BY <1>2, <1>3 DEF DrainState
<1>6. /\ drain' \in [Replicas -> DrainState]
      /\ drain'[p].verdict = given /\ drain'[p].left = drain[p].left
      /\ drain'[p].batch = drain[p].batch
      /\ \A q \in Replicas : q # p => drain'[q] = drain[q]
  BY <1>2, <1>4, <1>5 DEF DurableInv, DrainTypes, DrainState
<1>7. landed \subseteq landed' /\ (v = "landed" => r \in landed')
  BY <1>1 DEF ApplyOne
<1>8. \A x \in Rows : given[x] = "landed" => drain[p].verdict[x] = "landed" \/ x \in landed'
  BY <1>7
<1>9. VerdictsHonest'
  BY <1>6, <1>7, <1>8 DEF DurableInv, VerdictsHonest
<1>10. answered' \in [Rows -> 0..MaxAttempts]
  <2>1. \A n \in 0..MaxAttempts : Min2(n + 1, MaxAttempts) \in 0..MaxAttempts
    BY OutboxAssumption DEF Min2
  <2> QED
    BY <1>1, <1>2, <2>1 DEF ApplyOne, DurableInv, DrainTypes
<1>11. UNCHANGED <<queued, attempts, delivered>>
  BY DEF PlaneStep, table
<1> QED
  BY <1>6, <1>7, <1>9, <1>10, <1>11 DEF DurableInv, DrainTypes, Durable

LEMMA OrphanStepKeeps ==
  ASSUME DurableInv, OrphanStep, orphans \subseteq SUBSET Rows
  PROVE  DurableInv'
<1>1. PICK v \in Verdicts, r \in UNION orphans : ApplyOne(r, v)
  BY DEF OrphanStep
<1>2. r \in Rows /\ landed \subseteq landed'
  BY <1>1 DEF ApplyOne
<1>3. answered' \in [Rows -> 0..MaxAttempts]
  <2>1. \A n \in 0..MaxAttempts : Min2(n + 1, MaxAttempts) \in 0..MaxAttempts
    BY OutboxAssumption DEF Min2
  <2> QED
    BY <1>1, <1>2, <2>1 DEF ApplyOne, DurableInv, DrainTypes
<1>4. UNCHANGED <<queued, attempts, delivered, drain>>
  BY DEF OrphanStep, table
<1> QED
  BY <1>2, <1>3, <1>4 DEF DurableInv, DrainTypes, Durable, VerdictsHonest

\* A step that only settles, stops or advances keeps the invariant.
LEMMA QuietStepKeeps ==
  ASSUME DurableInv, NEW p \in Replicas,
         \/ \E again \in BOOLEAN : Stop(p, again)
         \/ \E r \in Rows, more \in BOOLEAN : Advance(p, r, more),
         queued' = queued, attempts' \in [Rows -> Nat], UNCHANGED plane,
         delivered' \subseteq landed
  PROVE  DurableInv'
<1>1. /\ drain' \in [Replicas -> DrainState]
      /\ \A q \in Replicas : drain'[q].left \subseteq drain'[q].batch
      /\ \A q \in Replicas, r \in Rows : drain'[q].verdict[r] \in {drain[q].verdict[r], "none"}
  BY StopKeeps, AdvanceKeeps DEF DurableInv
<1>2. VerdictsHonest'
  BY <1>1 DEF DurableInv, VerdictsHonest, plane
<1> QED
  BY <1>1, <1>2 DEF DurableInv, DrainTypes, Durable, plane

\* Replacing a drain by Idle at some program counter keeps the invariant.
LEMMA ResetKeeps ==
  ASSUME DurableInv, NEW p \in Replicas,
         NEW pc \in {"idle", "read", "call", "settle", "quarantine", "release"},
         drain' = [drain EXCEPT ![p] = [Idle EXCEPT !.pc = pc]],
         UNCHANGED <<queued, attempts, delivered>>, UNCHANGED plane
  PROVE  DurableInv'
<1>1. drain' \in [Replicas -> DrainState]
  BY IdleIsDrainState DEF DurableInv, DrainTypes
<1>2. \A q \in Replicas : q # p => drain'[q] = drain[q]
  BY DEF DurableInv, DrainTypes
<1>3. drain'[p].left = {} /\ \A r \in Rows : drain'[p].verdict[r] = "none"
  BY DEF DurableInv, DrainTypes, Idle
<1> QED
  BY <1>1, <1>2, <1>3 DEF DurableInv, DrainTypes, VerdictsHonest, Durable, plane

\* Moving a drain's program counter keeps the invariant.
LEMMA MoveKeeps ==
  ASSUME DurableInv, NEW p \in Replicas,
         NEW pc \in {"idle", "read", "call", "settle", "quarantine", "release"},
         drain' = [drain EXCEPT ![p].pc = pc],
         queued' = queued, attempts' \in [Rows -> Nat], delivered' = delivered, UNCHANGED plane
  PROVE  DurableInv'
<1>1. /\ drain' \in [Replicas -> DrainState]
      /\ \A q \in Replicas : /\ drain'[q].verdict = drain[q].verdict
                              /\ drain'[q].left = drain[q].left
                              /\ drain'[q].batch = drain[q].batch
  BY DEF DurableInv, DrainTypes, DrainState
<1> QED
  BY <1>1 DEF DurableInv, DrainTypes, VerdictsHonest, Durable, plane

LEMMA ReadBatchKeeps ==
  ASSUME DurableInv, NEW p \in Replicas, ReadBatch(p)
  PROVE  DurableInv'
<1>1. UNCHANGED <<queued, attempts, delivered>> /\ UNCHANGED plane
  BY DEF ReadBatch, table
<1>2. CASE Claim = {}
  <2>1. drain' = [drain EXCEPT ![p] = [Idle EXCEPT !.pc = "release"]]
    BY <1>2 DEF ReadBatch
  <2> QED
    BY <1>1, <2>1, ResetKeeps
<1>3. CASE Claim # {}
  <2> DEFINE d == [Idle EXCEPT !.pc = "call", !.batch = Claim, !.left = Claim, !.seen = attempts]
  <2>1. drain' = [drain EXCEPT ![p] = d]
    BY <1>3 DEF ReadBatch
  <2>2. Claim \subseteq Rows
    BY ClaimIsQueued DEF DurableInv, DrainTypes
  <2>3. /\ d \in DrainState /\ d.left \subseteq d.batch
        /\ \A r \in Rows : d.verdict[r] = "none"
    BY <2>2 DEF Idle, DrainState, DurableInv, DrainTypes
  <2> HIDE DEF d
  <2>4. /\ drain' \in [Replicas -> DrainState] /\ drain'[p] = d
        /\ \A q \in Replicas : q # p => drain'[q] = drain[q]
    BY <2>1, <2>3 DEF DurableInv, DrainTypes
  <2> QED
    BY <1>1, <2>3, <2>4 DEF DurableInv, DrainTypes, VerdictsHonest, Durable, plane
<1> QED
  BY <1>2, <1>3

LEMMA CountKeeps ==
  ASSUME DurableInv, NEW r \in Rows, attempts' = [attempts EXCEPT ![r] = @ + 1]
  PROVE  attempts' \in [Rows -> Nat]
  BY DEF DurableInv, DrainTypes

\* Every step keeps the invariant: one step of the proof per action.
LEMMA DurableStep ==
  ASSUME DurableInv, orphans \subseteq SUBSET Rows, [Next]_vars
  PROVE  DurableInv'
<1>1. CASE UNCHANGED vars
  BY <1>1 DEF vars, table, plane, DurableInv, DrainTypes, VerdictsHonest, Durable
<1>2. ASSUME NEW r \in Rows, Enqueue(r) PROVE DurableInv'
  BY <1>2 DEF Enqueue, plane, DurableInv, DrainTypes, VerdictsHonest, Durable
<1>3. ASSUME NEW r \in Rows, BackoffEnds(r) PROVE DurableInv'
  BY <1>3 DEF BackoffEnds, plane, DurableInv, DrainTypes, VerdictsHonest, Durable
<1>4. ASSUME NEW r \in Rows, PutBack(r) PROVE DurableInv'
  <2>1. attempts' \in [Rows -> Nat] /\ answered' \in [Rows -> 0..MaxAttempts]
    BY <1>4, OutboxAssumption DEF PutBack, DurableInv, DrainTypes
  <2> QED
    BY <1>4, <2>1 DEF PutBack, DurableInv, DrainTypes, VerdictsHonest, Durable
<1>5. ASSUME NEW p \in Replicas, Start(p) PROVE DurableInv'
  BY <1>5, MoveKeeps DEF Start, table, DurableInv, DrainTypes
<1>6. ASSUME NEW p \in Replicas, ReadBatch(p) PROVE DurableInv'
  BY <1>6, ReadBatchKeeps
<1>7. ASSUME NEW p \in Replicas, PlaneStep(p) PROVE DurableInv'
  BY <1>7, PlaneStepKeeps
<1>8. ASSUME NEW p \in Replicas, Answer(p) PROVE DurableInv'
  BY <1>8, MoveKeeps DEF Answer, table, DurableInv, DrainTypes
<1>9. ASSUME NEW p \in Replicas, CallFails(p) PROVE DurableInv'
  BY <1>9, ResetKeeps DEF CallFails
<1>10. ASSUME NEW p \in Replicas, NEW r \in drain[p].left, MarkDelivered(p, r)
       PROVE  DurableInv'
  <2>1. r \in Rows /\ drain[p].more \in BOOLEAN
    BY DEF DurableInv, DrainTypes, DrainState
  <2>2. r \in landed
    BY <1>10, <2>1 DEF MarkDelivered, Settling, DurableInv, VerdictsHonest
  <2>3. delivered' \subseteq landed
    BY <1>10, <2>2 DEF MarkDelivered, DurableInv, Durable
  <2> QED
    BY <1>10, <2>1, <2>3, QuietStepKeeps DEF MarkDelivered, DurableInv, DrainTypes
<1>11. ASSUME NEW p \in Replicas, NEW r \in drain[p].left, Refuse(p, r)
       PROVE  DurableInv'
  <2>1. r \in Rows
    BY DEF DurableInv, DrainTypes, DrainState
  <2>2. attempts' \in [Rows -> Nat]
    BY <1>11, <2>1, CountKeeps DEF Refuse
  <2> QED
    BY <1>11, <2>2, MoveKeeps DEF Refuse
<1>12. ASSUME NEW p \in Replicas, NEW r \in drain[p].left, Retry(p, r)
       PROVE  DurableInv'
  <2>1. r \in Rows
    BY DEF DurableInv, DrainTypes, DrainState
  <2>2. attempts' \in [Rows -> Nat] /\ delivered' \subseteq landed
    BY <1>12, <2>1, CountKeeps DEF Retry, DurableInv, Durable
  <2>3. CASE drain[p].seen[r] + 1 < MaxAttempts
    BY <1>12, <2>2, <2>3, QuietStepKeeps DEF Retry
  <2>4. CASE ~ (drain[p].seen[r] + 1 < MaxAttempts)
    BY <1>12, <2>2, <2>4, MoveKeeps DEF Retry
  <2> QED
    BY <2>3, <2>4
<1>13. ASSUME NEW p \in Replicas, NEW r \in drain[p].left, Quarantine(p, r)
       PROVE  DurableInv'
  <2>1. r \in Rows /\ (drain[p].more \/ drain[p].verdict[r] = "retry") \in BOOLEAN
    BY DEF DurableInv, DrainTypes, DrainState
  <2> QED
    BY <1>13, <2>1, QuietStepKeeps DEF Quarantine, DurableInv, DrainTypes, Durable
<1>14. ASSUME NEW p \in Replicas, NEW r \in drain[p].left, Hold(p, r)
       PROVE  DurableInv'
  BY <1>14, QuietStepKeeps DEF Hold, DurableInv, DrainTypes, Durable
<1>15. ASSUME NEW p \in Replicas, NEW r \in drain[p].left, Skip(p, r)
       PROVE  DurableInv'
  <2>1. drain[p].more \in BOOLEAN
    BY DEF DurableInv, DrainTypes, DrainState
  <2> QED
    BY <1>15, <2>1, QuietStepKeeps DEF Skip, table, DurableInv, DrainTypes, Durable
<1>16. ASSUME NEW p \in Replicas, WriteFails(p) PROVE DurableInv'
  BY <1>16, QuietStepKeeps DEF WriteFails, table, DurableInv, DrainTypes, Durable
<1>17. ASSUME NEW p \in Replicas, Release(p) \/ Crash(p) PROVE DurableInv'
  <2>1. drain' = [drain EXCEPT ![p] = [Idle EXCEPT !.pc = "idle"]]
    BY <1>17 DEF Release, Crash, Idle
  <2> QED
    BY <1>17, <2>1, ResetKeeps DEF Release, Crash, table
<1>18. ASSUME NEW p \in Replicas, LoseSession(p) PROVE DurableInv'
  BY <1>18 DEF LoseSession, table, plane, DurableInv, DrainTypes, VerdictsHonest, Durable
<1>19. CASE OrphanStep
  BY <1>19, OrphanStepKeeps
<1> QED
  BY <1>1, <1>2, <1>3, <1>4, <1>5, <1>6, <1>7, <1>8, <1>9, <1>10, <1>11, <1>12,
     <1>13, <1>14, <1>15, <1>16, <1>17, <1>18, <1>19 DEF Next, Work

\* A request that outlives its caller carries rows of the queue only.
LEMMA OrphansStep ==
  ASSUME DurableInv, orphans \subseteq SUBSET Rows, [Next]_vars
  PROVE  orphans' \subseteq SUBSET Rows
<1>1. \A p \in Replicas : Unasked(drain[p]) \subseteq Rows
  BY DEF Unasked, DurableInv, DrainTypes, DrainState
<1>2. ASSUME NEW p \in Replicas, CallFails(p) \/ Crash(p)
      PROVE  orphans' \subseteq SUBSET Rows
  BY <1>1, <1>2 DEF CallFails, Crash, Abandon
<1>3. CASE OrphanStep
  BY <1>3 DEF OrphanStep
<1>4. CASE UNCHANGED orphans
  BY <1>4
<1> QED
  BY <1>2, <1>3, <1>4 DEF Next, Work, vars, Enqueue, BackoffEnds, PutBack, Start, ReadBatch,
     PlaneStep, Answer, MarkDelivered, Refuse, Retry, Quarantine, Hold, Skip, WriteFails,
     Release, LoseSession

LEMMA InitIsDurable ==
  ASSUME Init PROVE DurableInv /\ orphans \subseteq SUBSET Rows
<1>1. Idle \in DrainState /\ Idle.left = {} /\ \A r \in Rows : Idle.verdict[r] = "none"
  BY IdleIsDrainState DEF Idle
<1> QED
  BY <1>1, OutboxAssumption DEF Init, DurableInv, DrainTypes, VerdictsHonest, Durable

\* A row is marked delivered only after Manhattan has said so: for any queue,
\* any number of replicas, and any crashes, lost answers, lost sessions, failed
\* writes and operator acts.
THEOREM DeliveredMeansLanded == Spec => []Durable
<1>1. Init => DurableInv /\ orphans \subseteq SUBSET Rows
  BY InitIsDurable
<1>2. /\ DurableInv /\ orphans \subseteq SUBSET Rows
      /\ [Next]_vars
      => (DurableInv /\ orphans \subseteq SUBSET Rows)'
  BY DurableStep, OrphansStep
<1> QED
  BY <1>1, <1>2, PTL DEF Spec, DurableInv

-----------------------------------------------------------------------------
(* No drain outlives its lock's session: the drains exclude one another, and *)
(* quarantine has to be earned.                                              *)

\* A session once lost stays lost: lost is a history variable.
LEMMA LostStays ==
  ASSUME [Next]_vars, lost PROVE lost'
  BY DEF Next, Work, vars, Calm, Disturb, Enqueue, BackoffEnds, PutBack, Start, ReadBatch,
     PlaneStep, Answer, MarkDelivered, Refuse, Retry, Quarantine, Hold, Skip, WriteFails,
     CallFails, Release, Crash, LoseSession, OrphanStep

\* The program counters of the drains a step does not touch.
LEMMA ExclusiveStep ==
  ASSUME DurableInv, OneDrain, [Next]_vars
  PROVE  OneDrain'
<1> SUFFICES ASSUME ~ lost', ~ lost, NEW q \in Replicas, drain'[q].pc # "idle"
             PROVE  lock' = q
  BY LostStays DEF OneDrain, Exclusive
<1> USE DEF DurableInv, DrainTypes
<1>1. drain[q].pc # "idle" => lock = q
  BY DEF OneDrain, Exclusive
<1>2. CASE UNCHANGED <<drain, lock>>
  BY <1>1, <1>2
<1>3. ASSUME NEW p \in Replicas, Start(p) PROVE lock' = q
  <2>1. q # p => drain'[q] = drain[q]
    BY <1>3 DEF Start
  <2> QED
    BY <1>1, <1>3, <2>1, OutboxAssumption DEF Start
<1>4. ASSUME NEW p \in Replicas, drain[p].pc # "idle", lock' = lock,
             q # p => drain'[q] = drain[q]
      PROVE  lock' = q
  BY <1>1, <1>4 DEF OneDrain, Exclusive
<1>5. ASSUME NEW p \in Replicas, Release(p) \/ Crash(p) PROVE lock' = q
  <2>1. drain' = [drain EXCEPT ![p] = Idle] /\ drain[p].pc # "idle"
    BY <1>5 DEF Release, Crash
  <2>2. q # p
    BY <2>1 DEF Idle
  <2>3. lock = p /\ drain[q].pc # "idle"
    BY <2>1, <2>2 DEF OneDrain, Exclusive
  <2> QED
    BY <1>1, <2>2, <2>3
<1>6. ASSUME NEW p \in Replicas,
             ReadBatch(p) \/ PlaneStep(p) \/ Answer(p) \/ CallFails(p) \/ WriteFails(p)
      PROVE  lock' = q
  <2>1. drain[p].pc # "idle" /\ lock' = lock
    BY <1>6 DEF ReadBatch, PlaneStep, Answer, CallFails, WriteFails
  <2>2. q # p => drain'[q] = drain[q]
    BY <1>6 DEF ReadBatch, PlaneStep, Answer, CallFails, WriteFails, Stop
  <2> QED
    BY <1>4, <2>1, <2>2
<1>7. ASSUME NEW p \in Replicas, NEW r \in drain[p].left,
             \/ MarkDelivered(p, r) \/ Refuse(p, r) \/ Retry(p, r)
             \/ Quarantine(p, r) \/ Hold(p, r) \/ Skip(p, r)
      PROVE  lock' = q
  <2>1. drain[p].pc # "idle" /\ lock' = lock
    BY <1>7 DEF MarkDelivered, Refuse, Retry, Quarantine, Hold, Skip, Settling
  <2>2. q # p => drain'[q] = drain[q]
    BY <1>7 DEF MarkDelivered, Refuse, Retry, Quarantine, Hold, Skip, Stop, Advance
  <2> QED
    BY <1>4, <2>1, <2>2
<1>8. ASSUME NEW p \in Replicas, LoseSession(p) PROVE FALSE
  BY <1>8 DEF LoseSession
<1>9. ASSUME NEW r \in Rows, Enqueue(r) \/ BackoffEnds(r) \/ PutBack(r) PROVE lock' = q
  BY <1>2, <1>9 DEF Enqueue, BackoffEnds, PutBack
<1>10. CASE OrphanStep
  BY <1>2, <1>10 DEF OrphanStep
<1>11. ASSUME NEW p \in Replicas, Work(p) PROVE lock' = q
  BY <1>5, <1>6, <1>7, <1>11 DEF Work
<1>12. ASSUME NEW p \in Replicas,
              Start(p) \/ CallFails(p) \/ WriteFails(p) \/ Crash(p) \/ LoseSession(p)
       PROVE  lock' = q
  BY <1>3, <1>5, <1>6, <1>8, <1>12
<1>13. CASE UNCHANGED vars
  BY <1>2, <1>13 DEF vars
<1> QED
  BY <1>9, <1>10, <1>11, <1>12, <1>13 DEF Next

LEMMA InitIsExclusive ==
  ASSUME Init PROVE OneDrain
  BY DEF Init, OneDrain, Exclusive, Idle

\* As long as no session is lost, one replica drains at a time, whatever
\* crashes, timeouts and failed writes there are.
THEOREM DrainsExclude == Spec => []OneDrain
<1>1. Init => DurableInv /\ orphans \subseteq SUBSET Rows /\ OneDrain
  BY InitIsDurable, InitIsExclusive
<1>2. /\ DurableInv /\ orphans \subseteq SUBSET Rows /\ OneDrain
      /\ [Next]_vars
      => (DurableInv /\ orphans \subseteq SUBSET Rows /\ OneDrain)'
  BY DurableStep, OrphansStep, ExclusiveStep
<1> QED
  BY <1>1, <1>2, PTL DEF Spec

-----------------------------------------------------------------------------
\* r is still to be settled by p, and p has not counted its verdict.
Uncounted(p, r) ==
  r \in drain[p].left /\ (drain[p].pc # "quarantine" \/ ~ IsFirst(r, drain[p].left))

\* What makes Earned inductive: the attempts on a row never exceed
\* the answers given about it ...
RowsEarned ==
  /\ Earned /\ blocked \subseteq Rows
  /\ \A r \in Rows \ refused : attempts[r] <= answered[r] \/ answered[r] = MaxAttempts

\* ... counting the answer a drain has in hand, and a drain about to quarantine
\* a row has been told often enough.
DrainEarned(p) ==
  /\ drain[p].pc \notin {"call", "settle", "quarantine"} => drain[p].left = {}
  /\ drain[p].left \cap blocked = {}
  /\ \A r \in Rows :
       /\ r \in drain[p].left /\ drain[p].verdict[r] = "refused" => r \in refused
       /\ Uncounted(p, r) => drain[p].seen[r] = attempts[r]
       /\ Uncounted(p, r) /\ drain[p].verdict[r] = "retry" /\ r \notin refused
            => attempts[r] + 1 <= answered[r] \/ answered[r] = MaxAttempts
       /\ drain[p].pc = "quarantine" /\ IsFirst(r, drain[p].left)
            => r \in refused \/ answered[r] = MaxAttempts

EarnedInv == RowsEarned /\ \A p \in Replicas : DrainEarned(p)

\* A drain with nothing left to settle owes nothing.
LEMMA NothingLeft ==
  ASSUME NEW p \in Replicas, drain[p].left = {}
  PROVE  DrainEarned(p)
  BY DEF DrainEarned, Uncounted, IsFirst

\* While p drains, every other replica has nothing left to settle, so a step
\* of p that leaves the rows and p itself in order keeps the invariant.
LEMMA OnlyOneMatters ==
  ASSUME DurableInv, Exclusive, EarnedInv, NEW p \in Replicas, drain[p].pc # "idle",
         \A q \in Replicas : q # p => drain'[q] = drain[q],
         RowsEarned', DrainEarned(p)'
  PROVE  EarnedInv'
<1> SUFFICES ASSUME NEW q \in Replicas, q # p PROVE DrainEarned(q)'
  BY DEF EarnedInv
<1>1. drain[q].pc = "idle"
  BY DEF Exclusive
<1>2. drain[q].left = {}
  BY <1>1 DEF EarnedInv, DrainEarned
<1>3. drain'[q].left = {}
  BY <1>2
<1> QED
  BY <1>3, NothingLeft DEF DrainEarned, Uncounted, IsFirst

LEMMA IdleAgain == Idle = [Idle EXCEPT !.pc = "idle"]
<1>1. Idle \in DrainState /\ Idle.pc = "idle"
  BY IdleIsDrainState DEF Idle
<1>2. \A d \in DrainState : d.pc = "idle" => d = [d EXCEPT !.pc = "idle"]
  BY DEF DrainState
<1> QED
  BY <1>1, <1>2

\* Throwing away what is left of a batch keeps the invariant.
LEMMA StopEarned ==
  ASSUME DurableInv, Exclusive, EarnedInv, NEW p \in Replicas, drain[p].pc # "idle",
         NEW pc \in {"idle", "read", "release"},
         drain' = [drain EXCEPT ![p] = [Idle EXCEPT !.pc = pc]],
         RowsEarned'
  PROVE  EarnedInv'
<1>1. drain'[p].left = {} /\ \A q \in Replicas : q # p => drain'[q] = drain[q]
  BY DEF DurableInv, DrainTypes, Idle
<1>2. DrainEarned(p)'
  BY <1>1 DEF DrainEarned, Uncounted, IsFirst
<1> QED
  BY <1>1, <1>2, OnlyOneMatters

\* So does going past a row that has left the queue.
LEMMA AdvanceEarned ==
  ASSUME DurableInv, Exclusive, EarnedInv, NEW p \in Replicas, drain[p].pc # "idle",
         NEW r \in drain[p].left, NEW more \in BOOLEAN, IsFirst(r, drain[p].left),
         Advance(p, r, more), RowsEarned', blocked' \subseteq blocked \cup {r},
         UNCHANGED <<attempts, answered, refused>>
  PROVE  EarnedInv'
<1>1. CASE drain[p].left = {r}
  <2>1. PICK pc \in {"read", "release"} : drain' = [drain EXCEPT ![p] = [Idle EXCEPT !.pc = pc]]
    BY <1>1 DEF Advance, Stop
  <2> QED
    BY <2>1, StopEarned
<1>2. CASE drain[p].left # {r}
  <2>1. /\ drain'[p].pc = "settle" /\ drain'[p].left = drain[p].left \ {r}
        /\ drain'[p].seen = drain[p].seen /\ drain'[p].verdict = drain[p].verdict
        /\ \A q \in Replicas : q # p => drain'[q] = drain[q]
    BY <1>2 DEF Advance, DurableInv, DrainTypes, DrainState
  <2>2. drain[p].left \subseteq Rows /\ Rows \subseteq Nat
    BY OutboxAssumption DEF DurableInv, DrainTypes, DrainState
  <2>3. DrainEarned(p)
    BY DEF EarnedInv
  <2>4. \A x \in Rows : Uncounted(p, x)' => Uncounted(p, x)
    <3> SUFFICES ASSUME NEW x \in Rows, x \in drain[p].left, x # r
                 PROVE  ~ IsFirst(x, drain[p].left)
      BY <2>1 DEF Uncounted
    <3>1. r \in Nat /\ x \in Nat
      BY <2>2
    <3> QED
      BY <3>1 DEF IsFirst
  <2>5. drain'[p].left \cap blocked' = {}
    BY <2>1, <2>3 DEF DrainEarned
  <2>6. DrainEarned(p)'
    BY <2>1, <2>3, <2>4, <2>5 DEF DrainEarned
  <2> QED
    BY <2>1, <2>6, OnlyOneMatters
<1> QED
  BY <1>1, <1>2

\* An answer of the plane only adds to what has been answered and refused.
LEMMA AnswersGrow ==
  ASSUME DurableInv, NEW r \in Rows, NEW v \in Verdicts, ApplyOne(r, v)
  PROVE  /\ refused \subseteq refused' /\ (v = "refused" => r \in refused')
         /\ \A x \in Rows : /\ answered[x] <= answered'[x] /\ answered'[x] \in 0..MaxAttempts
                            /\ answered[x] \in 0..MaxAttempts
                            /\ answered[x] = MaxAttempts => answered'[x] = MaxAttempts
         /\ v = "retry" => answered'[r] = answered[r] + 1 \/ answered'[r] = MaxAttempts
<1>1. \A n \in 0..MaxAttempts :
        /\ Min2(n + 1, MaxAttempts) \in n..MaxAttempts
        /\ Min2(n + 1, MaxAttempts) \in {n + 1, MaxAttempts}
  BY OutboxAssumption DEF Min2
<1>2. answered \in [Rows -> 0..MaxAttempts]
  BY DEF DurableInv, DrainTypes
<1>3. \A x \in Rows : answered'[x] \in {answered[x], Min2(answered[x] + 1, MaxAttempts)}
  BY <1>2 DEF ApplyOne
<1>4. v = "retry" => answered'[r] = Min2(answered[r] + 1, MaxAttempts)
  BY <1>2 DEF ApplyOne
<1>5. ASSUME NEW x \in Rows
      PROVE  /\ answered[x] <= answered'[x] /\ answered'[x] \in 0..MaxAttempts
             /\ answered[x] \in 0..MaxAttempts
             /\ answered[x] = MaxAttempts => answered'[x] = MaxAttempts
  <2>1. answered[x] \in 0..MaxAttempts
    BY <1>2
  <2> QED
    BY <1>1, <1>3, <2>1, OutboxAssumption
<1> QED
  BY <1>1, <1>2, <1>4, <1>5 DEF ApplyOne

\* Rows the drains do not touch stay earned when answers are only added.
LEMMA RowsStayEarned ==
  ASSUME DurableInv, EarnedInv, NEW r \in Rows, NEW v \in Verdicts, ApplyOne(r, v),
         UNCHANGED <<attempts, blocked>>
  PROVE  RowsEarned'
<1>1. attempts \in [Rows -> Nat]
  BY DEF DurableInv, DrainTypes
<1>2. \A x \in Rows \ refused' : attempts[x] <= answered'[x] \/ answered'[x] = MaxAttempts
  <2> SUFFICES ASSUME NEW x \in Rows \ refused'
               PROVE  attempts[x] <= answered'[x] \/ answered'[x] = MaxAttempts
    OBVIOUS
  <2>1. attempts[x] <= answered[x] \/ answered[x] = MaxAttempts
    BY AnswersGrow DEF EarnedInv, RowsEarned
  <2>2. /\ answered[x] <= answered'[x] /\ answered'[x] \in Nat /\ answered[x] \in Nat
        /\ answered[x] = MaxAttempts => answered'[x] = MaxAttempts
    BY AnswersGrow, OutboxAssumption
  <2> QED
    BY <1>1, <2>1, <2>2
<1>3. \A x \in blocked : x \in refused' \/ answered'[x] >= MaxAttempts
  BY AnswersGrow, OutboxAssumption DEF EarnedInv, RowsEarned, Earned
<1> QED
  BY <1>2, <1>3 DEF EarnedInv, RowsEarned, Earned
\* The plane's answer to the drain that is asking.
LEMMA PlaneStepEarned ==
  ASSUME DurableInv, Exclusive, EarnedInv, NEW p \in Replicas, PlaneStep(p)
  PROVE  EarnedInv'
<1>1. PICK r \in Unasked(drain[p]), v \in Verdicts :
        /\ ApplyOne(r, v)
        /\ drain' = [drain EXCEPT ![p].verdict =
             [q \in Rows |-> IF q = r THEN v
                             ELSE IF Halts(v) /\ q \in Unasked(drain[p]) THEN "skipped"
                             ELSE drain[p].verdict[q]]]
  BY DEF PlaneStep
<1>2. drain[p] \in DrainState /\ r \in Rows
  BY DEF DurableInv, DrainTypes, Unasked, DrainState
<1>3. drain[p].pc = "call" /\ UNCHANGED <<attempts, blocked>>
  BY DEF PlaneStep, table
<1>4. /\ drain'[p].pc = "call" /\ drain'[p].left = drain[p].left
      /\ drain'[p].seen = drain[p].seen
      /\ \A x \in Rows : \/ x = r /\ drain'[p].verdict[x] = v
                         \/ drain'[p].verdict[x] \in {"skipped", drain[p].verdict[x]}
      /\ \A q \in Replicas : q # p => drain'[q] = drain[q]
  BY <1>1, <1>2, <1>3 DEF DurableInv, DrainTypes, DrainState
<1>5. RowsEarned'
  BY <1>1, <1>2, <1>3, RowsStayEarned
<1>6. DrainEarned(p)'
  <2>1. /\ refused \subseteq refused' /\ (v = "refused" => r \in refused')
        /\ v = "retry" => answered'[r] = answered[r] + 1 \/ answered'[r] = MaxAttempts
        /\ \A x \in Rows : /\ answered[x] <= answered'[x] /\ answered[x] \in Nat
                           /\ answered'[x] \in Nat
                           /\ answered[x] = MaxAttempts => answered'[x] = MaxAttempts
    BY <1>1, <1>2, AnswersGrow, OutboxAssumption
  <2>2. attempts \in [Rows -> Nat]
    BY DEF DurableInv, DrainTypes
  <2>3. ASSUME NEW x \in Rows, x \in drain[p].left, drain'[p].verdict[x] = "refused"
        PROVE  x \in refused'
    BY <1>4, <2>1, <2>3 DEF EarnedInv, DrainEarned
  <2>4. \A x \in Rows : Uncounted(p, x)' => Uncounted(p, x)
    BY <1>3, <1>4 DEF Uncounted
  <2>5. ASSUME NEW x \in Rows, Uncounted(p, x), drain'[p].verdict[x] = "retry", x \notin refused'
        PROVE  attempts[x] + 1 <= answered'[x] \/ answered'[x] = MaxAttempts
    <3>1. CASE x = r /\ v = "retry"
      <4>1. attempts[r] <= answered[r] \/ answered[r] = MaxAttempts
        BY <1>2, <2>1, <2>5, <3>1 DEF EarnedInv, RowsEarned
      <4> QED
        BY <1>2, <2>1, <2>2, <3>1, <4>1
    <3>2. CASE drain[p].verdict[x] = "retry"
      <4>1. attempts[x] + 1 <= answered[x] \/ answered[x] = MaxAttempts
        BY <2>1, <2>5, <3>2 DEF EarnedInv, DrainEarned
      <4> QED
        BY <2>1, <2>2, <4>1
    <3> QED
      BY <1>4, <2>5, <3>1, <3>2
  <2> QED
    BY <1>3, <1>4, <2>3, <2>4, <2>5 DEF EarnedInv, DrainEarned
<1> QED
  BY <1>3, <1>4, <1>5, <1>6, OnlyOneMatters

\* Counting a row's "not yet" pays for the quarantine it may lead to.
LEMMA RetryEarned ==
  ASSUME DurableInv, Exclusive, EarnedInv, NEW p \in Replicas, NEW r \in drain[p].left,
         Retry(p, r) \/ Refuse(p, r)
  PROVE  EarnedInv'
<1>1. /\ drain[p].pc = "settle" /\ IsFirst(r, drain[p].left)
      /\ attempts' = [attempts EXCEPT ![r] = @ + 1]
      /\ UNCHANGED <<answered, refused, blocked>>
  BY DEF Retry, Refuse, Settling, plane
<1>2. /\ drain[p] \in DrainState /\ r \in Rows /\ drain[p].left \subseteq Rows
      /\ attempts \in [Rows -> Nat] /\ answered \in [Rows -> 0..MaxAttempts]
  BY DEF DurableInv, DrainTypes, DrainState
<1>3. drain[p].seen[r] = attempts[r] /\ Uncounted(p, r)
  BY <1>1, <1>2 DEF EarnedInv, DrainEarned, Uncounted
<1>4. r \in refused \/ attempts[r] + 1 <= answered[r] \/ answered[r] = MaxAttempts
  BY <1>2, <1>3 DEF EarnedInv, DrainEarned, Retry, Refuse, Settling
<1>5. RowsEarned'
  BY <1>1, <1>2, <1>4 DEF EarnedInv, RowsEarned, Earned
<1>6. CASE drain' = [drain EXCEPT ![p].pc = "quarantine"]
  <2>1. r \in refused \/ answered[r] = MaxAttempts
    <3>1. CASE Refuse(p, r)
      BY <1>2, <3>1 DEF Refuse, Settling, EarnedInv, DrainEarned
    <3>2. CASE Retry(p, r) /\ ~ attempts[r] + 1 < MaxAttempts
      BY <1>2, <1>4, <3>2, OutboxAssumption
    <3>3. CASE Retry(p, r) /\ attempts[r] + 1 < MaxAttempts
      <4>1. Stop(p, FALSE)
        BY <1>3, <3>3 DEF Retry
      <4>2. drain'[p].pc = "release"
        BY <4>1 DEF Stop, Idle, DurableInv, DrainTypes
      <4>3. drain'[p].pc = "quarantine"
        BY <1>2, <1>6 DEF DurableInv, DrainTypes, DrainState
      <4> QED
        BY <4>2, <4>3
    <3> QED
      BY <3>1, <3>2, <3>3
  <2>2. /\ drain'[p].pc = "quarantine" /\ drain'[p].left = drain[p].left
        /\ drain'[p].seen = drain[p].seen /\ drain'[p].verdict = drain[p].verdict
        /\ \A q \in Replicas : q # p => drain'[q] = drain[q]
    BY <1>2, <1>6 DEF DurableInv, DrainTypes, DrainState
  <2>3. \A x \in Rows : Uncounted(p, x)' => Uncounted(p, x) /\ x # r
    BY <1>1, <2>2 DEF Uncounted
  <2>4. \A x \in Rows : x # r => attempts'[x] = attempts[x]
    BY <1>1, <1>2
  <2>5. \A x \in Rows : IsFirst(x, drain[p].left) => x = r
    <3>1. \A x \in Rows : x \in Int
      BY OutboxAssumption
    <3> QED
      BY <1>1, <1>2, <3>1 DEF IsFirst
  <2>6. DrainEarned(p)'
    BY <1>1, <2>1, <2>2, <2>3, <2>4, <2>5 DEF EarnedInv, DrainEarned
  <2> QED
    BY <1>1, <1>5, <2>2, <2>6, OnlyOneMatters
<1>7. CASE Stop(p, FALSE)
  BY <1>1, <1>5, <1>7, StopEarned DEF Stop
<1> QED
  BY <1>6, <1>7 DEF Retry, Refuse

\* Claiming a batch: nothing quarantined, nothing answered yet.
LEMMA ReadBatchEarned ==
  ASSUME DurableInv, Exclusive, EarnedInv, NEW p \in Replicas, ReadBatch(p)
  PROVE  EarnedInv'
<1>1. drain[p].pc = "read" /\ UNCHANGED <<attempts, answered, refused, blocked>>
  BY DEF ReadBatch, table, plane
<1>2. RowsEarned'
  BY <1>1 DEF EarnedInv, RowsEarned, Earned
<1>3. CASE Claim = {}
  BY <1>1, <1>2, <1>3, StopEarned DEF ReadBatch
<1>4. CASE Claim # {}
  <2>1. /\ drain'[p].pc = "call" /\ drain'[p].left = Claim /\ drain'[p].seen = attempts
        /\ \A x \in Rows : drain'[p].verdict[x] = "none"
        /\ \A q \in Replicas : q # p => drain'[q] = drain[q]
    BY <1>4 DEF ReadBatch, Idle, DurableInv, DrainTypes
  <2>2. Claim \cap blocked = {}
    BY DEF Claim, Pending
  <2>3. DrainEarned(p)'
    BY <1>1, <2>1, <2>2 DEF DrainEarned, Uncounted
  <2> QED
    BY <1>1, <1>2, <2>1, <2>3, OnlyOneMatters
<1> QED
  BY <1>3, <1>4
\* What the drains do of their own accord.
LEMMA WorkEarned ==
  ASSUME DurableInv, Exclusive, EarnedInv, NEW p \in Replicas, Work(p)
  PROVE  EarnedInv'
<1>1. CASE ReadBatch(p)
  BY <1>1, ReadBatchEarned
<1>2. CASE PlaneStep(p)
  BY <1>2, PlaneStepEarned
<1>3. CASE Answer(p)
  <2>1. /\ drain'[p].left = drain[p].left /\ drain'[p].seen = drain[p].seen
        /\ drain'[p].verdict = drain[p].verdict /\ drain'[p].pc = "settle"
        /\ drain[p].pc = "call" /\ \A q \in Replicas : q # p => drain'[q] = drain[q]
        /\ UNCHANGED <<attempts, answered, refused, blocked>>
    BY <1>3 DEF Answer, DurableInv, DrainTypes, DrainState, table, plane
  <2>2. RowsEarned'
    BY <2>1 DEF EarnedInv, RowsEarned, Earned
  <2>3. DrainEarned(p)'
    BY <2>1 DEF EarnedInv, DrainEarned, Uncounted
  <2> QED
    BY <2>1, <2>2, <2>3, OnlyOneMatters
<1>4. CASE Release(p)
  <2>1. drain[p].pc # "idle" /\ UNCHANGED <<attempts, answered, refused, blocked>>
    BY <1>4 DEF Release, table, plane
  <2>2. RowsEarned'
    BY <2>1 DEF EarnedInv, RowsEarned, Earned
  <2>3. Idle = [Idle EXCEPT !.pc = "idle"]
    BY IdleAgain
  <2> QED
    BY <1>4, <2>1, <2>2, <2>3, StopEarned DEF Release
<1>5. ASSUME NEW r \in drain[p].left, Retry(p, r) \/ Refuse(p, r) PROVE EarnedInv'
  BY <1>5, RetryEarned
<1>6. ASSUME NEW r \in drain[p].left, MarkDelivered(p, r) PROVE EarnedInv'
  <2>1. /\ UNCHANGED <<attempts, answered, refused, blocked>> /\ drain[p].pc = "settle"
        /\ IsFirst(r, drain[p].left) /\ Advance(p, r, drain[p].more)
        /\ drain[p].more \in BOOLEAN
    BY <1>6 DEF MarkDelivered, Settling, plane, DurableInv, DrainTypes, DrainState
  <2>2. RowsEarned'
    BY <2>1 DEF EarnedInv, RowsEarned, Earned
  <2> QED
    BY <2>1, <2>2, AdvanceEarned
<1>7. ASSUME NEW r \in drain[p].left, Quarantine(p, r) PROVE EarnedInv'
  <2>1. /\ UNCHANGED <<attempts, answered, refused>> /\ blocked' = blocked \cup {r}
        /\ drain[p].pc = "quarantine" /\ IsFirst(r, drain[p].left)
        /\ (drain[p].more \/ drain[p].verdict[r] = "retry") \in BOOLEAN /\ Advance(p, r, (drain[p].more \/ drain[p].verdict[r] = "retry"))
    BY <1>7 DEF Quarantine, plane, DurableInv, DrainTypes, DrainState
  <2>2. r \in Rows /\ (r \in refused \/ answered[r] = MaxAttempts)
    BY <2>1 DEF EarnedInv, DrainEarned, DurableInv, DrainTypes, DrainState
  <2>3. RowsEarned'
    BY <2>1, <2>2, OutboxAssumption DEF EarnedInv, RowsEarned, Earned
  <2> QED
    BY <2>1, <2>3, AdvanceEarned
<1>8. ASSUME NEW r \in drain[p].left, Hold(p, r) \/ Skip(p, r) PROVE EarnedInv'
  <2>1. /\ UNCHANGED <<attempts, answered, refused, blocked>> /\ drain[p].pc = "settle"
        /\ Stop(p, FALSE) \/ Stop(p, drain[p].more)
    BY <1>8 DEF Hold, Skip, Settling, table, plane
  <2>2. RowsEarned'
    BY <2>1 DEF EarnedInv, RowsEarned, Earned
  <2> QED
    BY <2>1, <2>2, StopEarned DEF Stop
<1> QED
  BY <1>1, <1>2, <1>3, <1>4, <1>5, <1>6, <1>7, <1>8 DEF Work

\* One step of the proof per action.
LEMMA EarnedStep ==
  ASSUME DurableInv, orphans \subseteq SUBSET Rows, Exclusive, EarnedInv, [Next]_vars
  PROVE  EarnedInv'
<1>1. ASSUME UNCHANGED <<attempts, answered, refused, blocked, drain>> PROVE EarnedInv'
  BY <1>1 DEF EarnedInv, RowsEarned, Earned, DrainEarned, Uncounted
<1>2. ASSUME NEW r \in Rows, Enqueue(r) \/ BackoffEnds(r) PROVE EarnedInv'
  BY <1>1, <1>2 DEF Enqueue, BackoffEnds, plane
<1>3. ASSUME NEW r \in Rows, PutBack(r) PROVE EarnedInv'
  <2>1. /\ r \in blocked /\ blocked' = blocked \ {r} /\ drain' = drain
        /\ refused' = refused \ {r}
        /\ attempts' = [attempts EXCEPT ![r] = 0] /\ answered' = [answered EXCEPT ![r] = 0]
    BY <1>3 DEF PutBack
  <2>2. attempts'[r] = 0 /\ answered'[r] = 0
    BY <2>1 DEF DurableInv, DrainTypes
  <2>3. \A x \in Rows : x # r => attempts'[x] = attempts[x] /\ answered'[x] = answered[x]
    BY <2>1 DEF DurableInv, DrainTypes
  <2>4. \A x \in blocked' : x \in Rows \ {r}
    BY <2>1 DEF EarnedInv, RowsEarned
  <2>5. RowsEarned'
    BY <2>1, <2>2, <2>3, <2>4 DEF EarnedInv, RowsEarned, Earned
  <2>6. ASSUME NEW p \in Replicas PROVE DrainEarned(p)'
    <3>1. DrainEarned(p) /\ r \notin drain[p].left
      BY <2>1 DEF EarnedInv, DrainEarned
    <3> QED
      BY <2>1, <2>3, <3>1 DEF DrainEarned, Uncounted, IsFirst
  <2> QED
    BY <2>5, <2>6 DEF EarnedInv
<1>4. ASSUME NEW p \in Replicas, Start(p) PROVE EarnedInv'
  <2>1. /\ drain[p].pc = "idle" /\ drain[p].left = {}
        /\ \A q \in Replicas : /\ drain'[q].left = drain[q].left
                               /\ q # p => drain'[q] = drain[q]
        /\ UNCHANGED <<attempts, answered, refused, blocked>>
    BY <1>4 DEF Start, table, plane, EarnedInv, DrainEarned, DurableInv, DrainTypes, DrainState
  <2>2. RowsEarned'
    BY <2>1 DEF EarnedInv, RowsEarned, Earned
  <2>3. DrainEarned(p)'
    BY <2>1 DEF DrainEarned, Uncounted, IsFirst
  <2>4. ASSUME NEW q \in Replicas, q # p PROVE DrainEarned(q)'
    BY <2>1, <2>4 DEF EarnedInv, DrainEarned, Uncounted
  <2> QED
    BY <2>2, <2>3, <2>4 DEF EarnedInv
<1>5. ASSUME NEW p \in Replicas, CallFails(p) \/ WriteFails(p) \/ Crash(p) PROVE EarnedInv'
  <2>1. /\ UNCHANGED <<attempts, answered, refused, blocked>> /\ drain[p].pc # "idle"
    BY <1>5 DEF CallFails, WriteFails, Crash, table, plane
  <2>2. RowsEarned'
    BY <2>1 DEF EarnedInv, RowsEarned, Earned
  <2>3. Idle = [Idle EXCEPT !.pc = "idle"]
    BY IdleAgain
  <2>4. PICK pc \in {"idle", "read", "release"} :
          drain' = [drain EXCEPT ![p] = [Idle EXCEPT !.pc = pc]]
    BY <1>5, <2>3 DEF CallFails, WriteFails, Crash, Stop
  <2> QED
    BY <2>1, <2>2, <2>4, StopEarned
<1>6. ASSUME NEW p \in Replicas, LoseSession(p) PROVE EarnedInv'
  BY <1>1, <1>6 DEF LoseSession, table, plane
<1>7. CASE OrphanStep
  <2>1. PICK r \in Rows, v \in Verdicts : ApplyOne(r, v)
    BY <1>7 DEF OrphanStep
  <2>2. UNCHANGED <<attempts, blocked, drain>>
    BY <1>7 DEF OrphanStep, table
  <2>3. RowsEarned'
    BY <2>1, <2>2, RowsStayEarned
  <2>4. /\ refused \subseteq refused'
        /\ \A x \in Rows : /\ answered[x] <= answered'[x] /\ answered[x] \in Nat
                           /\ answered'[x] \in Nat
                           /\ answered[x] = MaxAttempts => answered'[x] = MaxAttempts
    BY <2>1, AnswersGrow, OutboxAssumption
  <2>5. attempts \in [Rows -> Nat]
    BY DEF DurableInv, DrainTypes
  <2>6. \A x \in Rows : attempts[x] + 1 <= answered[x] \/ answered[x] = MaxAttempts
                          => attempts[x] + 1 <= answered'[x] \/ answered'[x] = MaxAttempts
    BY <2>4, <2>5
  <2>7. ASSUME NEW p \in Replicas PROVE DrainEarned(p)'
    BY <2>2, <2>4, <2>6 DEF EarnedInv, DrainEarned, Uncounted
  <2> QED
    BY <2>3, <2>7 DEF EarnedInv
<1>8. ASSUME NEW p \in Replicas, Work(p) PROVE EarnedInv'
  BY <1>8, WorkEarned
<1>9. CASE UNCHANGED vars
  BY <1>1, <1>9 DEF vars, table, plane
<1> QED
  BY <1>2, <1>3, <1>4, <1>5, <1>6, <1>7, <1>8, <1>9 DEF Next

LEMMA InitIsEarned ==
  ASSUME Init PROVE EarnedInv
<1>1. \A p \in Replicas : drain[p].left = {}
  BY DEF Init, Idle
<1>2. RowsEarned
  BY DEF Init, RowsEarned, Earned
<1> QED
  BY <1>1, <1>2, NothingLeft DEF EarnedInv

\* As long as no session is lost, only a refusal or maxAttempts answers put a
\* row in quarantine: never an outage, a fault, a failed write or a replay.
THEOREM QuarantineIsEarned == Spec => []QuarantineEarned
<1> DEFINE Inv == /\ DurableInv /\ orphans \subseteq SUBSET Rows /\ OneDrain
                  /\ lost \/ EarnedInv
<1>1. Init => Inv
  BY InitIsDurable, InitIsExclusive, InitIsEarned
<1>2. Inv /\ [Next]_vars => Inv'
  BY DurableStep, OrphansStep, ExclusiveStep, EarnedStep, LostStays DEF OneDrain
<1>3. Inv => QuarantineEarned
  BY DEF EarnedInv, RowsEarned, QuarantineEarned
<1> HIDE DEF Inv
<1> QED
  BY <1>1, <1>2, <1>3, PTL DEF Spec
-----------------------------------------------------------------------------
(* A row leaves the queue one way. *)

\* What is delivered is neither in quarantine nor still to be settled by a drain.
FateInv ==
  /\ delivered \cap blocked = {}
  /\ \A p \in Replicas : drain[p].left \cap delivered = {}

\* A step that takes nothing out of the queue, and gives no drain more to settle.
LEMMA FateUntouched ==
  ASSUME FateInv, delivered' = delivered, blocked' \subseteq blocked,
         \A q \in Replicas : drain'[q].left \subseteq drain[q].left
  PROVE  FateInv'
  BY DEF FateInv

\* What is left of the batch of the drain that settles r, and of all others.
LEMMA AdvanceLeaves ==
  ASSUME DurableInv, Exclusive, EarnedInv, NEW p \in Replicas, drain[p].pc # "idle",
         NEW r \in drain[p].left, NEW more \in BOOLEAN, Advance(p, r, more)
  PROVE  \A q \in Replicas : drain'[q].left \subseteq drain[q].left \ {r}
<1>1. drain'[p].left \subseteq drain[p].left \ {r}
  BY DEF Advance, Stop, Idle, DurableInv, DrainTypes, DrainState
<1>2. ASSUME NEW q \in Replicas, q # p PROVE drain'[q].left \subseteq drain[q].left \ {r}
  <2>1. drain[q].pc = "idle"
    BY <1>2 DEF Exclusive
  <2>2. drain[q].left = {}
    BY <2>1 DEF EarnedInv, DrainEarned
  <2>3. drain'[q] = drain[q]
    BY <1>2 DEF Advance, Stop, DurableInv, DrainTypes
  <2> QED
    BY <2>2, <2>3
<1> QED
  BY <1>1, <1>2

LEMMA FateStep ==
  ASSUME DurableInv, Exclusive, EarnedInv, FateInv, [Next]_vars
  PROVE  FateInv'
<1> USE DEF DurableInv, DrainTypes
<1>1. CASE UNCHANGED <<delivered, blocked, drain>>
  BY <1>1, FateUntouched
<1>2. ASSUME NEW r \in Rows, Enqueue(r) \/ BackoffEnds(r) \/ PutBack(r) PROVE FateInv'
  BY <1>2, FateUntouched DEF Enqueue, BackoffEnds, PutBack
<1>3. CASE OrphanStep
  BY <1>1, <1>3 DEF OrphanStep, table
<1>4. ASSUME NEW p \in Replicas, LoseSession(p) PROVE FateInv'
  BY <1>1, <1>4 DEF LoseSession, table
<1>5. ASSUME NEW p \in Replicas, ReadBatch(p) PROVE FateInv'
  <2>1. delivered' = delivered /\ blocked' = blocked
    BY <1>5 DEF ReadBatch, table
  <2>2. \A q \in Replicas : drain'[q].left \subseteq drain[q].left \cup Claim
    BY <1>5 DEF ReadBatch, Idle
  <2>3. Claim \cap delivered = {}
    BY DEF Claim, Pending
  <2> QED
    BY <2>1, <2>2, <2>3 DEF FateInv
<1>6. ASSUME NEW p \in Replicas, Start(p) \/ PlaneStep(p) \/ Answer(p) PROVE FateInv'
  <2>1. \A q \in Replicas : drain'[q].left = drain[q].left
    <3>1. Start(p) => \A q \in Replicas : drain'[q].left = drain[q].left
      BY DEF Start, DrainState
    <3>2. Answer(p) => \A q \in Replicas : drain'[q].left = drain[q].left
      BY DEF Answer, DrainState
    <3>3. ASSUME PlaneStep(p) PROVE \A q \in Replicas : drain'[q].left = drain[q].left
      <4>1. PICK f : drain' = [drain EXCEPT ![p].verdict = f]
        BY <3>3 DEF PlaneStep
      <4> QED
        BY <4>1 DEF DrainState
    <3> QED
      BY <1>6, <3>1, <3>2, <3>3
  <2>2. delivered' = delivered /\ blocked' = blocked
    BY <1>6 DEF Start, PlaneStep, Answer, table
  <2> QED
    BY <2>1, <2>2, FateUntouched
<1>7. ASSUME NEW p \in Replicas, CallFails(p) \/ WriteFails(p) \/ Release(p) \/ Crash(p)
      PROVE  FateInv'
  <2>1. \A q \in Replicas : drain'[q].left \subseteq drain[q].left
    BY <1>7 DEF CallFails, WriteFails, Release, Crash, Stop, Idle
  <2>2. delivered' = delivered /\ blocked' = blocked
    BY <1>7 DEF CallFails, WriteFails, Release, Crash, table
  <2> QED
    BY <2>1, <2>2, FateUntouched
<1>8. ASSUME NEW p \in Replicas, NEW r \in drain[p].left,
             Refuse(p, r) \/ Retry(p, r) \/ Hold(p, r) \/ Skip(p, r)
      PROVE  FateInv'
  <2>1. \A q \in Replicas : drain'[q].left \subseteq drain[q].left
    <3>1. ASSUME NEW pc, drain' = [drain EXCEPT ![p].pc = pc]
          PROVE  \A q \in Replicas : drain'[q].left = drain[q].left
      BY <3>1 DEF DrainState
    <3>2. ASSUME NEW again, Stop(p, again)
          PROVE  \A q \in Replicas : drain'[q].left \subseteq drain[q].left
      BY <3>2 DEF Stop, Idle
    <3>3. \/ drain' = [drain EXCEPT ![p].pc = "quarantine"]
          \/ \E again \in BOOLEAN : Stop(p, again)
          \/ Stop(p, drain[p].more)
      BY <1>8 DEF Refuse, Retry, Hold, Skip
    <3> QED
      BY <3>1, <3>2, <3>3
  <2>2. delivered' = delivered /\ blocked' = blocked
    BY <1>8 DEF Refuse, Retry, Hold, Skip, table
  <2> QED
    BY <2>1, <2>2, FateUntouched
<1>9. ASSUME NEW p \in Replicas, NEW r \in drain[p].left, MarkDelivered(p, r) PROVE FateInv'
  <2>1. \A q \in Replicas : drain'[q].left \subseteq drain[q].left \ {r}
    BY <1>9, AdvanceLeaves DEF MarkDelivered, Settling, DrainState
  <2>2. delivered' = delivered \cup {r} /\ blocked' = blocked
    BY <1>9 DEF MarkDelivered
  <2>3. r \notin blocked
    BY DEF EarnedInv, DrainEarned
  <2> QED
    BY <2>1, <2>2, <2>3 DEF FateInv
<1>10. ASSUME NEW p \in Replicas, NEW r \in drain[p].left, Quarantine(p, r) PROVE FateInv'
  <2>1. \A q \in Replicas : drain'[q].left \subseteq drain[q].left \ {r}
    <3>1. (drain[p].more \/ drain[p].verdict[r] = "retry") \in BOOLEAN /\ drain[p].pc # "idle"
      BY <1>10 DEF Quarantine, DrainState
    <3> QED
      BY <1>10, <3>1, AdvanceLeaves DEF Quarantine
  <2>2. delivered' = delivered /\ blocked' = blocked \cup {r}
    BY <1>10 DEF Quarantine
  <2> QED
    BY <2>1, <2>2 DEF FateInv
<1>11. CASE UNCHANGED vars
  BY <1>1, <1>11 DEF vars, table
<1> QED
  BY <1>2, <1>3, <1>4, <1>5, <1>6, <1>7, <1>8, <1>9, <1>10, <1>11 DEF Next, Work

\* As long as no session is lost, no row is both delivered and in quarantine, and no drain
\* that has a row still to settle finds it delivered already: a row leaves the queue one
\* way, although the UPDATE of markDelivered does not look at blocked_at, nor that of
\* markFailed at delivered_at (drain.go).
THEOREM OneWayOut == Spec => [](~ lost => FateInv)
<1> DEFINE Inv == /\ DurableInv /\ orphans \subseteq SUBSET Rows /\ OneDrain
                  /\ lost \/ EarnedInv
                  /\ lost \/ FateInv
<1>1. Init => Inv
  <2>1. Init => FateInv
    BY DEF Init, FateInv
  <2> QED
    BY <2>1, InitIsDurable, InitIsExclusive, InitIsEarned
<1>2. Inv /\ [Next]_vars => Inv'
  BY DurableStep, OrphansStep, ExclusiveStep, EarnedStep, LostStays, FateStep DEF OneDrain
<1>3. Inv => (~ lost => FateInv)
  OBVIOUS
<1> HIDE DEF Inv
<1> QED
  BY <1>1, <1>2, <1>3, PTL DEF Spec
==============================================================================
