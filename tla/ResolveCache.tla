---------------------------- MODULE ResolveCache -----------------------------
(***************************************************************************)
(* One replica's resolution cache (manhattan/src/cache.rs) between the      *)
(* readers that look names up (resolve_one, resolve_batch in main.rs), the *)
(* database whose triggers announce every change that alters a resolution  *)
(* (migration 0009), and the listener that drops what is announced.        *)
(*                                                                         *)
(* A binding is its version: it goes up with every change.  One shard; a   *)
(* name on its own is a batch of one.  An entry past its TTL is a miss: a  *)
(* lookup may miss what is there at any time.                              *)
(***************************************************************************)
EXTENDS Integers, FiniteSets, Sequences

CONSTANTS Names, Readers,
          PerShard,                      \* entries a shard holds
          MaxWrites, MaxReads, Losses    \* bounds: commits, reads begun, connections lost

ASSUME CacheAssumption ==
  PerShard \in Nat \ {0} /\ MaxWrites \in Nat /\ MaxReads \in Nat /\ Losses \in Nat

VARIABLES
  db,        \* the committed version of each name's binding
  entries,   \* the shard's entries, with the moment their read began
  stamps,    \* evicted_at: when a name was last announced
  hearing,
  listener,  \* where listen() is
  inbox,     \* announcements sent to the listener's connection, in commit order
  reader,    \* each reader's lookup
  clock,     \* Instant::now(): it advances when a read begins
  losses,    \* connections lost so far
  cleared    \* history: the moment stamps were last emptied

shard == <<entries, stamps, cleared>>
cacheVars == <<db, entries, stamps, hearing, listener, inbox, reader, clock, losses, cleared>>

NoRead == [pc |-> "idle"]

CacheInit ==
  /\ db = [n \in Names |-> 0] /\ entries = {} /\ stamps = {}
  /\ hearing = FALSE /\ listener = "connecting" /\ inbox = <<>>
  /\ reader = [r \in Readers |-> NoRead]
  /\ clock = 0 /\ losses = 0 /\ cleared = 0

\* The connection exists and LISTENs: what commits now is announced on it.
Connected == listener \in {"listening", "cleared", "hearing", "reconnected"}

Commit(n) ==
  /\ db[n] < MaxWrites
  /\ db' = [db EXCEPT ![n] = @ + 1]
  /\ inbox' = IF Connected THEN Append(inbox, n) ELSE inbox
  /\ UNCHANGED <<shard, hearing, listener, reader, clock, losses>>

-----------------------------------------------------------------------------
\* get misses the names in ns (they are absent, expired, or nobody is hearing):
\* they go to the database in one statement.
Miss(r) ==
  /\ reader[r].pc = "idle" /\ clock < MaxReads
  /\ clock' = clock + 1
  /\ \E ns \in SUBSET Names \ {{}} :
       reader' = [reader EXCEPT ![r] = [pc |-> "asked", names |-> ns, at |-> clock']]
  /\ UNCHANGED <<db, shard, hearing, listener, inbox, losses>>

Read(r) ==
  /\ reader[r].pc = "asked"
  /\ reader' = [reader EXCEPT ![r] =
       [pc |-> "filling", at |-> @.at, found |-> [n \in @.names |-> db[n]]]]
  /\ UNCHANGED <<db, shard, hearing, listener, inbox, clock, losses>>

\* The names of a lookup still to be filled, when n has been.
Rest(r, n) ==
  LET rest == DOMAIN reader[r].found \ {n}
  IN IF rest = {} THEN NoRead
     ELSE [pc |-> "filling", at |-> reader[r].at, found |-> [m \in rest |-> reader[r].found[m]]]

\* fill asks first whether anybody is hearing, before it locks the shard.
AskHearing(r) ==
  /\ reader[r].pc = "filling"
  /\ \E n \in DOMAIN reader[r].found :
       reader' = [reader EXCEPT ![r] =
         IF hearing THEN [pc |-> "storing", at |-> @.at, found |-> @.found, name |-> n]
         ELSE Rest(r, n)]
  /\ UNCHANGED <<db, shard, hearing, listener, inbox, clock, losses>>

\* What it is about to store, and whether the key was announced since the read.
Entry(r) ==
  [name |-> reader[r].name, ver |-> reader[r].found[reader[r].name], read |-> reader[r].at]

Announced(r) == \E s \in stamps : s.name = reader[r].name /\ s.at >= reader[r].at

Others(n) == {e \in entries : e.name # n}

Filled(r) == reader' = [reader EXCEPT ![r] = Rest(r, reader[r].name)]

Store(r) ==
  IF Cardinality(entries) < PerShard
  THEN entries' = Others(reader[r].name) \cup {Entry(r)} /\ UNCHANGED <<stamps, cleared>>
  ELSE entries' = {Entry(r)} /\ stamps' = {} /\ cleared' = clock

\* Mutant of Fill: a fill does not look at the stamps.
FillUnstamped(r) ==
  /\ reader[r].pc = "storing" /\ Filled(r) /\ Store(r)
  /\ UNCHANGED <<db, hearing, listener, inbox, clock, losses>>

\* A fill is refused when its key was announced after its read began; a shard
\* that overflows is emptied first, stamps and all.
Fill(r) ==
  /\ reader[r].pc = "storing" /\ Filled(r)
  /\ \/ Announced(r) /\ UNCHANGED shard
     \/ ~ Announced(r) /\ Store(r)
  /\ UNCHANGED <<db, hearing, listener, inbox, clock, losses>>

-----------------------------------------------------------------------------
Goto(where) == listener' = where

\* evict: too many stamps empty the stamps, but not the entries.
Evict(n) ==
  LET full == Cardinality(stamps) >= PerShard
      kept == IF full THEN {} ELSE {s \in stamps : s.name # n}
  IN /\ entries' = Others(n)
     /\ stamps' = kept \cup {[name |-> n, at |-> clock]}
     /\ cleared' = IF full THEN clock ELSE cleared

Hear ==
  /\ listener = "hearing" /\ inbox # <<>>
  /\ Evict(Head(inbox)) /\ inbox' = Tail(inbox)
  /\ UNCHANGED <<db, hearing, listener, reader, clock, losses>>

Clear == entries' = {} /\ stamps' = {} /\ cleared' = clock

\* The connection goes away; what was sent may be lost from some point on.
Lose ==
  /\ listener = "hearing" /\ losses < Losses
  /\ losses' = losses + 1 /\ Goto("lost")
  /\ \E k \in 0..Len(inbox) : inbox' = SubSeq(inbox, 1, k)
  /\ UNCHANGED <<db, shard, hearing, reader, clock>>

HearLast ==
  /\ listener = "lost" /\ inbox # <<>>
  /\ Evict(Head(inbox)) /\ inbox' = Tail(inbox)
  /\ UNCHANGED <<db, hearing, listener, reader, clock, losses>>

\* Ok(None): "lost and re-established underneath us".
Reconnect ==
  /\ listener = "lost" /\ inbox = <<>> /\ Goto("reconnected")
  /\ UNCHANGED <<db, shard, hearing, inbox, reader, clock, losses>>

ClearReconnected ==
  /\ listener = "reconnected" /\ Clear /\ Goto("hearing")
  /\ UNCHANGED <<db, hearing, inbox, reader, clock, losses>>

\* Err: deaf from here on.
GoDeaf ==
  /\ listener = "lost" /\ inbox = <<>> /\ hearing' = FALSE /\ Goto("deaf")
  /\ UNCHANGED <<db, shard, inbox, reader, clock, losses>>

ClearDeaf ==
  /\ listener = "deaf" /\ Clear /\ Goto("connecting")
  /\ UNCHANGED <<db, hearing, inbox, reader, clock, losses>>

Listen ==
  /\ listener = "connecting" /\ Goto("listening")
  /\ UNCHANGED <<db, shard, hearing, inbox, reader, clock, losses>>

\* "Anything cached before this point was cached while deaf."
ClearListening ==
  /\ listener = "listening" /\ Clear /\ Goto("cleared")
  /\ UNCHANGED <<db, hearing, inbox, reader, clock, losses>>

StartHearing ==
  /\ listener = "cleared" /\ hearing' = TRUE /\ Goto("hearing")
  /\ UNCHANGED <<db, shard, inbox, reader, clock, losses>>

Listening ==
  \/ Hear \/ Lose \/ HearLast \/ Reconnect \/ ClearReconnected \/ GoDeaf \/ ClearDeaf
  \/ Listen \/ ClearListening \/ StartHearing

CacheNext ==
  \/ \E n \in Names : Commit(n)
  \/ \E r \in Readers : Miss(r) \/ Read(r) \/ AskHearing(r) \/ Fill(r)
  \/ Listening

CacheSpec == CacheInit /\ [][CacheNext]_cacheVars

-----------------------------------------------------------------------------
Stored == [name : Names, ver : 0..MaxWrites, read : 1..MaxReads]

TypeOK ==
  /\ db \in [Names -> 0..MaxWrites]
  /\ entries \subseteq Stored /\ Cardinality(entries) <= PerShard
  /\ \A e, f \in entries : e.name = f.name => e = f
  /\ stamps \subseteq [name : Names, at : 0..MaxReads] /\ Cardinality(stamps) <= PerShard
  /\ hearing \in BOOLEAN /\ inbox \in Seq(Names)
  /\ \A r \in Readers : reader[r].pc \in {"idle", "asked", "filling", "storing"}
  /\ clock \in 0..MaxReads /\ losses \in 0..Losses /\ cleared \in 0..clock

\* The revocation of a name is on its way to the listener.
Coming(n) == \E i \in 1..Len(inbox) : inbox[i] = n

\* A cache that hears serves nothing stale: what its stamps can vouch for (a read
\* that began after they were last emptied) is the committed binding, or the
\* announcement that will drop it has been sent ("How it stays right").
VouchedIsFresh ==
  hearing /\ listener = "hearing" =>
    \A e \in entries : e.read > cleared => e.ver = db[e.name] \/ Coming(e.name)
=============================================================================
