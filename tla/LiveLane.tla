------------------------------- MODULE LiveLane -------------------------------
(***************************************************************************)
(* The live lane of the feed engine: the rows of live_streams              *)
(* (internal/db/live.go), the governor that owns the encoding capacity     *)
(* (internal/live/capacity.go), and the hooks, the reconciliation and the  *)
(* moderation block that change both (internal/live/control.go, manager.go *)
(* and scan.go).  A hook is a request of the media server, and its steps   *)
(* interleave with those of every other.                                   *)
(*                                                                         *)
(* Capacity is counted in the governor's two currencies, cores and encoder *)
(* sessions; the cost tables are constants.  A source is what a ladder     *)
(* reports of it: its height, its rate in multiples of thirty frames, and  *)
(* whether its codec and its keyframes let it be passed through.           *)
(***************************************************************************)
EXTENDS Integers, FiniteSets, FiniteSetsExt

CONSTANTS Streams, AuthorOf,        \* streams, and the author of each
          Sources,                  \* what publishers may send
          Ladder, Floor,            \* rung heights, and the lowest source served
          EncodeCost, DecodeCost,   \* cores, at thirty frames a second
          CpuBudget, CardSessions,  \* the two budgets
          MinRung, Nominal,         \* minRungCPU, nominalLadderCPU
          NominalCard,              \* what Reserve holds for a ladder on the card
          MaxLadders,
          CardConfigured, HasCard,  \* LIVE_NVENC_ENABLED, and what the box has
          None,
          MaxEvents, MaxJobs        \* bounds: events, hooks being served

Encoders == {"x264", "nvenc"}

ASSUME LiveLaneAssumption ==
  /\ Sources \subseteq [height : Nat, fps : Nat \ {0}, copies : BOOLEAN]
  /\ Ladder \subseteq Nat /\ IsFiniteSet(Ladder)
  /\ {CpuBudget, CardSessions, MinRung, Nominal, MaxLadders, MaxEvents, MaxJobs} \subseteq Nat
  /\ NominalCard \in [cpu : Nat, sessions : Nat]
  /\ {CardConfigured, HasCard} \subseteq BOOLEAN
  /\ None \notin Sources

VARIABLES
  row,      \* live_streams: the status, scan_state and is_blocked of each stream
  lease,    \* Governor.leases, or NoLease
  card,     \* Governor.nvencEnabled
  misses,   \* Manager.misses
  tickets,  \* the streams with an outstanding publish ticket
  source,   \* what the media server is being sent, or None
  ladder,   \* the ladder process of each stream
  flagged,  \* streams with a sampled frame that is banned, still to be judged
  jobs,     \* requests in progress
  rec,      \* the reconcile loop
  events    \* events so far, bounded by MaxEvents

laneVars == <<row, lease, card, misses, tickets, source, ladder, flagged, jobs, rec, events>>

\* No entry in Governor.leases.
NoLease == [encoder |-> "none"]

Rest == [at |-> "rest", ids |-> {}, freeing |-> {}]

LaneInit ==
  /\ row = [s \in Streams |-> [status |-> "none", scan |-> "pending", blocked |-> FALSE]]
  /\ lease = [s \in Streams |-> NoLease] /\ card = CardConfigured
  /\ misses = [s \in Streams |-> 0] /\ tickets = {}
  /\ source = [s \in Streams |-> None] /\ ladder = [s \in Streams |-> "off"]
  /\ flagged = {} /\ jobs = {} /\ rec = Rest /\ events = 0

Open(s) == row[s].status \in {"idle", "live"}

-----------------------------------------------------------------------------
(* The cost model and the ladder of a source. *)

\* LadderFor: the rungs a source is tall enough for.
LadderFor(src) ==
  IF src.height < Floor THEN {}
  ELSE LET rungs == {h \in Ladder : h <= src.height}
       IN IF rungs = {} THEN {src.height} ELSE rungs

\* The rung a source that can be passed through is copied to: its own height.
Copied(src) == IF src.copies THEN {src.height} ELSE {}

Planned(src) == LadderFor(src) \cup Copied(src)

\* rungCPUCost: a copied rung costs nothing.
RungCost(rungs, copy, enc) == MapThenSumSet(LAMBDA h : EncodeCost[enc][h], rungs \ copy)

\* What the ladder `rungs` of src takes, its decoding included.
Cost(src, rungs, copy, enc) == src.fps * (DecodeCost[src.height] + RungCost(rungs, copy, enc))

ASSUME CostAssumption ==
  \A src \in Sources :
    /\ DecodeCost[src.height] \in Nat
    /\ \A enc \in Encoders, h \in Planned(src) \ Copied(src) : EncodeCost[enc][h] \in Nat

Sessions(rungs, copy, enc) == IF enc = "nvenc" THEN Cardinality(rungs \ copy) ELSE 0

Leases == {s \in Streams : lease[s] # NoLease}

UsedCpu(S) == MapThenSumSet(LAMBDA s : lease[s].cpu, S \cap Leases)

UsedSessions(S) == MapThenSumSet(LAMBDA s : lease[s].sessions, S \cap Leases)

SessionBudget(on) == IF on THEN CardSessions ELSE 0

\* shedIndex: the encoded rungs above the lowest rung.
Sheddable(rungs, copy) == (rungs \ copy) \ {Min(rungs)}

\* What is left when the sheddable rungs from c up are shed.
ShedFrom(rungs, copy, c) == rungs \ {h \in Sheddable(rungs, copy) : h >= c}

\* The shed loop: rungs go from the top until the rest fits, or until no rung
\* is left whose loss would save anything.
Fit(src, rungs, copy, enc, freeCpu, freeSessions) ==
  LET cuts    == {rungs} \cup {ShedFrom(rungs, copy, c) : c \in Sheddable(rungs, copy)}
      fitting == {r \in cuts : /\ Cost(src, r, copy, enc) <= freeCpu
                               /\ Sessions(r, copy, enc) <= freeSessions}
  IN IF fitting = {} THEN rungs \ Sheddable(rungs, copy)
     ELSE CHOOSE r \in fitting : \A q \in fitting : q \subseteq r

-----------------------------------------------------------------------------
(* The governor; each operation holds its mutex throughout. *)

Provisional(enc, cpu, sessions) ==
  [provisional |-> TRUE, encoder |-> enc, cpu |-> cpu, sessions |-> sessions,
   rungs |-> {}, copy |-> {}, degraded |-> FALSE, pressure |-> 0, src |-> None]

\* Reserve: the lease a publish is admitted with, NoLease when it is refused.
Reserved(s) ==
  LET used == UsedCpu(Streams)
  IN IF lease[s] # NoLease THEN lease[s]
     ELSE IF Cardinality(Leases) >= MaxLadders THEN NoLease
     ELSE IF /\ card /\ UsedSessions(Streams) + NominalCard.sessions <= SessionBudget(card)
             /\ used + NominalCard.cpu <= CpuBudget
          THEN Provisional("nvenc", NominalCard.cpu, NominalCard.sessions)
     ELSE IF used + MinRung > CpuBudget THEN NoLease
     ELSE Provisional("x264", Min({Nominal, CpuBudget - used}), 0)

\* observeEncoderCapabilityLocked: the card is given up when s could not open a
\* session and no other ladder is running on it.
CardAfter(s, nvenc) ==
  nvenc \/ (card /\ \E t \in Leases \ {s} : ~lease[t].provisional /\ lease[t].sessions > 0)

\* The rungs s starts from: a reduction already taken stays taken.
KeptRungs(s, src) ==
  IF lease[s] # NoLease /\ lease[s].degraded /\ lease[s].rungs \cap Planned(src) # {}
  THEN lease[s].rungs \cap Planned(src) ELSE Planned(src)

\* Mutant of FreeCpu: s is charged for the lease it is giving up.
FreeCpuChargedTwice(s) == CpuBudget - UsedCpu(Streams)

\* What is free for s: its own lease is about to be replaced.
FreeCpu(s) == CpuBudget - UsedCpu(Streams \ {s})

\* Mutant of FreeSessions: the sessions others hold are not counted.
FreeSessionsUncounted(s, on) == SessionBudget(on)

FreeSessions(s, on) == SessionBudget(on) - UsedSessions(Streams \ {s})

\* Plan: the lease of s once its source is known.
PlanFor(s, src, nvenc) ==
  LET on     == CardAfter(s, nvenc)
      start  == KeptRungs(s, src)
      copy   == start \cap Copied(src)
      need   == Cardinality(start \ copy)
      enc    == IF on /\ nvenc /\ need > 0 /\ need <= FreeSessions(s, on) THEN "nvenc" ELSE "x264"
      fitted == Fit(src, start, copy, enc, FreeCpu(s), FreeSessions(s, on))
      cost   == Cost(src, fitted, copy, enc)
      held   == lease[s] # NoLease
  IN [provisional |-> FALSE, encoder |-> enc, cpu |-> cost,
      sessions |-> Sessions(fitted, copy, enc), rungs |-> fitted, copy |-> copy,
      degraded |-> (held /\ lease[s].degraded /\ start = lease[s].rungs \cap Planned(src))
                     \/ fitted # start \/ cost > FreeCpu(s),
      pressure |-> IF held THEN lease[s].pressure ELSE 0, src |-> src]

\* ReportPressure: the highest encoded rung goes, the top one when none is, and
\* the rest is priced at thirty frames a second.
Pressed(l) ==
  LET encoded == l.rungs \ l.copy
      dropped == IF encoded = {} THEN Max(l.rungs) ELSE Max(encoded)
      rungs   == l.rungs \ {dropped}
      shed    == Cardinality(l.rungs) > 1
  IN [provisional |-> l.provisional, encoder |-> l.encoder, src |-> l.src, pressure |-> l.pressure + 1,
      rungs    |-> IF shed THEN rungs ELSE l.rungs,
      copy     |-> IF shed THEN l.copy \cap rungs ELSE l.copy,
      degraded |-> l.degraded \/ shed,
      cpu      |-> IF shed THEN RungCost(rungs, l.copy, l.encoder) ELSE l.cpu,
      sessions |-> IF shed /\ l.encoder = "nvenc" /\ l.sessions > 0 THEN l.sessions - 1 ELSE l.sessions]

-----------------------------------------------------------------------------
(* Requests in progress. *)

Job(do, s) == [do |-> do, s |-> s, src |-> None, nvenc |-> FALSE, for |-> "hook"]

Event == events < MaxEvents /\ events' = events + 1

Hooks(js) == {j \in js : j.for # "scan"}

Begin(j) == Cardinality(Hooks(jobs)) < MaxJobs /\ jobs' = jobs \cup {j}

Goes(j, next) == j \in jobs /\ jobs' = (jobs \ {j}) \cup next

Rows == <<row, misses, tickets>>
Capacity == <<lease, card>>
Media == <<source, ladder, flagged>>

\* CreateStream: an author has one open stream, under a unique index.
CreateStream(s) ==
  /\ row[s].status = "none" /\ \A t \in Streams : AuthorOf[t] = AuthorOf[s] => ~Open(t)
  /\ row' = [row EXCEPT ![s].status = "idle"]
  /\ UNCHANGED <<lease, card, misses, tickets, Media, jobs, rec, events>>

\* MintPublishTicket, for the author's open stream.
MintPublishTicket(s) ==
  /\ Event /\ Open(s) /\ tickets' = tickets \cup {s}
  /\ UNCHANGED <<row, misses, Capacity, Media, jobs, rec>>

\* A ticket's minute is over.
TicketExpires(s) ==
  /\ s \in tickets /\ tickets' = tickets \ {s}
  /\ UNCHANGED <<row, misses, Capacity, Media, jobs, rec, events>>

\* AuthorizeIngest, for a publisher that has the stream's key.
AuthorizeIngest(s) == Open(s) /\ ~row[s].blocked

\* handleAuth, up to admit: a ticket for the stream, or its key.  A ticket
\* outlives its redemption by the handshake.
Authorize(s) ==
  /\ Event /\ source[s] = None
  /\ s \in tickets \/ AuthorizeIngest(s)
  /\ \E src \in Sources : Begin([Job("reserve", s) EXCEPT !.src = src])
  /\ UNCHANGED <<Rows, Capacity, Media, rec>>

\* admit: the publisher of an admitted stream is let in.
Reserve(j) ==
  /\ j.do = "reserve" /\ Goes(j, {})
  /\ lease' = [lease EXCEPT ![j.s] = Reserved(j.s)]
  /\ source' = [source EXCEPT ![j.s] = IF Reserved(j.s) = NoLease THEN @ ELSE j.src]
  /\ UNCHANGED <<Rows, card, ladder, flagged, rec, events>>

\* handleReady, up to Plan: RecordStreamSource refuses a stream that has ended.
Ready(s) ==
  /\ source[s] # None /\ ladder[s] = "off" /\ Open(s)
  /\ \A j \in jobs : j.do = "plan" => j.s # s
  /\ \E nvenc \in {FALSE, HasCard} :
       Begin([Job("plan", s) EXCEPT !.src = source[s], !.nvenc = nvenc])
  /\ UNCHANGED <<Rows, Capacity, Media, rec, events>>

\* handleReady, Plan: a source below the floor has no ladder and its stream ends.
Plan(j) ==
  /\ j.do = "plan"
  /\ IF LadderFor(j.src) = {}
     THEN /\ Goes(j, {[Job("end", j.s) EXCEPT !.for = "plan"]})
          /\ lease' = [lease EXCEPT ![j.s] = NoLease] /\ UNCHANGED <<card, ladder>>
     ELSE /\ Goes(j, {})
          /\ card' = CardAfter(j.s, j.nvenc)
          /\ lease' = [lease EXCEPT ![j.s] = PlanFor(j.s, j.src, j.nvenc)]
          /\ ladder' = [ladder EXCEPT ![j.s] = IF source[j.s] = j.src THEN "up" ELSE @]
  /\ UNCHANGED <<Rows, source, flagged, rec, events>>

\* Mutant of Playable: the UPDATE has no guard on the status.
PlayableAnyway(s) ==
  /\ ladder[s] = "up" /\ ladder' = [ladder EXCEPT ![s] = "playing"]
  /\ row' = [row EXCEPT ![s].status = "live"]
  /\ UNCHANGED <<misses, tickets, Capacity, source, flagged, jobs, rec, events>>

\* handlePlayable: StartStream, once the first segment is on disk.
Playable(s) ==
  /\ ladder[s] = "up" /\ ladder' = [ladder EXCEPT ![s] = "playing"]
  /\ row' = [row EXCEPT ![s].status = IF Open(s) THEN "live" ELSE @]
  /\ UNCHANGED <<misses, tickets, Capacity, source, flagged, jobs, rec, events>>

\* handlePressure: a ladder that shed a rung is told to restart.
Pressure(s) ==
  /\ Event /\ ladder[s] # "off" /\ lease[s] # NoLease
  /\ lease' = [lease EXCEPT ![s] = Pressed(lease[s])]
  /\ ladder' = [ladder EXCEPT ![s] = IF Cardinality(lease[s].rungs) > 1 THEN "off" ELSE @]
  /\ UNCHANGED <<Rows, card, source, flagged, jobs, rec>>

\* Mutant of EndStream: the capacity is given back before the row is closed.
EndStreamLast(j) ==
  /\ j.do = "end" /\ row[j.s].status # "none"
  /\ Goes(j, {}) /\ lease' = [lease EXCEPT ![j.s] = NoLease]
  /\ UNCHANGED <<Rows, card, Media, rec, events>>

\* EndStream, and then Release.
EndStream(j) ==
  /\ j.do = "end" /\ row[j.s].status # "none"
  /\ Goes(j, IF j.for = "plan" THEN {} ELSE {[j EXCEPT !.do = "release"]})
  /\ row' = [row EXCEPT ![j.s].status = "ended"]
  /\ UNCHANGED <<misses, tickets, Capacity, Media, rec, events>>

Release(j) ==
  /\ j.do = "release" /\ Goes(j, {})
  /\ lease' = [lease EXCEPT ![j.s] = NoLease]
  /\ flagged' = IF j.for = "scan" THEN flagged \ {j.s} ELSE flagged
  /\ UNCHANGED <<Rows, card, source, ladder, rec, events>>

\* liveEndHandler: the author, or an administrator, ends the broadcast.
EndByAuthor(s) ==
  /\ Event /\ Open(s)
  /\ row' = [row EXCEPT ![s].status = "ended"]
  /\ UNCHANGED <<misses, tickets, Capacity, Media, jobs, rec>>

-----------------------------------------------------------------------------
(* The media server. *)

\* The publisher of s is gone and its ladder with it; the not-ready hook that
\* says so may be lost.
Drops(s, others) ==
  /\ source' = [source EXCEPT ![s] = None] /\ ladder' = [ladder EXCEPT ![s] = "off"]
  /\ \/ jobs' = others
     \/ Cardinality(Hooks(others)) < MaxJobs /\ jobs' = others \cup {Job("end", s)}

PublisherLeaves(s) ==
  /\ Event /\ source[s] # None /\ Drops(s, jobs)
  /\ UNCHANGED <<Rows, Capacity, flagged, rec>>

\* The ladder process exits and is started again.
LadderExits(s) ==
  /\ Event /\ ladder[s] # "off" /\ ladder' = [ladder EXCEPT ![s] = "off"]
  /\ UNCHANGED <<Rows, Capacity, source, flagged, jobs, rec>>

\* A sampled frame is on the list of banned hashes.
FrameFlagged(s) ==
  /\ Event /\ ladder[s] = "playing" /\ flagged' = flagged \cup {s}
  /\ UNCHANGED <<Rows, Capacity, source, ladder, jobs, rec>>

-----------------------------------------------------------------------------
(* The scanner, one goroutine, and BlockStream. *)

\* sweepStream reaches the frame, which is kept until BlockStream succeeds.
Sweep(s) ==
  /\ s \in flagged /\ \A j \in jobs : j.for # "scan"
  /\ jobs' = jobs \cup {[Job(IF row[s].scan = "blocked" THEN "kick" ELSE "scan", s) EXCEPT !.for = "scan"]}
  /\ UNCHANGED <<Rows, Capacity, Media, rec, events>>

\* SetStreamScanState: two UPDATEs, each on its own.
SetStreamScanState(j) ==
  /\ j.do = "scan" /\ Goes(j, {[j EXCEPT !.do = "mark"]})
  /\ row' = [row EXCEPT ![j.s].scan = "blocked"]
  /\ UNCHANGED <<misses, tickets, Capacity, Media, rec, events>>

MarkBlocked(j) ==
  /\ j.do = "mark" /\ Goes(j, {[j EXCEPT !.do = "kick"]})
  /\ row' = [row EXCEPT ![j.s].blocked = TRUE]
  /\ UNCHANGED <<misses, tickets, Capacity, Media, rec, events>>

\* Mutant of KickPublisher: a block that could not kick is taken for done.
KickPublisherOnce(j) ==
  /\ j.do = "kick"
  /\ \/ Event /\ Goes(j, {}) /\ flagged' = flagged \ {j.s} /\ UNCHANGED <<source, ladder>>
     \/ j \in jobs /\ Drops(j.s, (jobs \ {j}) \cup {[j EXCEPT !.do = "end"]}) /\ UNCHANGED <<events, flagged>>
  /\ UNCHANGED <<Rows, Capacity, rec>>

\* KickPublisher; the media server may refuse, which abandons the block.
KickPublisher(j) ==
  /\ j.do = "kick"
  /\ \/ source[j.s] = None /\ Goes(j, {[j EXCEPT !.do = "end"]}) /\ UNCHANGED <<source, ladder, events>>
     \/ /\ j \in jobs /\ source[j.s] # None
        /\ Drops(j.s, (jobs \ {j}) \cup {[j EXCEPT !.do = "end"]}) /\ events' = events
     \/ Event /\ Goes(j, {}) /\ UNCHANGED <<source, ladder>>
  /\ UNCHANGED <<Rows, Capacity, flagged, rec>>

-----------------------------------------------------------------------------
(* reconcile, one goroutine. *)

Reconciling == <<tickets, Capacity, Media, jobs>>

\* ListLiveStreamIDs; the media server is not asked when nothing is live.
ListLive ==
  /\ rec.at = "rest"
  /\ LET live == {s \in Streams : row[s].status = "live"}
     IN rec' = [Rest EXCEPT !.at = IF live = {} THEN "orphans" ELSE "media", !.ids = live]
  /\ UNCHANGED <<row, misses, events, Reconciling>>

\* Mutant of CountMisses: a stream that comes back keeps its misses, and one
\* that is missed starts over.
CountMissesOfTheLive ==
  /\ rec.at = "media"
  /\ misses' = misses /\ rec' = [rec EXCEPT !.at = "orphans", !.ids = {}]
  /\ UNCHANGED <<row, events, Reconciling>>

\* PublishingIDs and the count of misses: the second in a row ends a stream.
CountMisses ==
  /\ rec.at = "media"
  /\ LET gone == {s \in rec.ids : source[s] = None}
     IN /\ misses' = [s \in Streams |-> IF s \notin rec.ids THEN misses[s]
                                        ELSE IF s \in gone THEN 1 - misses[s] ELSE 0]
        /\ rec' = [rec EXCEPT !.at = "orphans", !.ids = {s \in gone : misses[s] = 1}]
  /\ UNCHANGED <<row, events, Reconciling>>

\* The media server does not answer: nobody is ended.
MediaUnknown ==
  /\ rec.at = "media" /\ Event /\ rec' = Rest
  /\ UNCHANGED <<row, misses, Reconciling>>

\* EndStream and Release, for one orphan or stale stream after another.
EndOrphan(s) ==
  /\ s \in rec.ids /\ rec.at \in {"orphans", "stale"} /\ rec.freeing = {}
  /\ row' = [row EXCEPT ![s].status = "ended"]
  /\ rec' = [rec EXCEPT !.ids = @ \ {s}, !.freeing = {s}]
  /\ UNCHANGED <<misses, events, Reconciling>>

ReleaseOrphan ==
  /\ rec.freeing # {}
  /\ lease' = [s \in Streams |-> IF s \in rec.freeing THEN NoLease ELSE lease[s]]
  /\ rec' = [rec EXCEPT !.freeing = {}]
  /\ UNCHANGED <<row, misses, tickets, card, Media, jobs, events>>

\* StaleIdleStreams: some of the idle rows are half an hour old; the pass is
\* over when none of them is left.
ListStale ==
  /\ rec.at = "orphans" /\ rec.ids = {} /\ rec.freeing = {}
  /\ \E ids \in SUBSET {s \in Streams : row[s].status = "idle"} :
       rec' = IF ids = {} THEN Rest ELSE [rec EXCEPT !.at = "stale", !.ids = ids]
  /\ UNCHANGED <<row, misses, events, Reconciling>>

\* The pass is over when the last of them has been released.
Reconciled ==
  /\ rec.at = "stale" /\ rec.ids = {} /\ rec.freeing = {} /\ rec' = Rest
  /\ UNCHANGED <<row, misses, events, Reconciling>>

-----------------------------------------------------------------------------
\* The server is restarted: what it held in memory is gone, and the requests it
\* was serving with it.
Restart ==
  /\ Event /\ lease' = [s \in Streams |-> NoLease] /\ card' = CardConfigured
  /\ misses' = [s \in Streams |-> 0] /\ tickets' = {} /\ jobs' = {} /\ rec' = Rest
  /\ UNCHANGED <<row, Media>>

EndingStep(j) ==
  EndStream(j) \/ Release(j) \/ SetStreamScanState(j) \/ MarkBlocked(j) \/ KickPublisher(j)

JobStep(j) == Reserve(j) \/ Plan(j) \/ EndingStep(j)

Reconcile ==
  \/ ListLive \/ CountMisses \/ ReleaseOrphan \/ ListStale \/ Reconciled
  \/ \E s \in Streams : EndOrphan(s)

StreamStep(s) ==
  \/ CreateStream(s) \/ MintPublishTicket(s) \/ TicketExpires(s) \/ Authorize(s) \/ Ready(s)
  \/ Playable(s) \/ Pressure(s) \/ EndByAuthor(s) \/ PublisherLeaves(s) \/ LadderExits(s)
  \/ FrameFlagged(s) \/ Sweep(s)

LaneNext ==
  \/ \E s \in Streams : StreamStep(s)
  \/ \E j \in jobs : JobStep(j)
  \/ Reconcile \/ MediaUnknown \/ Restart

LaneSpec == LaneInit /\ [][LaneNext]_laneVars

\* A request that has begun to end a stream is served to its end, and the
\* reconcile and scan loops run.
LaneFairSpec ==
  /\ LaneSpec /\ WF_laneVars(\E j \in jobs : EndingStep(j)) /\ WF_laneVars(Reconcile)
  /\ \A s \in Streams : WF_laneVars(Sweep(s))

-----------------------------------------------------------------------------
\* "Three rungs for two broadcasts and one rung for a third" (capacity.go): what
\* has been promised, and what could still be shed, is within the cores; only a
\* ladder with nothing left to shed is carried beyond them.  No encoder session
\* is handed out twice.
WithinBudget ==
  /\ UsedCpu({s \in Leases : lease[s].provisional \/ Sheddable(lease[s].rungs, lease[s].copy) # {}}) <= CpuBudget
  /\ UsedSessions(Streams) <= CardSessions

Replans(s) ==
  /\ lease[s] # NoLease /\ lease[s].src # None /\ lease'[s] # NoLease /\ lease'[s].src = lease[s].src
  /\ lease'[s].pressure = 0 /\ lease'[s].encoder = lease[s].encoder

\* "A broadcast that is running keeps the ladder it was planned" (Plan): its
\* ladder may restart at any time, and while what is leased is within the
\* budgets and it has not fallen behind itself, it gets the rungs it had.
ReplanKeepsLadder ==
  [][\A s \in Streams :
       Replans(s) /\ UsedCpu(Streams) <= CpuBudget /\ UsedSessions(Streams) <= SessionBudget(card')
       => lease[s].rungs \subseteq lease'[s].rungs]_laneVars

\* A stream that has ended stays ended, whatever hooks of it are still on their
\* way (StartStream, "status IN ('idle', 'live')").
EndedForGood == [][\A s \in Streams : row[s].status = "ended" => row'[s].status = "ended"]_laneVars

Restarted == jobs' = {} /\ rec' = Rest /\ lease' = [s \in Streams |-> NoLease]

Unplannable(s) == \E j \in jobs' : j.s = s /\ j.for = "plan"

\* No broadcast loses its lease while it is on air: capacity is given back once
\* the row is closed, when no ladder can be planned, or with the process.
LeaseKept ==
  [][\A s \in Streams : lease[s] # NoLease /\ lease'[s] = NoLease =>
       row[s].status = "ended" \/ Unplannable(s) \/ Restarted]_laneVars

\* A row does not stay live when its publisher is gone and the hook that said
\* so was lost: two passes of the reconcile loop end it (manager.go).
OrphansEnd ==
  \A s \in Streams :
    row[s].status = "live" /\ source[s] = None ~> row[s].status = "ended" \/ source[s] # None

\* A stream of which a banned frame was sampled is ended, though the process
\* stops halfway or the media server refuses the kick (sweepStream, BlockStream).
FlaggedEnds == \A s \in Streams : s \in flagged ~> row[s].status = "ended"
=============================================================================
