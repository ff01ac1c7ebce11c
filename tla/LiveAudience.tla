---------------------------- MODULE LiveAudience ----------------------------
(***************************************************************************)
(* Who is watching a stream, and what they see of it                       *)
(* (feed-engine/internal/handler/live.go): presence by heartbeat, the      *)
(* tally that goroutines publish, the chat, and the rendered state that is *)
(* pushed when the stream starts or ends.  One stream; its row belongs to  *)
(* LiveLane, of which only the two changes of status are here.             *)
(*                                                                         *)
(* A handler reads the row once and works on what it read: a visit is a    *)
(* request of one surface, a task a goroutine of the server.  A surface    *)
(* shows the idle wall, the running player, the player whose tally no      *)
(* longer beats ("still"), or the end.                                     *)
(***************************************************************************)
EXTENDS Integers, FiniteSets

CONSTANTS Viewers, SignedIn,     \* the surfaces, those with an FA Live session
          Tasks, Sweeper,        \* goroutines, and the one that sweeps
          MaxEvents              \* bound: pages, chat lines and state changes

ASSUME LiveAudienceAssumption ==
  SignedIn \subseteq Viewers /\ IsFiniteSet(Viewers) /\ Sweeper \in Tasks /\ MaxEvents \in Nat

VARIABLES
  row,      \* live_streams: status and viewer_count
  present,  \* liveState.viewers: "away", "fresh", or "silent" for longer than the TTL
  tally,    \* liveState.tally, or None
  shape,    \* liveState.shape, or "none"
  chat,     \* whether liveState.chat holds a line
  screen,   \* what each surface shows
  visit,    \* the request of each surface
  task,     \* the goroutines
  events

audienceVars == <<row, present, tally, shape, chat, screen, visit, task, events>>

Statuses == {"idle", "live", "ended"}
None == -1
NoVisit == [at |-> "none"]
NoWork == [do |-> "idle"]

AudienceInit ==
  /\ row = [status |-> "idle", count |-> 0]
  /\ present = [v \in Viewers |-> "away"] /\ tally = None /\ shape = "none" /\ chat = FALSE
  /\ screen = [v \in Viewers |-> "closed"] /\ visit = [v \in Viewers |-> NoVisit]
  /\ task = [t \in Tasks |-> NoWork] /\ events = 0

Event == events < MaxEvents /\ events' = events + 1

\* A goroutine of its own; the sweeper's runs from the start.
Begin(t, work) == t # Sweeper /\ task[t] = NoWork /\ task' = [task EXCEPT ![t] = work]

Next_(t, work) == task' = [task EXCEPT ![t] = work]

-----------------------------------------------------------------------------
(* liveState; each operation holds its mutex throughout. *)

\* pruneLocked: the silent are dropped.
Pruned(p) == [v \in Viewers |-> IF p[v] = "silent" THEN "away" ELSE p[v]]

Count(p) == Cardinality({v \in Viewers : p[v] # "away"})

\* touch
Touched(v) == Pruned([present EXCEPT ![v] = "fresh"])

\* A viewer that is touched is counted, and a goroutine publishes the tally.
TouchAndPublish(v, st) ==
  /\ present' = Touched(v)
  /\ \E t \in Tasks : Begin(t, [do |-> "tally", st |-> st, n |-> Count(Touched(v))])

\* audiencePIALs: those whom FA Live reaches, the silent among them.
Audience == {v \in SignedIn : present[v] # "away"}

-----------------------------------------------------------------------------
(* The row, which the live lane changes and then has published. *)

StartStream ==
  /\ Event /\ row.status = "idle" /\ row' = [row EXCEPT !.status = "live"]
  /\ \E t \in Tasks : Begin(t, [do |-> "read"])
  /\ UNCHANGED <<present, tally, shape, chat, screen, visit>>

\* EndStream zeroes the count; liveEndHandler publishes what it ended.
EndStream ==
  /\ Event /\ row.status # "ended" /\ row' = [status |-> "ended", count |-> 0]
  /\ \E t \in Tasks : Begin(t, [do |-> "read"])
  /\ UNCHANGED <<present, tally, shape, chat, screen, visit>>

\* A note of capacity: the state is published though nothing of it moved.
Republish ==
  /\ Event /\ \E t \in Tasks : Begin(t, [do |-> "read"])
  /\ UNCHANGED <<row, present, tally, shape, chat, screen, visit>>

-----------------------------------------------------------------------------
(* PublishStreamState. *)

\* Rendering the view counts the viewers, which drops the silent ones.
ReadState(t) ==
  /\ task[t].do = "read" /\ Next_(t, [do |-> "shape", st |-> row.status])
  /\ present' = Pruned(present)
  /\ UNCHANGED <<row, tally, shape, chat, screen, visit, events>>

\* shapeMoved: a shape already pushed leaves the player alone.
ShapeMoved(t) ==
  /\ task[t].do = "shape" /\ shape' = task[t].st
  /\ Next_(t, [do |-> IF shape = task[t].st THEN "forget" ELSE "push", st |-> task[t].st])
  /\ UNCHANGED <<row, present, tally, chat, screen, visit, events>>

\* publishStreamStatus: the player of everyone FA Live reaches.
PushState(t) ==
  /\ task[t].do = "push" /\ Next_(t, [do |-> "forget", st |-> task[t].st])
  /\ screen' = [v \in Viewers |-> IF v \in Audience /\ screen[v] # "closed" THEN task[t].st ELSE screen[v]]
  /\ UNCHANGED <<row, present, tally, shape, chat, visit, events>>

\* forget, when what was published had ended.
Forget(t) ==
  /\ task[t].do = "forget" /\ Next_(t, NoWork)
  /\ IF task[t].st = "ended"
     THEN present' = [v \in Viewers |-> "away"] /\ tally' = None /\ shape' = "none" /\ chat' = FALSE
     ELSE UNCHANGED <<present, tally, shape, chat>>
  /\ UNCHANGED <<row, screen, visit, events>>

-----------------------------------------------------------------------------
(* publishViewerCount. *)

\* tallyMoved, and whether the row is written: not for a stream read as not live.
TallyMoved(t) ==
  /\ task[t].do = "tally" /\ tally' = task[t].n
  /\ Next_(t, IF tally = task[t].n THEN NoWork
              ELSE [task[t] EXCEPT !.do = IF task[t].st = "live" THEN "persist" ELSE "refresh"])
  /\ UNCHANGED <<row, present, shape, chat, screen, visit, events>>

\* Mutant of UpdateViewerCount: the UPDATE has no guard on the status.
UpdateAnyCount(t) ==
  /\ task[t].do = "persist" /\ Next_(t, [task[t] EXCEPT !.do = "refresh"])
  /\ row' = [row EXCEPT !.count = task[t].n]
  /\ UNCHANGED <<present, tally, shape, chat, screen, visit, events>>

\* UpdateViewerCount, WHERE status = 'live'.
UpdateViewerCount(t) ==
  /\ task[t].do = "persist" /\ Next_(t, [task[t] EXCEPT !.do = "refresh"])
  /\ row' = [row EXCEPT !.count = IF row.status = "live" THEN task[t].n ELSE @]
  /\ UNCHANGED <<present, tally, shape, chat, screen, visit, events>>

\* The tally in a running player is replaced, by one that beats if the stream
\* was read as live.
PushTally(t) ==
  /\ task[t].do = "refresh" /\ Next_(t, NoWork)
  /\ screen' = [v \in Viewers |-> IF v \in Audience /\ screen[v] \in {"live", "still"}
                                  THEN IF task[t].st = "live" THEN "live" ELSE "still" ELSE screen[v]]
  /\ UNCHANGED <<row, present, tally, shape, chat, visit, events>>

\* Mutant of Sweep: a stream that is over is not swept.
SweepTheLive ==
  /\ task[Sweeper] = NoWork /\ row.status = "live" /\ \E v \in Viewers : present[v] = "silent"
  /\ present' = Pruned(present)
  /\ Next_(Sweeper, [do |-> "load", n |-> Count(Pruned(present))])
  /\ UNCHANGED <<row, tally, shape, chat, screen, visit, events>>

\* startLiveSweeper: a sweep that changed the count publishes it.
Sweep ==
  /\ task[Sweeper] = NoWork /\ \E v \in Viewers : present[v] = "silent"
  /\ present' = Pruned(present)
  /\ Next_(Sweeper, [do |-> "load", n |-> Count(Pruned(present))])
  /\ UNCHANGED <<row, tally, shape, chat, screen, visit, events>>

SweepLoads ==
  /\ task[Sweeper].do = "load"
  /\ Next_(Sweeper, [do |-> "tally", st |-> row.status, n |-> task[Sweeper].n])
  /\ UNCHANGED <<row, present, tally, shape, chat, screen, visit, events>>

-----------------------------------------------------------------------------
(* Visits. *)

\* liveWatchPage, up to the row.
OpenPage(v) ==
  /\ Event /\ screen[v] = "closed" /\ visit[v] = NoVisit
  /\ visit' = [visit EXCEPT ![v] = [at |-> "page", st |-> row.status]]
  /\ UNCHANGED <<row, present, tally, shape, chat, screen, task>>

\* The viewer is counted, whatever became of the stream.
LoadPage(v) ==
  /\ visit[v].at = "page" /\ TouchAndPublish(v, visit[v].st)
  /\ visit' = [visit EXCEPT ![v] = NoVisit]
  /\ screen' = [screen EXCEPT ![v] = visit[v].st]
  /\ UNCHANGED <<row, tally, shape, chat, events>>

Close(v) ==
  /\ Event /\ screen[v] # "closed" /\ screen' = [screen EXCEPT ![v] = "closed"]
  /\ UNCHANGED <<row, present, tally, shape, chat, visit, task>>

\* liveHeartbeat, up to the row: the wall says what it was rendered for.
Heartbeat(v) ==
  /\ screen[v] \in {"idle", "live"} /\ visit[v] = NoVisit
  /\ visit' = [visit EXCEPT ![v] = [at |-> "beat", st |-> row.status, wall |-> screen[v] = "idle"]]
  /\ UNCHANGED <<row, present, tally, shape, chat, screen, task, events>>

Served(v, show) ==
  visit' = [visit EXCEPT ![v] = IF show = "nothing" THEN NoVisit ELSE [at |-> "answer", st |-> show]]

\* The wall still tells the truth.
Wait(v) ==
  /\ visit[v].at = "beat" /\ visit[v].st = "idle"
  /\ present' = Touched(v) /\ Served(v, IF visit[v].wall THEN "nothing" ELSE "idle")
  /\ UNCHANGED <<row, tally, shape, chat, screen, task, events>>

\* Mutant of CountBeat: a wall's beat is answered like a player's.
CountAnyBeat(v) ==
  /\ visit[v].at = "beat" /\ visit[v].st = "live"
  /\ TouchAndPublish(v, "live") /\ Served(v, "nothing")
  /\ UNCHANGED <<row, tally, shape, chat, screen, events>>

\* A running player is answered with its tally, and a wall with the player.
CountBeat(v) ==
  /\ visit[v].at = "beat" /\ visit[v].st = "live"
  /\ TouchAndPublish(v, "live") /\ Served(v, IF visit[v].wall THEN "live" ELSE "nothing")
  /\ UNCHANGED <<row, tally, shape, chat, screen, events>>

\* "Nothing is counted: presence belongs to a running broadcast."
TellTheEnd(v) ==
  /\ visit[v].at = "beat" /\ visit[v].st = "ended" /\ Served(v, "ended")
  /\ UNCHANGED <<row, present, tally, shape, chat, screen, task, events>>

\* answerBeatWithPlayer's answer arrives, or finds the page gone.
Answer(v) ==
  /\ visit[v].at = "answer" /\ visit' = [visit EXCEPT ![v] = NoVisit]
  /\ screen' = [screen EXCEPT ![v] = IF @ = "closed" THEN @ ELSE visit[v].st]
  /\ UNCHANGED <<row, present, tally, shape, chat, task, events>>

\* liveChatSend: the row is read, then the line is kept and its sender present.
ChatSend(v) ==
  /\ Event /\ v \in SignedIn /\ screen[v] # "closed" /\ row.status # "ended"
  /\ \E t \in Tasks : Begin(t, [do |-> "chat", v |-> v])
  /\ UNCHANGED <<row, present, tally, shape, chat, screen, visit>>

AppendChat(t) ==
  /\ task[t].do = "chat" /\ chat' = TRUE /\ present' = Touched(task[t].v) /\ Next_(t, NoWork)
  /\ UNCHANGED <<row, tally, shape, screen, visit, events>>

\* The TTL passes for a surface that no longer beats.
FallsSilent(v) ==
  /\ present[v] = "fresh" /\ screen[v] \notin {"idle", "live"}
  /\ present' = [present EXCEPT ![v] = "silent"]
  /\ UNCHANGED <<row, tally, shape, chat, screen, visit, task, events>>

\* It passes for one that was suspended and will beat again.
Misses(v) ==
  /\ Event /\ present[v] = "fresh" /\ screen[v] \in {"idle", "live"}
  /\ present' = [present EXCEPT ![v] = "silent"]
  /\ UNCHANGED <<row, tally, shape, chat, screen, visit, task>>

-----------------------------------------------------------------------------
TaskStep(t) ==
  \/ ReadState(t) \/ ShapeMoved(t) \/ PushState(t) \/ Forget(t)
  \/ TallyMoved(t) \/ UpdateViewerCount(t) \/ PushTally(t) \/ AppendChat(t)

Serve(v) == LoadPage(v) \/ Wait(v) \/ CountBeat(v) \/ TellTheEnd(v) \/ Answer(v)

AudienceNext ==
  \/ StartStream \/ EndStream \/ Republish \/ Sweep \/ SweepLoads
  \/ \E t \in Tasks : TaskStep(t)
  \/ \E v \in Viewers : OpenPage(v) \/ Close(v) \/ Heartbeat(v) \/ Serve(v) \/ ChatSend(v)
                        \/ FallsSilent(v) \/ Misses(v)

AudienceSpec == AudienceInit /\ [][AudienceNext]_audienceVars

\* Goroutines run, an open surface beats, the sweeper's ticker ticks and time
\* passes for those who have gone.  A request is answered though others keep the
\* bounded goroutines of the model busy: Go starts as many as it is asked for.
AudienceFairSpec ==
  /\ AudienceSpec /\ WF_audienceVars(Sweep) /\ WF_audienceVars(SweepLoads)
  /\ \A t \in Tasks : WF_audienceVars(TaskStep(t))
  /\ \A v \in Viewers : WF_audienceVars(Heartbeat(v)) /\ SF_audienceVars(Serve(v)) /\ WF_audienceVars(FallsSilent(v))

-----------------------------------------------------------------------------
\* A broadcast that is over counts nobody, though tallies that were taken before
\* its end are persisted after it ("viewer_count does not" survive, EndStream).
EndedCountsNobody == row.status = "ended" => row.count = 0

\* "The 20 s presence beat is their entire channel" (answerBeatWithPlayer): a
\* logged-out surface comes to show what the row says, each time it has changed;
\* no wall stands over a running broadcast for good, and no player over one that
\* has ended.
LoggedOutLearn == \A v \in Viewers \ SignedIn : []<>(screen[v] \in {row.status, "closed"})

\* Presence ends with the broadcast (liveState): nobody is left in its audience,
\* though beats, pages and chat lines that had read it as running come after.
AudienceDrains == <>[](row.status = "ended") => <>[](\A v \in Viewers : present[v] = "away")
=============================================================================
