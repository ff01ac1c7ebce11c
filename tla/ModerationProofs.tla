-------------------------- MODULE ModerationProofs --------------------------
(***************************************************************************)
(* A decision of the moderation queue stands, for every number of          *)
(* handlers, requests and failing statements.  The flags the reads key off *)
(* are only ever raised while the work is there, so the argument looks at  *)
(* the handlers that are about to answer: whoever has come as far as the   *)
(* log has raised the flag of the state it will tell its caller of.        *)
(***************************************************************************)
EXTENDS Moderation, TLAPS

-----------------------------------------------------------------------------
(* The inductive invariant *)

TaskOK == task \in [Tasks -> [kind : Kinds, at : Places, to : States, seen : Facts]]
FlagsOK == blocked \in BOOLEAN /\ nsfw \in BOOLEAN

\* Nothing has been told that the flags do not show.
ToldStands == row # "gone" => /\ "blocked" \in told => blocked
                              /\ "age_gated" \in told => nsfw

\* Nor is anybody about to tell such a thing: SetPostScanState raises the flag
\* before it appends to the log.
FlagsFirst ==
    row # "gone" =>
      \A t \in Tasks : task[t].at \in {"log", "remark"} =>
        /\ task[t].to = "blocked" => blocked
        /\ task[t].to = "age_gated" => nsfw

ModInv == TaskOK /\ ToldStands /\ FlagsFirst

\* A work starts out with nothing decided.
LEMMA ModInvInit == Init => ModInv
BY DEF Init, ModInv, TaskOK, ToldStands, FlagsFirst, Idle, NoMemo, Kinds, Places, States, Facts

\* No verdict is a state that is not in the vocabulary.
LEMMA VerdictOK == \A a \in Advice : Verdict[a] \in States
BY DEF Advice, Verdict, States

\* What the wall reads of a work is a record of facts.
LEMMA OwnerOK ==
    ASSUME blocked \in BOOLEAN, nsfw \in BOOLEAN
    PROVE  Owner \in Facts
BY DEF Owner, Facts, Unowned

\* A handler that begins is not about to answer.
LEMMA BeginStep ==
    ASSUME ModInv, NEW t \in Tasks, NEW k \in Kinds, NEW to \in States,
           NEW place \in Places \ {"log", "remark"}, Begin(t, k, place, to),
           UNCHANGED <<row, blocked, nsfw, told>>
    PROVE  ModInv'
<1>1. task' = [task EXCEPT ![t] = [kind |-> k, at |-> place, to |-> to, seen |-> NoMemo]]
  BY DEF Begin
<1>2. TaskOK'
  <2>1. NoMemo \in Facts
    BY DEF NoMemo, Facts
  <2> QED
    BY <1>1, <2>1 DEF ModInv, TaskOK
<1>3. FlagsFirst'
  <2>1. \A u \in Tasks : task'[u].at \in {"log", "remark"} => task'[u] = task[u]
    BY <1>1 DEF ModInv, TaskOK
  <2> QED
    BY <2>1 DEF ModInv, FlagsFirst
<1> QED
  BY <1>2, <1>3 DEF ModInv, ToldStands

\* Nor is one that goes on to a place before the log, the flags as they were.
LEMMA GotoStep ==
    ASSUME ModInv, NEW t \in Tasks, NEW place \in Places \ {"log", "remark"}, Goto(t, place),
           row # "gone" => row' = row /\ (blocked => blocked') /\ (nsfw => nsfw'),
           row = "gone" => row' = "gone", told' = told
    PROVE  ModInv'
<1>1. task' = [task EXCEPT ![t].at = place]
  BY DEF Goto
<1>2. TaskOK'
  BY <1>1 DEF ModInv, TaskOK
<1>3. \A u \in Tasks : task'[u].at \in {"log", "remark"} => task'[u] = task[u]
  BY <1>1 DEF ModInv, TaskOK
<1> QED
  BY <1>2, <1>3 DEF ModInv, ToldStands, FlagsFirst

\* A handler that stops leaves the rest as it was.
LEMMA DoneStep ==
    ASSUME ModInv, NEW t \in Tasks, Done(t), UNCHANGED <<row, blocked, nsfw, told>>
    PROVE  ModInv'
<1>1. task' = [task EXCEPT ![t] = Idle]
  BY DEF Done
<1>2. TaskOK'
  BY <1>1 DEF ModInv, TaskOK, Idle, NoMemo, Kinds, Places, States, Facts
<1>3. \A u \in Tasks : task'[u].at \in {"log", "remark"} => task'[u] = task[u]
  BY <1>1 DEF ModInv, TaskOK, Idle
<1> QED
  BY <1>2, <1>3 DEF ModInv, ToldStands, FlagsFirst

\* An answer tells of the state whose flag its handler has raised.
LEMMA AnswerStep ==
    ASSUME ModInv, NEW t \in Tasks, task[t].at \in {"log", "remark"}, Answers(t),
           row' = row, row # "gone" => (blocked => blocked') /\ (nsfw => nsfw')
    PROVE  ModInv'
<1>1. task' = [task EXCEPT ![t] = Idle] /\ told' = told \cup {task[t].to}
  BY DEF Answers, Done
<1>2. TaskOK'
  BY <1>1 DEF ModInv, TaskOK, Idle, NoMemo, Kinds, Places, States, Facts
<1>3. FlagsFirst'
  <2>1. \A u \in Tasks : task'[u].at \in {"log", "remark"} => task'[u] = task[u]
    BY <1>1 DEF ModInv, TaskOK, Idle
  <2> QED
    BY <2>1 DEF ModInv, FlagsFirst
<1>4. ToldStands'
  BY <1>1 DEF ModInv, ToldStands, FlagsFirst
<1> QED
  BY <1>2, <1>3, <1>4 DEF ModInv

\* The step that raises a flag: from here on the handler may answer.
LEMMA FlagStep ==
    ASSUME ModInv, NEW t \in Tasks, SetFlag(t)
    PROVE  ModInv'
<1>1. /\ task' = [task EXCEPT ![t].at = "log"] /\ UNCHANGED <<row, told>>
      /\ blocked => blocked'
      /\ nsfw => nsfw'
      /\ row # "gone" /\ task[t].to = "blocked" => blocked'
      /\ row # "gone" /\ task[t].to = "age_gated" => nsfw'
  BY DEF SetFlag, Goto
<1>2. TaskOK'
  BY <1>1 DEF ModInv, TaskOK, Places
<1>3. FlagsFirst'
  <2>1. \A u \in Tasks : u # t => task'[u] = task[u]
    BY <1>1 DEF ModInv, TaskOK
  <2>2. task'[t].to = task[t].to
    BY <1>1 DEF ModInv, TaskOK
  <2> QED
    BY <1>1, <2>1, <2>2 DEF ModInv, FlagsFirst
<1> QED
  BY <1>1, <1>2, <1>3 DEF ModInv, ToldStands

\* A state with no flag goes straight to the log.
LEMMA StateStep ==
    ASSUME ModInv, NEW t \in Tasks, SetScanState(t)
    PROVE  ModInv'
<1>1. UNCHANGED <<row, blocked, nsfw, told>>
  BY DEF SetScanState
<1>2. CASE task[t].to \in {"blocked", "age_gated"}
  <2>1. Goto(t, "flag")
    BY <1>2 DEF SetScanState
  <2> QED
    BY <1>1, <2>1, GotoStep DEF Places
<1>3. CASE task[t].to \notin {"blocked", "age_gated"}
  <2>1. task' = [task EXCEPT ![t].at = "log"]
    BY <1>3 DEF SetScanState, Goto
  <2>2. TaskOK'
    BY <2>1 DEF ModInv, TaskOK, Places
  <2>3. \A u \in Tasks : u # t => task'[u] = task[u]
    BY <2>1 DEF ModInv, TaskOK
  <2>4. task'[t].to = task[t].to
    BY <2>1 DEF ModInv, TaskOK
  <2> QED
    BY <1>1, <1>3, <2>2, <2>3, <2>4 DEF ModInv, ToldStands, FlagsFirst
<1> QED
  BY <1>2, <1>3

\* The scanner's second mark of the gate comes between the log and the answer.
LEMMA LogStep ==
    ASSUME ModInv, NEW t \in Tasks, AppendLog(t)
    PROVE  ModInv'
<1>1. UNCHANGED <<row, blocked, nsfw>> /\ task[t].at = "log"
  BY DEF AppendLog, Work, At
<1>2. CASE task[t].kind = "scan" /\ task[t].to = "age_gated"
  <2>1. task' = [task EXCEPT ![t].at = "remark"] /\ told' = told
    BY <1>2 DEF AppendLog, Goto
  <2>2. TaskOK'
    BY <2>1 DEF ModInv, TaskOK, Places
  <2>3. \A u \in Tasks : u # t => task'[u] = task[u]
    BY <2>1 DEF ModInv, TaskOK
  <2>4. task'[t].to = task[t].to
    BY <2>1 DEF ModInv, TaskOK
  <2> QED
    BY <1>1, <2>1, <2>2, <2>3, <2>4 DEF ModInv, ToldStands, FlagsFirst
<1>3. CASE ~ (task[t].kind = "scan" /\ task[t].to = "age_gated")
  <2>1. Answers(t)
    BY <1>3 DEF AppendLog
  <2> QED
    BY <1>1, <2>1, AnswerStep
<1> QED
  BY <1>2, <1>3

\* Marks outside SetPostScanState may fail unseen; they never take a flag back.
LEMMA MarkStep ==
    ASSUME ModInv, FlagsOK, NEW t \in Tasks, MarkNsfw(t)
    PROVE  ModInv'
<1>1. row' = row /\ blocked' = blocked /\ (nsfw => nsfw')
  BY DEF MarkNsfw, FlagsOK
<1>2. CASE At(t, "mark")
  <2>1. Goto(t, "read") /\ told' = told
    BY <1>2 DEF MarkNsfw
  <2> QED
    BY <1>1, <2>1, GotoStep DEF Places
<1>3. CASE ~ At(t, "mark")
  <2>1. Answers(t) /\ task[t].at = "remark"
    BY <1>3 DEF MarkNsfw, At
  <2> QED
    BY <1>1, <2>1, AnswerStep
<1> QED
  BY <1>2, <1>3

\* The wall keeps its facts in the request, and none of them is a decision.
LEMMA OwnerStep ==
    ASSUME ModInv, FlagsOK, NEW t \in Tasks, ReadOwner(t)
    PROVE  ModInv'
<1>1. /\ task' = [task EXCEPT ![t] = [task[t] EXCEPT !.at = "put", !.seen = Owner]]
      /\ UNCHANGED <<row, blocked, nsfw, told>>
  BY DEF ReadOwner, Work
<1>2. Owner \in Facts
  BY OwnerOK DEF FlagsOK
<1>3. TaskOK'
  BY <1>1, <1>2 DEF ModInv, TaskOK, Places
<1>4. \A u \in Tasks : task'[u].at \in {"log", "remark"} => task'[u] = task[u]
  BY <1>1 DEF ModInv, TaskOK
<1> QED
  BY <1>1, <1>3, <1>4 DEF ModInv, ToldStands, FlagsFirst
\* Single statements and transactions: a sweep changes no flag, a delete only
\* takes the work out of sight.
LEMMA RowStep ==
    ASSUME ModInv, UNCHANGED <<blocked, nsfw, told, task>>, row = "gone" => row' = "gone"
    PROVE  ModInv'
BY DEF ModInv, TaskOK, ToldStands, FlagsFirst

\* A step that touches neither the work nor the handlers.
LEMMA StillStep ==
    ASSUME ModInv, UNCHANGED <<row, blocked, nsfw, told, task>>
    PROVE  ModInv'
BY DEF ModInv, TaskOK, ToldStands, FlagsFirst

\* The flags are booleans, whoever writes them.
LEMMA FlagsTyped ==
    ASSUME FlagsOK, [Next]_vars
    PROVE  FlagsOK'
<1> USE DEF FlagsOK
<1>1. CASE \E t \in Tasks : SetFlag(t)
  BY <1>1 DEF SetFlag
<1>2. CASE \E t \in Tasks : MarkNsfw(t)
  BY <1>2 DEF MarkNsfw
<1>3. CASE UNCHANGED <<blocked, nsfw>>
  BY <1>3
<1>4. (\E t \in Tasks : Arrive(t) \/ Fails(t)) => UNCHANGED <<blocked, nsfw>>
  BY DEF Arrive, ScanComplete, ModerationAction, FileContentReport, ResolveReport, MediaGate, Fails, Work
<1>5. (\E t \in Tasks : \/ ReadState(t) \/ SetScanState(t) \/ AppendLog(t) \/ StoreScanResult(t)
                        \/ ReadReview(t) \/ ReadAdvice(t) \/ ReadOwner(t) \/ PutOwner(t))
         => UNCHANGED <<blocked, nsfw>>
  BY DEF ReadState, SetScanState, AppendLog, StoreScanResult, ReadReview, ReadAdvice, ReadOwner, PutOwner, Work
<1>6. (Expire \/ ReleaseStaleHumanReview \/ SoftDelete \/ AdminDelete \/ vars' = vars) => UNCHANGED <<blocked, nsfw>>
  BY DEF Expire, ReleaseStaleHumanReview, SoftDelete, AdminDelete, Work, vars
<1> QED
  BY <1>1, <1>2, <1>3, <1>4, <1>5, <1>6 DEF Next, Step

\* Every step of every handler keeps the invariant.
LEMMA ModInvNext ==
    ASSUME ModInv, FlagsOK, [Next]_vars
    PROVE  ModInv'
<1>1. CASE \E t \in Tasks : Arrive(t)
  <2> PICK t \in Tasks : Arrive(t)
    BY <1>1
  <2>1. UNCHANGED <<row, blocked, nsfw, told>>
    BY DEF Arrive, ScanComplete, ModerationAction, FileContentReport, ResolveReport, MediaGate, Work
  <2>2. \E k \in Kinds, to \in States, place \in Places \ {"log", "remark"} : Begin(t, k, place, to)
    <3>1. ASSUME ScanComplete(t) PROVE \E to \in States : Begin(t, "scan", "store", to)
      BY <3>1, VerdictOK DEF ScanComplete
    <3>2. ASSUME ModerationAction(t)
          PROVE  \E to \in States, place \in {"read", "mark"} : Begin(t, "moderate", place, to)
      BY <3>2 DEF ModerationAction, States
    <3>3. ASSUME FileContentReport(t) PROVE Begin(t, "report", "read", "human_review")
      BY <3>3 DEF FileContentReport
    <3>4. ASSUME ResolveReport(t) PROVE Begin(t, "resolve", "hold", "clean")
      BY <3>4 DEF ResolveReport
    <3>5. ASSUME MediaGate(t) PROVE Begin(t, "serve", "owner", "clean")
      BY <3>5 DEF MediaGate
    <3>6. /\ {"scan", "moderate", "report", "resolve", "serve"} \subseteq Kinds
          /\ {"human_review", "clean"} \subseteq States
          /\ {"store", "read", "mark", "hold", "owner"} \subseteq Places \ {"log", "remark"}
      BY DEF Kinds, States, Places
    <3> QED
      BY <3>1, <3>2, <3>3, <3>4, <3>5, <3>6 DEF Arrive
  <2> QED
    BY <2>1, <2>2, BeginStep
<1>2. CASE \E t \in Tasks : Step(t)
  <2> PICK t \in Tasks : Step(t)
    BY <1>2
  <2> HIDE DEF Step
  <2>0. {"state", "read", "advice"} \subseteq Places \ {"log", "remark"}
    BY DEF Places
  <2>1. CASE ReadState(t)
    <3>1. Done(t) \/ Goto(t, "state")
      BY <2>1 DEF ReadState
    <3> QED
      BY <2>0, <2>1, <3>1, DoneStep, GotoStep DEF ReadState, Work
  <2>2. CASE SetScanState(t)
    BY <2>2, StateStep
  <2>3. CASE SetFlag(t)
    BY <2>3, FlagStep
  <2>4. CASE AppendLog(t)
    BY <2>4, LogStep
  <2>5. CASE StoreScanResult(t)
    BY <2>0, <2>5, GotoStep DEF StoreScanResult, Work
  <2>6. CASE MarkNsfw(t)
    BY <2>6, MarkStep
  <2>7. CASE ReadReview(t)
    <3>1. Done(t) \/ Goto(t, "advice")
      BY <2>7 DEF ReadReview
    <3> QED
      BY <2>0, <2>7, <3>1, DoneStep, GotoStep DEF ReadReview, Work
  <2>8. CASE ReadAdvice(t)
    <3>1. Done(t) \/ Goto(t, "read")
      BY <2>8 DEF ReadAdvice
    <3> QED
      BY <2>0, <2>8, <3>1, DoneStep, GotoStep DEF ReadAdvice, Work
  <2>9. CASE ReadOwner(t)
    BY <2>9, OwnerStep DEF FlagsOK
  <2>10. CASE PutOwner(t)
    BY <2>10, DoneStep DEF PutOwner, Work
  <2> QED
    BY <2>1, <2>2, <2>3, <2>4, <2>5, <2>6, <2>7, <2>8, <2>9, <2>10 DEF Step
<1>3. CASE \E t \in Tasks : Fails(t)
  BY <1>3, DoneStep DEF Fails, Work
<1>4. CASE Expire \/ vars' = vars
  BY <1>4, StillStep DEF Expire, Work, vars
<1>5. CASE ReleaseStaleHumanReview \/ SoftDelete \/ AdminDelete
  BY <1>5, RowStep DEF ReleaseStaleHumanReview, SoftDelete, AdminDelete
<1> QED
  BY <1>1, <1>2, <1>3, <1>4, <1>5 DEF Next

-----------------------------------------------------------------------------
\* A decision somebody was told of stands: whatever scans, reports, approvals
\* and sweeps write afterwards or in between, a work reported as blocked is not
\* shown again, nor one reported as gated without its gate (SetPostScanState).
THEOREM DecisionsStand == Spec => []DecisionsHold
<1>1. Init => FlagsOK
  BY DEF Init, FlagsOK
<1>2. FlagsOK /\ ModInv /\ [Next]_vars => FlagsOK' /\ ModInv'
  BY FlagsTyped, ModInvNext
<1>3. ModInv => DecisionsHold
  BY DEF ModInv, ToldStands, DecisionsHold, Shown
<1> QED
  BY <1>1, <1>2, <1>3, ModInvInit, PTL DEF Spec

=============================================================================
