----------------------------- MODULE Moderation -----------------------------
(***************************************************************************)
(* What becomes of one work between its insert and its deletion            *)
(* (feed-engine: handler/moderation.go, admin.go, media_gate.go and        *)
(* db/queries.go, security.go, works.go): the scanner's answers, the       *)
(* moderators' decisions, the reports and the rescue sweep all write its   *)
(* scan_state, and the read paths and the media wall key off two flags     *)
(* written after it.  No two statements share a transaction but those of a *)
(* delete, so every statement of every handler is a step of its own.       *)
(*                                                                         *)
(* What a report or the log says, who is notified and the lineage of a     *)
(* duplicate are left out; so are the rows of content_reports, which no    *)
(* read path looks at.  The wall is that of a stranger: subscriptions,     *)
(* private accounts and ephemeral works have their own rules.              *)
(***************************************************************************)
EXTENDS Naturals

CONSTANTS Tasks,       \* the handlers that may run at once
          MaxCalls,    \* bound: requests made in all
          MaxFaults    \* bound: statements that fail, handlers that die

ASSUME ModerationAssumption == MaxCalls \in Nat /\ MaxFaults \in Nat

VARIABLES row,        \* "live", "retired" (deleted_at is set) or "gone"
          scan,       \* works.scan_state
          blocked,    \* works.is_blocked
          nsfw,       \* works.is_nsfw
          rec,        \* content_scan_results.recommendation, or "none"
          memo,       \* ownerCache: what the wall takes the work for, or NoMemo
          task,       \* the handlers that are running
          told,       \* history: the states somebody was told had been applied
          calls, faults

vars == <<row, scan, blocked, nsfw, rec, memo, task, told, calls, faults>>

\* 'flagged' is in the table's vocabulary; nothing writes it.
States == {"pending", "clean", "age_gated", "human_review", "blocked"}
Advice == {"approve", "age_gate", "human_review", "auto_block", "other"}

\* The state each recommendation leads to; an unknown one goes to review.
Verdict == [approve |-> "clean", age_gate |-> "age_gated",
            human_review |-> "human_review", auto_block |-> "blocked",
            other |-> "human_review"]

\* What the wall knows of an object: whether a work owns it, whether that work
\* is deleted or taken down, and whether it is for adults.
Facts == [owned : BOOLEAN, closed : BOOLEAN, adult : BOOLEAN]
NoMemo == [owned |-> FALSE, closed |-> TRUE, adult |-> TRUE]
Unowned == [owned |-> FALSE, closed |-> FALSE, adult |-> FALSE]
Owner == IF row = "gone" THEN Unowned
         ELSE [owned |-> TRUE, closed |-> row = "retired" \/ blocked, adult |-> nsfw]

\* to: the state to be written.  seen: the facts a request of the wall read.
Idle == [kind |-> "none", at |-> "idle", to |-> "clean", seen |-> NoMemo]
Kinds == {"none", "scan", "moderate", "report", "resolve", "serve"}
Places == {"idle", "store", "mark", "hold", "advice", "read", "state", "flag", "log", "remark", "owner", "put"}

\* InsertWork: the verdict belongs to the scan, never to the insert.
Init ==
    /\ row = "live" /\ scan = "pending" /\ blocked = FALSE /\ nsfw \in BOOLEAN
    /\ rec = "none" /\ memo = NoMemo /\ told = {}
    /\ task = [t \in Tasks |-> Idle] /\ calls = 0 /\ faults = 0

-----------------------------------------------------------------------------
Work == <<row, scan, blocked, nsfw>>
Goto(t, place) == task' = [task EXCEPT ![t].at = place]
Done(t) == task' = [task EXCEPT ![t] = Idle]
Call == calls < MaxCalls /\ calls' = calls + 1
Begin(t, k, place, to) ==
    /\ task[t].at = "idle" /\ Call
    /\ task' = [task EXCEPT ![t] = [kind |-> k, at |-> place, to |-> to, seen |-> NoMemo]]

\* The statement at hand fails, and its handler answers with an error.
Fails(t) == /\ faults < MaxFaults /\ faults' = faults + 1 /\ Done(t)
            /\ UNCHANGED <<Work, rec, memo, told, calls>>

\* The last statement: the caller is told that the state has been applied.
Answers(t) == Done(t) /\ told' = told \cup {task[t].to}

At(t, place) == task[t].at = place
Steps == UNCHANGED <<memo, calls, faults>>

-----------------------------------------------------------------------------
(* The handlers begin. *)

\* The scanner sends the work's signals and what it recommends.
ScanComplete(t) ==
    /\ \E a \in Advice : Begin(t, "scan", "store", Verdict[a])
    /\ UNCHANGED <<Work, rec, memo, told, faults>>

\* A moderator approves, blocks or age-gates; only a gate writes before the state.
ModerationAction(t) ==
    /\ \E to \in {"clean", "blocked"} : Begin(t, "moderate", "read", to)
       \/ Begin(t, "moderate", "mark", "age_gated")
    /\ UNCHANGED <<Work, rec, memo, told, faults>>

\* A report for adult content or hate sends the work to review.
FileContentReport(t) ==
    /\ Begin(t, "report", "read", "human_review")
    /\ UNCHANGED <<Work, rec, memo, told, faults>>

\* The reports of the work are resolved or dismissed.
ResolveReport(t) ==
    /\ Begin(t, "resolve", "hold", "clean")
    /\ UNCHANGED <<Work, rec, memo, told, faults>>

\* Somebody asks for the work's media.  A fact that is remembered is used as it is.
MediaGate(t) ==
    /\ memo = NoMemo /\ Begin(t, "serve", "owner", "clean")
    /\ UNCHANGED <<Work, rec, memo, told, faults>>

-----------------------------------------------------------------------------
(* SetPostScanState, statement by statement. *)

\* A work that is gone has no state to read: the handler stops with an error.
ReadState(t) ==
    /\ At(t, "read") /\ Steps
    /\ IF row = "gone" THEN Done(t) ELSE Goto(t, "state")
    /\ UNCHANGED <<Work, rec, told>>

SetScanState(t) ==
    /\ At(t, "state") /\ Steps
    /\ scan' = IF row = "gone" THEN scan ELSE task[t].to
    /\ Goto(t, IF task[t].to \in {"blocked", "age_gated"} THEN "flag" ELSE "log")
    /\ UNCHANGED <<row, blocked, nsfw, rec, told>>

\* Mutant of SetFlag: a flag that could not be set is not reported.
SetFlagOrNot(t) ==
    /\ At(t, "flag") /\ Steps
    /\ blocked' \in {blocked, blocked \/ (row # "gone" /\ task[t].to = "blocked")}
    /\ nsfw' = (nsfw \/ (row # "gone" /\ task[t].to = "age_gated"))
    /\ Goto(t, "log")
    /\ UNCHANGED <<row, scan, rec, told>>

\* The flags are what the reads key off; nothing ever clears one.
SetFlag(t) ==
    /\ At(t, "flag") /\ Steps
    /\ blocked' = (blocked \/ (row # "gone" /\ task[t].to = "blocked"))
    /\ nsfw' = (nsfw \/ (row # "gone" /\ task[t].to = "age_gated"))
    /\ Goto(t, "log")
    /\ UNCHANGED <<row, scan, rec, told>>

\* The moderation log; then the scanner's gate is marked once more.
AppendLog(t) ==
    /\ At(t, "log") /\ Steps
    /\ IF task[t].kind = "scan" /\ task[t].to = "age_gated"
       THEN Goto(t, "remark") /\ UNCHANGED told ELSE Answers(t)
    /\ UNCHANGED <<Work, rec>>

-----------------------------------------------------------------------------
(* What the handlers do besides. *)

\* The evidence comes before the state that is derived from it.
StoreScanResult(t) ==
    /\ At(t, "store") /\ Steps /\ Goto(t, "read")
    /\ \E a \in Advice : Verdict[a] = task[t].to /\ rec' = a
    /\ UNCHANGED <<Work, told>>

\* is_nsfw is written outside SetPostScanState too, and no error is looked at.
MarkNsfw(t) ==
    /\ At(t, "mark") \/ At(t, "remark")
    /\ \/ nsfw' = (nsfw \/ row # "gone") /\ UNCHANGED faults
       \/ faults < MaxFaults /\ faults' = faults + 1 /\ UNCHANGED nsfw
    /\ IF At(t, "mark") THEN Goto(t, "read") /\ UNCHANGED told ELSE Answers(t)
    /\ UNCHANGED <<row, scan, blocked, rec, memo, calls>>

\* ClearReportDrivenReview: only a work in review is let go ...
ReadReview(t) ==
    /\ At(t, "hold") /\ Steps
    /\ IF row # "gone" /\ scan = "human_review" THEN Goto(t, "advice") ELSE Done(t)
    /\ UNCHANGED <<Work, rec, told>>

\* ... that the scanner does not hold; advice that cannot be read is no hold.
ReadAdvice(t) ==
    /\ At(t, "advice")
    /\ \/ rec \in {"human_review", "auto_block"} /\ Done(t) /\ UNCHANGED faults
       \/ rec \notin {"human_review", "auto_block"} /\ Goto(t, "read") /\ UNCHANGED faults
       \/ faults < MaxFaults /\ faults' = faults + 1 /\ Goto(t, "read")
    /\ UNCHANGED <<Work, rec, told, memo, calls>>

\* resolveMediaOwners: the facts are read, and then remembered.
ReadOwner(t) ==
    /\ At(t, "owner") /\ Steps
    /\ task' = [task EXCEPT ![t] = [@ EXCEPT !.at = "put", !.seen = Owner]]
    /\ UNCHANGED <<Work, rec, told>>

PutOwner(t) ==
    /\ At(t, "put") /\ Done(t) /\ memo' = task[t].seen
    /\ UNCHANGED <<Work, rec, told, calls, faults>>

\* Mutant of Expire: what a work owns is remembered for good.
ExpireUnowned == /\ memo = Unowned /\ memo' = NoMemo
                 /\ UNCHANGED <<Work, rec, task, told, calls, faults>>

\* mediaOwnerTTL, and the sweep of a cache over its budget.
Expire == /\ memo # NoMemo /\ memo' = NoMemo
          /\ UNCHANGED <<Work, rec, task, told, calls, faults>>

-----------------------------------------------------------------------------
(* Single statements, and the transactions. *)

\* ReleaseStaleHumanReviewPosts: an operator's sweep, or "approve all".
ReleaseStaleHumanReview ==
    /\ Call /\ row = "live" /\ scan = "human_review"
    /\ scan' = "clean" /\ UNCHANGED <<row, blocked, nsfw, rec, memo, task, told, faults>>

SoftDelete == /\ Call /\ row = "live" /\ row' = "retired"
              /\ UNCHANGED <<scan, blocked, nsfw, rec, memo, task, told, faults>>

AdminDelete == /\ Call /\ row # "gone" /\ row' = "gone"
               /\ UNCHANGED <<scan, blocked, nsfw, rec, memo, task, told, faults>>

Arrive(t) == ScanComplete(t) \/ ModerationAction(t) \/ FileContentReport(t) \/ ResolveReport(t) \/ MediaGate(t)

Step(t) == \/ ReadState(t) \/ SetScanState(t) \/ SetFlag(t) \/ AppendLog(t) \/ StoreScanResult(t)
           \/ MarkNsfw(t) \/ ReadReview(t) \/ ReadAdvice(t) \/ ReadOwner(t) \/ PutOwner(t)

Next == \/ \E t \in Tasks : Arrive(t) \/ Step(t) \/ (~ At(t, "idle") /\ Fails(t))
        \/ Expire \/ ReleaseStaleHumanReview \/ SoftDelete \/ AdminDelete

Spec == Init /\ [][Next]_vars

\* A handler goes on, and a memo runs out.
FairSpec == Spec /\ WF_vars(Expire) /\ \A t \in Tasks : WF_vars(Step(t))

-----------------------------------------------------------------------------
\* workNotBlockedSQL
Shown == ~ blocked /\ scan # "blocked"

\* A decision somebody was told of stands: a work they were told is blocked is
\* never shown again, nor one they were told is gated without its gate, whatever
\* scans, reports, approvals and sweeps write afterwards or in between
\* (SetPostScanState: "a work the moderation queue shows as blocked and the feed
\* still serves").
DecisionsHold ==
    row # "gone" => /\ "blocked" \in told => ~ Shown
                    /\ "age_gated" \in told => nsfw

Remembered(fact) == memo = NoMemo \/ fact

\* "A delete or takedown closes the media within one TTL": what the wall has
\* remembered, or was about to remember, runs out, and the media of a work that
\* is retired, taken down or gated is closed or gated from then on.
MediaCloses ==
    /\ row = "retired" \/ "blocked" \in told ~> [](row = "gone" \/ Remembered(memo.closed))
    /\ "age_gated" \in told ~> [](row = "gone" \/ Remembered(memo.adult))
=============================================================================
