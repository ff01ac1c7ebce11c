---------------------------- MODULE HandlerProofs ---------------------------
(***************************************************************************)
(* What the handlers of the feed engine promise whose requests are many    *)
(* statements each (internal/handler).                                     *)
(*                                                                         *)
(* Messages, for any two accounts, any number of requests in flight and    *)
(* any faults: no plaintext enters a sealed conversation, no conversation  *)
(* opens before the authority agrees, a hold outlasts everything but its   *)
(* delivery, and an accepted knock delivers it.                            *)
(*                                                                         *)
(* The audience, for any surfaces and goroutines: a tally taken while a    *)
(* broadcast ran is not persisted after its end.                           *)
(***************************************************************************)
EXTENDS HeldMessages, LiveAudience, SequenceTheorems, TLAPS

Rows == [id : Nat, body : Nat, decision : Decisions]
Conversations == [mode : Modes, plain : SUBSET (Ends \X Nat), sealers : SUBSET Ends]

\* Who is given a conversation has been let through first.
Granted == \A r \in Requests : req[r].at \in {"findHeld", "ensure", "create"} => allowed # {}

\* The conversation a request writes into exists, in the mode it was read in.
Addressed ==
    \A r \in Requests :
        /\ req[r].at \in {"existing", "deliver", "blocks", "write", "seal"} => req[r].convo \in Direct
        /\ req[r].at \in {"blocks", "write"} => convos[req[r].convo].mode = "plain"
        /\ req[r].at = "seal" => convos[req[r].convo].mode = "sealed"

\* A row is released only by a request whose sender has been heard.
Heard == \A r \in Requests : req[r].at \in {"drop", "clear"} => Spoke(req[r].by)

\* An id names one row for ever, and a request carries only its sender's.
Owned ==
    /\ \A a \in Ends : held[a].id <= lastId
    /\ \A a, b \in Ends : held[a].id # 0 /\ held[a].id = held[b].id => a = b
    /\ \A r \in Requests : req[r].id <= lastId
    /\ \A r \in Requests, a \in Ends : req[r].id # 0 /\ held[a].id = req[r].id => a = req[r].by

IInv == TypeOK /\ NoPlainInSealed /\ NotBeforeTheyAgree /\ Granted /\ Addressed /\ Heard /\ Owned

-----------------------------------------------------------------------------
LEMMA TypeInit == Init => TypeOK
<1> SUFFICES ASSUME Init PROVE TypeOK
  OBVIOUS
<1>1. RowsType
  BY DEF Init, RowsType, NoRow, Decisions
<1>2. ConvosType
  BY DEF Init, ConvosType
<1>3. RequestsType
  BY EndsAssumption DEF Init, RequestsType, Idle, Requesting, Kinds, Places, Decisions
<1>4. AuthorityType /\ BooksType
  BY DEF Init, AuthorityType, BooksType
<1> QED
  BY <1>1, <1>2, <1>3, <1>4 DEF TypeOK

\* A request that arrives is one of the kinds, at a place, with its sender.
LEMMA EnterKept ==
  ASSUME RequestsType, calls \in Nat, NEW r \in Requests, NEW a \in Ends, NEW k \in Kinds,
         NEW p \in Places \ {"idle"}, NEW i \in Nat, NEW b \in Nat, NEW c \in Nat, Enter(r, a, k, p, i, b, c)
  PROVE  RequestsType' /\ calls' \in Nat
<1>1. \E q \in Requesting : q.by # Nobody /\ q.at # "idle" /\ req' = [req EXCEPT ![r] = q]
  BY EndsAssumption DEF Enter, Requesting, Decisions
<1>2. Called
  BY DEF Enter
<1>3. calls' \in Nat
  BY <1>2 DEF Called
<1> QED
  BY <1>1, <1>3 DEF RequestsType

\* A request goes on from its place, or is done.
LEMMA GotoKept ==
  ASSUME RequestsType, NEW r \in Requests, req[r].at # "idle", NEW p \in Places \ {"idle"}, Goto(r, p)
  PROVE  RequestsType'
BY EndsAssumption DEF Goto, RequestsType, Requesting

LEMMA DoneKept ==
  ASSUME RequestsType, NEW r \in Requests, NEW x \in {"", "held"}, Done(r, x)
  PROVE  RequestsType'
<1>1. Idle \in Requesting /\ Idle.by = Nobody /\ Idle.at = "idle"
  BY DEF Idle, Requesting, Kinds, Places, Decisions
<1>2. \E q \in Requesting : q.by = Nobody /\ q.at = "idle" /\ req' = [req EXCEPT ![r] = q]
  BY <1>1 DEF Done, Requesting
<1> QED
  BY <1>2 DEF RequestsType
\* ... with a conversation, a decision or a row in hand.
LEMMA MovedKept ==
  ASSUME RequestsType, NEW r \in Requests, req[r].at # "idle", NEW q \in Requesting,
         q.by = req[r].by, q.at # "idle", req' = [req EXCEPT ![r] = q]
  PROVE  RequestsType'
BY DEF RequestsType

LEMMA CarriedKept ==
  ASSUME RequestsType, NEW r \in Requests, req[r].at # "idle", NEW p \in Places \ {"idle"}
  PROVE  /\ \A c \in Nat : Into(r, p, c) => RequestsType'
         /\ \A d \in Decisions : Judge(r, p, d) => RequestsType'
         /\ \A i, b \in Nat : Carry(r, p, i, b) => RequestsType'
<1>0. req[r] \in Requesting
  BY DEF RequestsType
<1>1. ASSUME NEW c \in Nat, Into(r, p, c) PROVE RequestsType'
  <2>1. /\ [req[r] EXCEPT !.at = p, !.convo = c] \in Requesting
        /\ [req[r] EXCEPT !.at = p, !.convo = c].by = req[r].by
        /\ [req[r] EXCEPT !.at = p, !.convo = c].at = p
    BY <1>0 DEF Requesting
  <2> QED
    BY <1>1, <2>1, MovedKept DEF Into
<1>2. ASSUME NEW d \in Decisions, Judge(r, p, d) PROVE RequestsType'
  <2>1. /\ [req[r] EXCEPT !.at = p, !.decision = d] \in Requesting
        /\ [req[r] EXCEPT !.at = p, !.decision = d].by = req[r].by
        /\ [req[r] EXCEPT !.at = p, !.decision = d].at = p
    BY <1>0 DEF Requesting
  <2> QED
    BY <1>2, <2>1, MovedKept DEF Judge
<1>3. ASSUME NEW i \in Nat, NEW b \in Nat, Carry(r, p, i, b) PROVE RequestsType'
  <2>1. /\ [req[r] EXCEPT !.at = p, !.id = i, !.body = b] \in Requesting
        /\ [req[r] EXCEPT !.at = p, !.id = i, !.body = b].by = req[r].by
        /\ [req[r] EXCEPT !.at = p, !.id = i, !.body = b].at = p
    BY <1>0 DEF Requesting
  <2> QED
    BY <1>3, <2>1, MovedKept DEF Carry
<1> QED
  BY <1>1, <1>2, <1>3

\* The rows after each of the statements that write them.
LEMMA UpsertKept ==
  ASSUME RowsType, lastId \in Nat, NEW a \in Ends, NEW b \in Nat, UpsertPending(a, b)
  PROVE  RowsType' /\ lastId' \in Nat /\ held'[a].id \in Nat
<1> DEFINE i == IF held[a].id = 0 THEN lastId + 1 ELSE held[a].id
<1>1. i \in Nat
  BY DEF RowsType
<1>2. held' = [held EXCEPT ![a] = [id |-> i, body |-> b, decision |-> ""]]
  BY DEF UpsertPending
<1>3. lastId' = IF held[a].id = 0 THEN lastId + 1 ELSE lastId
  BY DEF UpsertPending
<1>4. [id |-> i, body |-> b, decision |-> ""] \in Rows
  BY <1>1 DEF Rows, Decisions
<1> HIDE DEF i
<1>5. RowsType' /\ held'[a].id \in Nat
  BY <1>1, <1>2, <1>4 DEF RowsType, Rows
<1> QED
  BY <1>3, <1>5

LEMMA DecisionKept ==
  ASSUME RowsType, NEW i \in Nat, NEW d \in Decisions, SetPendingDecision(i, d) PROVE RowsType'
BY DEF SetPendingDecision, RowsType

LEMMA NoRowIsRow == NoRow \in [id : Nat, body : Nat, decision : Decisions]
BY DEF NoRow, Decisions

LEMMA DeleteKept ==
  ASSUME RowsType, NEW i, DeletePending(i) PROVE RowsType'
BY DEF DeletePending, RowsType, NoRow, Decisions

\* The conversations after each of the statements that write them.
LEMMA PlainKept ==
  ASSUME ConvosType, NEW c \in Direct, NEW a \in Ends, NEW b \in Nat, InsertPlainMessage(c, a, b)
  PROVE  ConvosType' /\ Len(convos') = Len(convos)
<1> DEFINE q == [mode |-> convos[c].mode, plain |-> convos[c].plain \cup {<<a, b>>}, sealers |-> convos[c].sealers]
<1>0. convos \in Seq(Conversations) /\ c \in 1..Len(convos)
  BY DEF ConvosType, Direct, Conversations
<1>1. convos[c] \in Conversations
  BY <1>0
<1>2. q \in Conversations
  BY <1>1 DEF Conversations
<1>3. convos' = [convos EXCEPT ![c] = q]
  BY DEF InsertPlainMessage
<1> HIDE DEF q
<1> QED
  BY <1>0, <1>1, <1>2, <1>3, ExceptSeq DEF ConvosType, Conversations

LEMMA SealedKept ==
  ASSUME ConvosType, NEW c \in Direct, NEW a \in Ends, InsertSealedMessage(c, a)
  PROVE  ConvosType' /\ Len(convos') = Len(convos)
<1> DEFINE q == [mode |-> convos[c].mode, plain |-> convos[c].plain, sealers |-> convos[c].sealers \cup {a}]
<1>0. convos \in Seq(Conversations) /\ c \in 1..Len(convos)
  BY DEF ConvosType, Direct, Conversations
<1>1. convos[c] \in Conversations
  BY <1>0
<1>2. q \in Conversations
  BY <1>1 DEF Conversations
<1>3. convos' = [convos EXCEPT ![c] = q]
  BY DEF InsertSealedMessage
<1> HIDE DEF q
<1> QED
  BY <1>0, <1>1, <1>2, <1>3, ExceptSeq DEF ConvosType, Conversations

LEMMA CreateKept ==
  ASSUME ConvosType, NEW m \in Modes, CreateConversation(m)
  PROVE  ConvosType' /\ Len(convos') = Len(convos) + 1
BY DEF CreateConversation, ConvosType

\* Whoever arrives is well formed.
LEMMA TypeArrive ==
  ASSUME TypeOK, NEW r \in Requests, Arrive(r) PROVE TypeOK'
<1> PICK a \in Ends : Say(r, a) \/ SendSealed(r, a) \/ OpenByNumber(r, a) \/ ReleaseHeld(r, a) \/ AcceptKnock(r, a)
  BY DEF Arrive
<1>t. RowsType /\ ConvosType /\ RequestsType /\ AuthorityType /\ BooksType
  BY DEF TypeOK
<1>1. \E k \in Kinds, p \in Places \ {"idle"}, i, b, c \in Nat : Enter(r, a, k, p, i, b, c)
  <2>1. said[a] + 1 \in Nat /\ held[a].id \in Nat /\ held[a].body \in Nat
    BY <1>t DEF BooksType, RowsType
  <2>2. \A c \in Direct : c \in Nat
    BY DEF Direct
  <2> QED
    BY <2>1, <2>2 DEF Say, SendSealed, OpenByNumber, ReleaseHeld, AcceptKnock, Kinds, Places
<1>2. RequestsType' /\ calls' \in Nat
  BY <1>1, <1>t, EnterKept DEF BooksType
<1>3. UNCHANGED <<held, convos, blocks, lastId, faults>> /\ RowsType' /\ ConvosType'
  BY <1>t DEF Say, SendSealed, OpenByNumber, ReleaseHeld, AcceptKnock, RowsType, ConvosType
<1>4. said' \in [Ends -> Nat]
  BY <1>t DEF Say, SendSealed, OpenByNumber, ReleaseHeld, AcceptKnock, BooksType
<1>5. AuthorityType'
  <2>1. CASE AcceptKnock(r, a)
    BY <2>1, <1>t DEF AcceptKnock, AuthorityType, RowsType
  <2> QED
    BY <2>1, <1>t DEF Say, SendSealed, OpenByNumber, ReleaseHeld, Authority, AuthorityType
<1> QED
  BY <1>2, <1>3, <1>4, <1>5, <1>t DEF TypeOK, BooksType
-----------------------------------------------------------------------------
\* A statement fails, or does not.
LEMMA FaultsCounted ==
  ASSUME BooksType, Fault \/ UNCHANGED faults, lastId' \in Nat, Kept PROVE BooksType'
BY DEF BooksType, Fault, Kept

\* A step that only moves its request on.
LEMMA MoveKept ==
  ASSUME TypeOK, Fault \/ UNCHANGED faults, RequestsType', UNCHANGED <<held, convos, Authority, lastId>>, Kept
  PROVE  TypeOK'
<1>1. BooksType'
  BY FaultsCounted DEF TypeOK, BooksType
<1> QED
  BY <1>1 DEF TypeOK, RowsType, ConvosType, Authority, AuthorityType

LEMMA RefusedKept ==
  ASSUME RequestsType, NEW r \in Requests, req[r].at # "idle", Refused(r) PROVE RequestsType'
BY DoneKept, CarriedKept DEF Refused, Places, Decisions

LEMMA TypeFind ==
  ASSUME TypeOK, NEW r \in Requests, Find(r) PROVE TypeOK'
<1>t. RequestsType /\ req[r].at = "find"
  BY DEF TypeOK, Find
<1>d. \A c \in Direct : c \in Nat
  BY DEF Direct
<1>2. RequestsType'
  BY <1>t, <1>d, CarriedKept, GotoKept, DoneKept DEF Find, Places
<1> QED
  BY <1>2, MoveKept DEF Find, OrFault

LEMMA TypeFindPending ==
  ASSUME TypeOK, NEW r \in Requests, FindPending(r) PROVE TypeOK'
<1>t. RequestsType /\ req[r].at = "existing" /\ req[r].by \in Ends /\ req[r].body \in Nat
  BY DEF TypeOK, FindPending, RequestsType, Requesting
<1>h. held[req[r].by].id \in Nat
  BY <1>t DEF TypeOK, RowsType
<1>2. RequestsType'
  BY <1>t, <1>h, CarriedKept, GotoKept DEF FindPending, Places
<1> QED
  BY <1>2, MoveKept DEF FindPending

LEMMA TypeHold ==
  ASSUME TypeOK, NEW r \in Requests, Hold(r) PROVE TypeOK'
<1>t. RequestsType /\ RowsType /\ lastId \in Nat /\ req[r].at = "hold" /\ req[r].by \in Ends /\ req[r].body \in Nat
  BY DEF TypeOK, BooksType, Hold, RequestsType, Requesting
<1>2. RowsType' /\ lastId' \in Nat
  BY <1>t, UpsertKept DEF Hold, RowsType
<1>3. RequestsType'
  BY <1>t, UpsertKept, CarriedKept, DoneKept DEF Hold, Places
<1>5. BooksType'
  BY <1>2, FaultsCounted DEF Hold, TypeOK
<1> QED
  BY <1>2, <1>3, <1>5 DEF Hold, TypeOK, ConvosType, Authority, AuthorityType
LEMMA TypeAsk ==
  ASSUME TypeOK, NEW r \in Requests, Ask(r) PROVE TypeOK'
<1>t. RequestsType /\ AuthorityType /\ req[r].at = "ask" /\ req[r].by \in Ends
  BY DEF TypeOK, Ask, RequestsType, Requesting
<1>1. Allowed(r) => RequestsType' /\ AuthorityType'
  BY <1>t, GotoKept DEF Allowed, AuthorityType, Places
<1>2. Requested(r) => RequestsType' /\ AuthorityType'
  <2>1. Requested(r) => RequestsType'
    BY <1>t, CarriedKept, DoneKept DEF Requested, Places, Decisions
  <2>2. Requested(r) => AuthorityType'
    BY <1>t DEF Requested, AuthorityType
  <2> QED
    BY <2>1, <2>2
<1>3. Denied(r) => RequestsType' /\ AuthorityType'
  <2>1. Denied(r) => RequestsType'
    BY <1>t, CarriedKept, DoneKept DEF Denied, Places, Decisions
  <2>2. Denied(r) => AuthorityType'
    BY <1>t DEF Denied, Authority, AuthorityType
  <2> QED
    BY <2>1, <2>2
<1>4. Unanswered(r) => RequestsType' /\ AuthorityType'
  <2>1. Unanswered(r) => RequestsType'
    BY <1>t, RefusedKept DEF Unanswered
  <2>2. Unanswered(r) => AuthorityType'
    BY <1>t DEF Unanswered, AuthorityType
  <2> QED
    BY <2>1, <2>2
<1>5. RequestsType' /\ AuthorityType'
  BY <1>1, <1>2, <1>3, <1>4 DEF Ask
<1>6. BooksType'
  BY FaultsCounted DEF Ask, Allowed, Requested, Denied, Unanswered, TypeOK, BooksType
<1> QED
  BY <1>5, <1>6 DEF Ask, TypeOK, RowsType, ConvosType

LEMMA TypeGate ==
  ASSUME TypeOK, NEW r \in Requests, Gate(r) PROVE TypeOK'
<1>t. RequestsType /\ RowsType /\ req[r].id \in Nat /\ req[r].decision \in Decisions
  BY DEF TypeOK, RequestsType, Requesting
<1>1. RequestsType'
  BY <1>t, DoneKept DEF Gate
<1>2. RowsType'
  BY <1>t, DecisionKept DEF Gate, RowsType
<1>3. BooksType'
  BY FaultsCounted DEF Gate, TypeOK, BooksType
<1> QED
  BY <1>1, <1>2, <1>3 DEF Gate, TypeOK, ConvosType, Authority, AuthorityType

LEMMA TypeUse ==
  ASSUME RequestsType, NEW r \in Requests, req[r].at # "idle", NEW c \in Nat, NEW m, Use(r, c, m)
  PROVE  RequestsType'
BY CarriedKept, DoneKept DEF Use, Places

LEMMA TypeEnsure ==
  ASSUME TypeOK, NEW r \in Requests, Ensure(r) PROVE TypeOK'
<1>t. RequestsType /\ req[r].at = "ensure"
  BY DEF TypeOK, Ensure
<1>d. \A c \in Direct : c \in Nat
  BY DEF Direct
<1>1. RequestsType'
  BY <1>t, <1>d, TypeUse, GotoKept DEF Ensure, Places
<1> QED
  BY <1>1, MoveKept DEF Ensure, OrFault

LEMMA TypeCreate ==
  ASSUME TypeOK, NEW r \in Requests, Create(r) PROVE TypeOK'
<1>t. RequestsType /\ ConvosType /\ req[r].at = "create" /\ Len(convos) + 1 \in Nat
  BY DEF TypeOK, Create, ConvosType
<1>1. RequestsType'
  BY <1>t, TypeUse, RefusedKept DEF Create
<1>2. ConvosType'
  BY <1>t, CreateKept DEF Create, ConvosType
<1>3. BooksType'
  BY FaultsCounted DEF Create, TypeOK, BooksType
<1> QED
  BY <1>1, <1>2, <1>3 DEF Create, TypeOK, RowsType, Authority, AuthorityType

LEMMA TypeFindHeld ==
  ASSUME TypeOK, NEW r \in Requests, FindHeld(r) PROVE TypeOK'
<1>t. RequestsType /\ req[r].at = "findHeld" /\ req[r].by \in Ends
  BY DEF TypeOK, FindHeld, RequestsType, Requesting
<1>h. held[req[r].by].id \in Nat /\ held[req[r].by].body \in Nat
  BY <1>t DEF TypeOK, RowsType
<1>1. RequestsType'
  BY <1>t, <1>h, CarriedKept, DoneKept DEF FindHeld, Places
<1> QED
  BY <1>1, MoveKept DEF FindHeld, OrFault

LEMMA TypeDeliver ==
  ASSUME TypeOK, Addressed, NEW r \in Requests, Deliver(r) PROVE TypeOK'
<1>t. RequestsType /\ ConvosType /\ req[r].at = "deliver" /\ req[r].by \in Ends /\ req[r].body \in Nat
  BY DEF TypeOK, Deliver, RequestsType, Requesting
<1>c. req[r].convo \in Direct
  BY <1>t DEF Addressed
<1>1. RequestsType'
  BY <1>t, GotoKept, DoneKept DEF Deliver, Places
<1>2. ConvosType'
  BY <1>t, <1>c, PlainKept DEF Deliver, ConvosType
<1>3. BooksType'
  BY FaultsCounted DEF Deliver, OrFault, TypeOK, BooksType
<1> QED
  BY <1>1, <1>2, <1>3 DEF Deliver, TypeOK, RowsType, Authority, AuthorityType

LEMMA TypeDrop ==
  ASSUME TypeOK, NEW r \in Requests, Drop(r) PROVE TypeOK'
<1>1. RequestsType'
  BY DoneKept DEF Drop, TypeOK
<1>2. RowsType'
  BY DeleteKept DEF Drop, TypeOK, RowsType
<1>3. BooksType'
  BY FaultsCounted DEF Drop, TypeOK, BooksType
<1> QED
  BY <1>1, <1>2, <1>3 DEF Drop, TypeOK, ConvosType, Authority, AuthorityType
LEMMA TypeUndeliverableTo ==
  ASSUME TypeOK, NEW r \in Requests, UndeliverableTo(r) PROVE TypeOK'
<1>t. RequestsType /\ req[r].at = "blocks"
  BY DEF TypeOK, UndeliverableTo
<1>1. RequestsType'
  BY <1>t, GotoKept, DoneKept DEF UndeliverableTo, Places
<1> QED
  BY <1>1, MoveKept DEF UndeliverableTo, OrFault

LEMMA TypeHoldUndelivered ==
  ASSUME TypeOK, NEW r \in Requests, HoldUndelivered(r) PROVE TypeOK'
<1>t. RequestsType /\ RowsType /\ lastId \in Nat /\ req[r].at = "undelivered" /\ req[r].by \in Ends /\ req[r].body \in Nat
  BY DEF TypeOK, BooksType, HoldUndelivered, RequestsType, Requesting
<1>1. RequestsType'
  BY <1>t, DoneKept DEF HoldUndelivered
<1>2. RowsType' /\ lastId' \in Nat
  BY <1>t, UpsertKept DEF HoldUndelivered, RowsType
<1>3. BooksType'
  BY <1>2, FaultsCounted DEF HoldUndelivered, TypeOK
<1> QED
  BY <1>1, <1>2, <1>3 DEF HoldUndelivered, TypeOK, ConvosType, Authority, AuthorityType

LEMMA TypeWrite ==
  ASSUME TypeOK, Addressed, NEW r \in Requests, Write(r) PROVE TypeOK'
<1>t. RequestsType /\ ConvosType /\ req[r].at \in {"write", "seal"} /\ req[r].by \in Ends /\ req[r].body \in Nat
  BY DEF TypeOK, Write, RequestsType, Requesting
<1>c. req[r].convo \in Direct
  BY <1>t DEF Addressed
<1>1. RequestsType'
  BY <1>t, GotoKept, DoneKept DEF Write, Places
<1>2. ConvosType'
  BY <1>t, <1>c, PlainKept, SealedKept DEF Write, ConvosType
<1>3. BooksType'
  BY FaultsCounted DEF Write, TypeOK, BooksType
<1> QED
  BY <1>1, <1>2, <1>3 DEF Write, TypeOK, RowsType, Authority, AuthorityType

LEMMA TypeClear ==
  ASSUME TypeOK, NEW r \in Requests, Clear(r) PROVE TypeOK'
<1>1. RequestsType'
  BY DoneKept DEF Clear, TypeOK
<1>2. RowsType'
  BY NoRowIsRow DEF Clear, DeletePendingForConversationPeer, TypeOK, RowsType
<1>3. BooksType'
  BY FaultsCounted DEF Clear, TypeOK, BooksType
<1> QED
  BY <1>1, <1>2, <1>3 DEF Clear, TypeOK, ConvosType, Authority, AuthorityType

LEMMA TypeDie ==
  ASSUME TypeOK, NEW r \in Requests, Die(r) PROVE TypeOK'
<1>1. RequestsType'
  BY DoneKept DEF Die, TypeOK
<1> QED
  BY <1>1, MoveKept DEF Die

LEMMA TypeOther ==
  ASSUME TypeOK, NEW a \in Ends, DeclineKnock(a) \/ Block(a) \/ GnosisPendingSweep(a) PROVE TypeOK'
<1>t. RowsType /\ ConvosType /\ RequestsType /\ AuthorityType /\ BooksType
  BY DEF TypeOK
<1>1. RequestsType' /\ ConvosType'
  BY <1>t DEF DeclineKnock, Block, GnosisPendingSweep, RequestsType, ConvosType
<1>2. RowsType'
  BY <1>t, NoRowIsRow DEF DeclineKnock, Block, GnosisPendingSweep, RowsType
<1>3. AuthorityType'
  BY <1>t DEF DeclineKnock, Block, GnosisPendingSweep, Authority, AuthorityType
<1>4. BooksType'
  BY <1>t DEF DeclineKnock, Block, GnosisPendingSweep, BooksType, Called, Kept
<1> QED
  BY <1>1, <1>2, <1>3, <1>4 DEF TypeOK

LEMMA TypeStep ==
  ASSUME TypeOK, Addressed, [Next]_vars PROVE TypeOK'
<1>1. CASE UNCHANGED vars
  BY <1>1 DEF vars, TypeOK, RowsType, ConvosType, RequestsType, AuthorityType, BooksType
<1>2. ASSUME NEW r \in Requests, Arrive(r) PROVE TypeOK'
  BY <1>2, TypeArrive
<1>3. ASSUME NEW r \in Requests, Step(r) PROVE TypeOK'
  BY <1>3, TypeFind, TypeFindPending, TypeHold, TypeAsk, TypeGate, TypeEnsure, TypeCreate, TypeFindHeld, TypeDeliver,
     TypeDrop, TypeUndeliverableTo, TypeHoldUndelivered, TypeWrite, TypeClear, TypeDie DEF Step
<1> QED
  BY <1>1, <1>2, <1>3, TypeOther DEF Next
-----------------------------------------------------------------------------
\* What is left of a request after it was moved, and of the others.
LEMMA Fields ==
  ASSUME RequestsType, NEW r \in Requests
  PROVE  /\ \A p : Goto(r, p) => /\ req'[r].at = p /\ req'[r].by = req[r].by
                                /\ req'[r].convo = req[r].convo /\ req'[r].id = req[r].id
         /\ \A p, c : Into(r, p, c) => /\ req'[r].at = p /\ req'[r].by = req[r].by
                                      /\ req'[r].convo = c /\ req'[r].id = req[r].id
         /\ \A p, d : Judge(r, p, d) => /\ req'[r].at = p /\ req'[r].by = req[r].by
                                       /\ req'[r].convo = req[r].convo /\ req'[r].id = req[r].id
         /\ \A p, n, b : Carry(r, p, n, b) => /\ req'[r].at = p /\ req'[r].by = req[r].by
                                             /\ req'[r].convo = req[r].convo /\ req'[r].id = n
         /\ \A x : Done(r, x) => req'[r].at = "idle" /\ req'[r].id = 0
<1>1. req[r] \in Requesting /\ DOMAIN req = Requests
  BY DEF RequestsType
<1>2. ASSUME NEW p, Goto(r, p) PROVE /\ req'[r].at = p /\ req'[r].by = req[r].by
                                    /\ req'[r].convo = req[r].convo /\ req'[r].id = req[r].id
  BY <1>1, <1>2 DEF Goto, Requesting
<1>3. ASSUME NEW p, NEW c, Into(r, p, c) PROVE /\ req'[r].at = p /\ req'[r].by = req[r].by
                                              /\ req'[r].convo = c /\ req'[r].id = req[r].id
  BY <1>1, <1>3 DEF Into, Requesting
<1>4. ASSUME NEW p, NEW d, Judge(r, p, d) PROVE /\ req'[r].at = p /\ req'[r].by = req[r].by
                                               /\ req'[r].convo = req[r].convo /\ req'[r].id = req[r].id
  BY <1>1, <1>4 DEF Judge, Requesting
<1>5. ASSUME NEW p, NEW n, NEW b, Carry(r, p, n, b) PROVE /\ req'[r].at = p /\ req'[r].by = req[r].by
                                                         /\ req'[r].convo = req[r].convo /\ req'[r].id = n
  BY <1>1, <1>5 DEF Carry, Requesting
<1>6. ASSUME NEW x, Done(r, x) PROVE req'[r].at = "idle" /\ req'[r].id = 0
  BY <1>1, <1>6 DEF Done, Idle
<1> QED
  BY <1>2, <1>3, <1>4, <1>5, <1>6

LEMMA EnteredFields ==
  ASSUME RequestsType, NEW r \in Requests, NEW a, NEW k, NEW p, NEW n, NEW b, NEW c, Enter(r, a, k, p, n, b, c)
  PROVE  req'[r].at = p /\ req'[r].by = a /\ req'[r].convo = c /\ req'[r].id = n
<1>1. DOMAIN req = Requests
  BY DEF RequestsType
<1> QED
  BY <1>1 DEF Enter

\* One request moves at a time.
LEMMA OthersKept ==
  ASSUME RequestsType, NEW r \in Requests, NEW q \in Requests \ {r}
  PROVE  /\ \A p : Goto(r, p) => req'[q] = req[q]
         /\ \A p, c : Into(r, p, c) => req'[q] = req[q]
         /\ \A p, d : Judge(r, p, d) => req'[q] = req[q]
         /\ \A p, n, b : Carry(r, p, n, b) => req'[q] = req[q]
         /\ \A x : Done(r, x) => req'[q] = req[q]
         /\ \A a, k, p, n, b, c : Enter(r, a, k, p, n, b, c) => req'[q] = req[q]
<1>1. DOMAIN req = Requests
  BY DEF RequestsType
<1> QED
  BY <1>1 DEF Goto, Into, Judge, Carry, Done, Enter

LEMMA OthersStay ==
  ASSUME RequestsType, NEW r \in Requests, Arrive(r) \/ Step(r), NEW q \in Requests \ {r}
  PROVE  req'[q] = req[q]
<1>1. CASE Arrive(r)
  BY <1>1, OthersKept DEF Arrive, Say, SendSealed, OpenByNumber, ReleaseHeld, AcceptKnock
<1>2. ASSUME Refused(r) PROVE req'[q] = req[q]
  BY <1>2, OthersKept DEF Refused
<1>3. ASSUME NEW c, NEW m, Use(r, c, m) PROVE req'[q] = req[q]
  BY <1>3, OthersKept DEF Use
<1>4. Find(r) \/ FindPending(r) \/ Hold(r) \/ Gate(r) => req'[q] = req[q]
  BY OthersKept DEF Find, FindPending, Hold, Gate
<1>5. Ask(r) => req'[q] = req[q]
  BY <1>2, OthersKept DEF Ask, Allowed, Requested, Denied, Unanswered
<1>6. Ensure(r) \/ Create(r) => req'[q] = req[q]
  BY <1>2, <1>3, OthersKept DEF Ensure, Create
<1>7. FindHeld(r) \/ Deliver(r) \/ Drop(r) \/ UndeliverableTo(r) \/ HoldUndelivered(r) => req'[q] = req[q]
  BY OthersKept DEF FindHeld, Deliver, Drop, UndeliverableTo, HoldUndelivered
<1>8. Write(r) \/ Clear(r) \/ Die(r) => req'[q] = req[q]
  BY OthersKept DEF Write, Clear, Die
<1> QED
  BY <1>1, <1>4, <1>5, <1>6, <1>7, <1>8 DEF Step
-----------------------------------------------------------------------------
\* Conversations are only added to.
Grows == \A c \in Direct : /\ c \in Direct' /\ convos'[c].mode = convos[c].mode
                          /\ convos[c].plain \subseteq convos'[c].plain
                          /\ convos[c].sealers \subseteq convos'[c].sealers

LEMMA SameGrows == UNCHANGED convos => Grows
BY DEF Grows, Direct

LEMMA InsertGrows ==
  ASSUME ConvosType, NEW c \in Direct, NEW a \in Ends, NEW b \in Nat
  PROVE  /\ InsertPlainMessage(c, a, b) => Grows /\ <<a, b>> \in convos'[c].plain
         /\ InsertPlainMessage(c, a, b) => \A d \in Direct \ {c} : convos'[d] = convos[d]
         /\ InsertSealedMessage(c, a) => Grows /\ a \in convos'[c].sealers
         /\ InsertSealedMessage(c, a) => \A d \in Direct : convos'[d].plain = convos[d].plain
<1>0. convos \in Seq(Conversations) /\ c \in 1..Len(convos) /\ DOMAIN convos = 1..Len(convos)
  BY DEF ConvosType, Direct, Conversations
<1>1. ASSUME InsertPlainMessage(c, a, b)
      PROVE  /\ Len(convos') = Len(convos)
             /\ \A d \in Direct \ {c} : convos'[d] = convos[d]
             /\ convos'[c].mode = convos[c].mode /\ convos'[c].sealers = convos[c].sealers
             /\ convos'[c].plain = convos[c].plain \cup {<<a, b>>}
  BY <1>0, <1>1, PlainKept DEF InsertPlainMessage, Direct
<1>2. ASSUME InsertSealedMessage(c, a)
      PROVE  /\ Len(convos') = Len(convos)
             /\ \A d \in Direct \ {c} : convos'[d] = convos[d]
             /\ convos'[c].mode = convos[c].mode /\ convos'[c].plain = convos[c].plain
             /\ convos'[c].sealers = convos[c].sealers \cup {a}
  BY <1>0, <1>2, SealedKept DEF InsertSealedMessage, Direct
<1> QED
  BY <1>0, <1>1, <1>2 DEF Grows, Direct

LEMMA CreateGrows ==
  ASSUME ConvosType, NEW m \in Modes, CreateConversation(m)
  PROVE  /\ Grows /\ Len(convos) + 1 \in Direct' /\ Direct' = Direct \cup {Len(convos) + 1}
         /\ convos'[Len(convos) + 1].mode = m /\ convos'[Len(convos) + 1].plain = {}
         /\ \A d \in Direct : convos'[d] = convos[d]
<1> DEFINE q == [mode |-> m, plain |-> {}, sealers |-> {}]
<1>0. convos \in Seq(Conversations) /\ q \in Conversations /\ convos' = Append(convos, q)
  BY DEF ConvosType, Conversations, CreateConversation
<1>q. q.mode = m /\ q.plain = {}
  OBVIOUS
<1> HIDE DEF q
<1>1. Len(convos') = Len(convos) + 1 /\ Len(convos) \in Nat
  BY <1>0
<1>2. convos'[Len(convos) + 1] = q /\ \A d \in 1..Len(convos) : convos'[d] = convos[d]
  BY <1>0, AppendProperties
<1> QED
  BY <1>1, <1>2, <1>q DEF Grows, Direct

\* Three statements write a conversation.
LEMMA OnlyThese ==
  ASSUME [Next]_vars
  PROVE  UNCHANGED convos \/ \E r \in Requests : Deliver(r) \/ Write(r) \/ Create(r)
<1>1. ASSUME NEW r \in Requests, Arrive(r) PROVE UNCHANGED convos
  BY <1>1 DEF Arrive, Say, SendSealed, OpenByNumber, ReleaseHeld, AcceptKnock
<1>2. ASSUME NEW r \in Requests, Step(r) PROVE Deliver(r) \/ Write(r) \/ Create(r) \/ UNCHANGED convos
  BY <1>2 DEF Step, Find, FindPending, Hold, Ask, Gate, Ensure, FindHeld, Drop, UndeliverableTo, HoldUndelivered, Clear, Die
<1>3. ASSUME NEW a \in Ends, DeclineKnock(a) \/ Block(a) \/ GnosisPendingSweep(a) PROVE UNCHANGED convos
  BY <1>3 DEF DeclineKnock, Block, GnosisPendingSweep
<1> QED
  BY <1>1, <1>2, <1>3 DEF Next, vars

LEMMA StepGrows ==
  ASSUME TypeOK, Addressed, [Next]_vars PROVE Grows
<1>t. ConvosType /\ RequestsType
  BY DEF TypeOK
<1>1. ASSUME NEW r \in Requests, Deliver(r) \/ Write(r) PROVE Grows
  <2>1. req[r].convo \in Direct
    BY <1>1 DEF Addressed, Deliver, Write
  <2>2. req[r].by \in Ends /\ req[r].body \in Nat
    BY <1>t, <1>1 DEF RequestsType, Requesting, Deliver, Write
  <2> QED
    BY <1>t, <1>1, <2>1, <2>2, InsertGrows, SameGrows DEF Deliver, Write
<1>2. ASSUME NEW r \in Requests, Create(r) PROVE Grows
  BY <1>t, <1>2, CreateGrows, SameGrows DEF Create
<1> QED
  BY <1>1, <1>2, OnlyThese, SameGrows

LEMMA AllowedGrows == [Next]_vars => allowed \subseteq allowed'
<1>1. ASSUME NEW r \in Requests, Arrive(r) PROVE allowed \subseteq allowed'
  BY <1>1 DEF Arrive, Say, SendSealed, OpenByNumber, ReleaseHeld, AcceptKnock, Authority
<1>2. ASSUME NEW r \in Requests, Step(r) PROVE allowed \subseteq allowed'
  BY <1>2 DEF Step, Find, FindPending, Hold, Ask, Allowed, Requested, Denied, Unanswered, Gate, Ensure, Create, FindHeld,
     Deliver, Drop, UndeliverableTo, HoldUndelivered, Write, Clear, Die, Authority
<1>3. ASSUME NEW a \in Ends, DeclineKnock(a) \/ Block(a) \/ GnosisPendingSweep(a) PROVE allowed \subseteq allowed'
  BY <1>3 DEF DeclineKnock, Block, GnosisPendingSweep, Authority
<1> QED
  BY <1>1, <1>2, <1>3 DEF Next, vars

\* Where each step leaves its request, and with what in hand.
Landed(r, places) == /\ req'[r].at \in places
                     /\ \/ req'[r].at = "idle" /\ req'[r].id = 0
                        \/ req'[r].by = req[r].by
Holding(r) == req'[r].at = "idle" \/ req'[r].id = req[r].id
SameConvo(r) == req'[r].at = "idle" \/ req'[r].convo = req[r].convo

LEMMA Landing ==
  ASSUME RequestsType, NEW r \in Requests
  PROVE  /\ \A p : Goto(r, p) => Landed(r, {p}) /\ Holding(r) /\ SameConvo(r)
         /\ \A p, c : Into(r, p, c) => Landed(r, {p}) /\ Holding(r) /\ req'[r].convo = c
         /\ \A p, d : Judge(r, p, d) => Landed(r, {p}) /\ Holding(r) /\ SameConvo(r)
         /\ \A p, n, b : Carry(r, p, n, b) => Landed(r, {p}) /\ SameConvo(r) /\ req'[r].id = n
         /\ \A x : Done(r, x) => Landed(r, {"idle"}) /\ Holding(r) /\ SameConvo(r)
<1>0. req[r] \in Requesting /\ DOMAIN req = Requests
  BY DEF RequestsType
<1>1. ASSUME NEW p, Goto(r, p) PROVE Landed(r, {p}) /\ Holding(r) /\ SameConvo(r)
  <2>1. req'[r].at = p /\ req'[r].by = req[r].by /\ req'[r].id = req[r].id /\ req'[r].convo = req[r].convo
    BY <1>1, Fields, Zenon
  <2> QED
    BY <2>1 DEF Landed, Holding, SameConvo
<1>2. ASSUME NEW p, NEW c, Into(r, p, c) PROVE Landed(r, {p}) /\ Holding(r) /\ req'[r].convo = c
  <2>1. req'[r].at = p /\ req'[r].by = req[r].by /\ req'[r].id = req[r].id /\ req'[r].convo = c
    BY <1>0, <1>2 DEF Into, Requesting
  <2> QED
    BY <2>1 DEF Landed, Holding
<1>3. ASSUME NEW p, NEW d, Judge(r, p, d) PROVE Landed(r, {p}) /\ Holding(r) /\ SameConvo(r)
  <2>1. req'[r].at = p /\ req'[r].by = req[r].by /\ req'[r].id = req[r].id /\ req'[r].convo = req[r].convo
    BY <1>3, Fields, Zenon
  <2> QED
    BY <2>1 DEF Landed, Holding, SameConvo
<1>4. ASSUME NEW p, NEW n, NEW b, Carry(r, p, n, b) PROVE Landed(r, {p}) /\ SameConvo(r) /\ req'[r].id = n
  <2>1. req'[r].at = p /\ req'[r].by = req[r].by /\ req'[r].id = n /\ req'[r].convo = req[r].convo
    BY <1>0, <1>4 DEF Carry, Requesting
  <2> QED
    BY <2>1 DEF Landed, SameConvo
<1>5. ASSUME NEW x, Done(r, x) PROVE Landed(r, {"idle"}) /\ Holding(r) /\ SameConvo(r)
  <2>1. req'[r].at = "idle" /\ req'[r].id = 0
    BY <1>5, Fields, Zenon
  <2> QED
    BY <2>1 DEF Landed, Holding, SameConvo
<1> QED
  BY <1>1, <1>2, <1>3, <1>4, <1>5

LEMMA RefusedLands ==
  ASSUME RequestsType, NEW r \in Requests, Refused(r) PROVE Landed(r, {"idle", "gate"}) /\ Holding(r)
BY Landing, Zenon DEF Refused, Landed

LEMMA UseLands ==
  ASSUME RequestsType, NEW r \in Requests, NEW c, NEW m, Use(r, c, m)
  PROVE  /\ Landed(r, {"idle", "deliver", "blocks"}) /\ Holding(r)
         /\ req'[r].at # "idle" => req'[r].convo = c
         /\ req'[r].at = "blocks" => m = "plain"
<1>0. req[r] \in Requesting /\ DOMAIN req = Requests
  BY DEF RequestsType
<1>1. CASE Into(r, "deliver", c)
  BY <1>0, <1>1 DEF Landed, Holding, Into, Requesting
<1>2. CASE m = "plain" /\ Into(r, "blocks", c)
  BY <1>0, <1>2 DEF Landed, Holding, Into, Requesting
<1>3. CASE Done(r, "")
  BY <1>3, Fields, Zenon DEF Landed, Holding
<1> QED
  BY <1>1, <1>2, <1>3 DEF Use

LEMMA FindLands ==
  ASSUME RequestsType, NEW r \in Requests, Find(r)
  PROVE  /\ Landed(r, {"idle", "hold", "existing", "blocks"}) /\ Holding(r) /\ UNCHANGED <<convos, allowed, held>>
         /\ req'[r].at \in {"existing", "blocks"} => req'[r].convo \in Direct
         /\ req'[r].at = "blocks" => convos[req'[r].convo].mode = "plain"
<1>0. req[r] \in Requesting /\ DOMAIN req = Requests
  BY DEF RequestsType
<1>1. CASE \E c \in Direct : Into(r, "existing", c)
  BY <1>0, <1>1 DEF Landed, Holding, Into, Requesting, Find, Authority
<1>2. CASE \E c \in Direct : convos[c].mode = "plain" /\ Into(r, "blocks", c)
  BY <1>0, <1>2 DEF Landed, Holding, Into, Requesting, Find, Authority
<1>3. CASE Done(r, "")
  BY <1>3, Fields, Zenon DEF Landed, Holding, Find, Authority
<1>4. CASE Goto(r, "hold")
  BY <1>0, <1>4 DEF Landed, Holding, Goto, Requesting, Find, Authority
<1> QED
  BY <1>1, <1>2, <1>3, <1>4 DEF Find

LEMMA AskLands ==
  ASSUME RequestsType, NEW r \in Requests, Ask(r)
  PROVE  /\ Landed(r, {"idle", "gate", "hold", "ensure"}) /\ Holding(r) /\ UNCHANGED <<convos, held>>
         /\ req'[r].at = "ensure" => allowed' # {}
<1>1. CASE Goto(r, "ensure") /\ allowed' # {}
  BY <1>1, Fields, Zenon DEF Landed, Holding, Ask
<1>0. req[r] \in Requesting /\ DOMAIN req = Requests
  BY DEF RequestsType
<1>2. CASE Judge(r, "gate", "request") \/ Judge(r, "gate", "deny") \/ Judge(r, "hold", "request")
  BY <1>0, <1>2 DEF Landed, Holding, Judge, Requesting, Ask
<1>3. CASE Done(r, "held") \/ Done(r, "")
  BY <1>3, Fields, Zenon DEF Landed, Holding, Ask
<1>4. CASE Refused(r)
  BY <1>4, RefusedLands, Zenon DEF Landed, Ask
<1>5. Allowed(r) => Goto(r, "ensure") /\ allowed' # {}
  BY DEF Allowed
<1> QED
  BY <1>1, <1>2, <1>3, <1>4, <1>5 DEF Ask, Requested, Denied, Unanswered

LEMMA HoldLands ==
  ASSUME RequestsType, NEW r \in Requests, Hold(r)
  PROVE  /\ Landed(r, {"idle", "gate", "ask"}) /\ UNCHANGED <<convos, allowed>>
         /\ req'[r].at # "idle" => UpsertPending(req[r].by, req[r].body) /\ req'[r].id = held'[req[r].by].id
         /\ UpsertPending(req[r].by, req[r].body) \/ UNCHANGED <<held, lastId>>
<1>1. CASE Done(r, "")
  BY <1>1, Fields, Zenon DEF Landed, Hold, Authority
<1>2. CASE /\ UpsertPending(req[r].by, req[r].body)
           /\ Carry(r, IF Is(r, {"byNumber"}) THEN "gate" ELSE "ask", held'[req[r].by].id, req[r].body)
  <2>0. req[r] \in Requesting /\ DOMAIN req = Requests
    BY DEF RequestsType
  <2>1. /\ req'[r].at = IF Is(r, {"byNumber"}) THEN "gate" ELSE "ask"
        /\ req'[r].by = req[r].by /\ req'[r].id = held'[req[r].by].id
    BY <1>2, <2>0 DEF Carry, Requesting
  <2> QED
    BY <1>2, <2>1 DEF Landed, Hold, Authority
<1> QED
  BY <1>1, <1>2 DEF Hold

LEMMA FindPendingLands ==
  ASSUME RequestsType, NEW r \in Requests, FindPending(r)
  PROVE  /\ Landed(r, {"deliver"}) /\ req'[r].convo = req[r].convo /\ UNCHANGED <<convos, allowed, held>>
         /\ req'[r].id = req[r].id \/ req'[r].id = held[req[r].by].id
<1>0. req[r] \in Requesting /\ DOMAIN req = Requests
  BY DEF RequestsType
<1>1. CASE Carry(r, "deliver", held[req[r].by].id, req[r].body)
  BY <1>0, <1>1 DEF Carry, Requesting, FindPending, Landed, Authority
<1>2. CASE Goto(r, "deliver")
  BY <1>0, <1>2 DEF Goto, Requesting, FindPending, Landed, Authority
<1> QED
  BY <1>1, <1>2 DEF FindPending

LEMMA EnsureLands ==
  ASSUME RequestsType, NEW r \in Requests, Ensure(r)
  PROVE  /\ Landed(r, {"idle", "deliver", "blocks", "create"}) /\ Holding(r) /\ UNCHANGED <<convos, allowed, held>>
         /\ req'[r].at \in {"deliver", "blocks"} => req'[r].convo \in Direct
         /\ req'[r].at = "blocks" => convos[req'[r].convo].mode = "plain"
<1>1. CASE \E c \in Direct : Use(r, c, convos[c].mode)
  BY <1>1, UseLands DEF Landed, Ensure, Authority
<1>0. req[r] \in Requesting /\ DOMAIN req = Requests
  BY DEF RequestsType
<1>2. CASE Goto(r, "create")
  BY <1>0, <1>2 DEF Landed, Holding, Goto, Requesting, Ensure, Authority
<1> QED
  BY <1>1, <1>2 DEF Ensure

LEMMA CreateLands ==
  ASSUME TypeOK, NEW r \in Requests, Create(r)
  PROVE  /\ Landed(r, {"idle", "gate", "deliver", "blocks"}) /\ Holding(r) /\ UNCHANGED <<allowed, held>>
         /\ req'[r].at \in {"deliver", "blocks"} => req'[r].convo \in Direct'
         /\ req'[r].at = "blocks" => convos'[req'[r].convo].mode = "plain"
<1>t. RequestsType /\ ConvosType
  BY DEF TypeOK
<1>1. CASE \E m \in Modes : CreateConversation(m) /\ Use(r, Len(convos) + 1, m)
  BY <1>1, <1>t, UseLands, CreateGrows DEF Landed, Create, Authority
<1>2. CASE Refused(r)
  BY <1>2, <1>t, RefusedLands, Zenon DEF Landed, Create, Authority
<1> QED
  BY <1>1, <1>2 DEF Create

LEMMA FindHeldLands ==
  ASSUME RequestsType, NEW r \in Requests, FindHeld(r)
  PROVE  /\ Landed(r, {"idle", "ensure"}) /\ UNCHANGED <<convos, allowed, held>>
         /\ req'[r].at = "idle" \/ req'[r].id = held[req[r].by].id
<1>1. CASE Done(r, "")
  BY <1>1, Fields, Zenon DEF Landed, FindHeld, Authority
<1>0. req[r] \in Requesting /\ DOMAIN req = Requests
  BY DEF RequestsType
<1>2. CASE Carry(r, "ensure", held[req[r].by].id, held[req[r].by].body)
  BY <1>0, <1>2 DEF Landed, Carry, Requesting, FindHeld, Authority
<1> QED
  BY <1>1, <1>2 DEF FindHeld

LEMMA LastLands ==
  ASSUME RequestsType, NEW r \in Requests
  PROVE  /\ Gate(r) \/ Drop(r) \/ HoldUndelivered(r) \/ Clear(r) \/ Die(r) => Landed(r, {"idle"}) /\ Holding(r)
         /\ Deliver(r) => /\ Landed(r, {"idle", "drop"}) /\ Holding(r)
                          /\ req'[r].at = "drop" => InsertPlainMessage(req[r].convo, req[r].by, req[r].body)
         /\ UndeliverableTo(r) => Landed(r, {"idle", "write", "undelivered"}) /\ Holding(r) /\ SameConvo(r)
         /\ Write(r) => /\ Landed(r, {"idle", "clear"}) /\ Holding(r)
                        /\ req'[r].at = "clear" => \/ InsertPlainMessage(req[r].convo, req[r].by, req[r].body)
                                                   \/ InsertSealedMessage(req[r].convo, req[r].by)
<1>1. CASE Done(r, "") \/ Done(r, "held")
  BY <1>1, Fields, Zenon DEF Landed, Holding, SameConvo
<1>2. Gate(r) \/ Drop(r) \/ HoldUndelivered(r) \/ Clear(r) \/ Die(r) => Done(r, "") \/ Done(r, "held")
  BY DEF Gate, Drop, HoldUndelivered, Clear, Die
<1>3. Deliver(r) => Done(r, "") \/ (Goto(r, "drop") /\ InsertPlainMessage(req[r].convo, req[r].by, req[r].body))
  BY DEF Deliver
<1>4. UndeliverableTo(r) => Done(r, "") \/ Goto(r, "write") \/ Goto(r, "undelivered")
  BY DEF UndeliverableTo
<1>5. Write(r) => \/ Done(r, "")
                  \/ /\ Goto(r, "clear")
                     /\ \/ InsertPlainMessage(req[r].convo, req[r].by, req[r].body)
                        \/ InsertSealedMessage(req[r].convo, req[r].by)
  BY DEF Write
<1>6. /\ Goto(r, "drop") => Landed(r, {"idle", "drop"}) /\ Holding(r)
      /\ Goto(r, "clear") => Landed(r, {"idle", "clear"}) /\ Holding(r)
  BY Fields, Zenon DEF Landed, Holding
<1>7. Goto(r, "write") \/ Goto(r, "undelivered") => Landed(r, {"idle", "write", "undelivered"}) /\ Holding(r) /\ SameConvo(r)
  BY Fields, Zenon DEF Landed, Holding, SameConvo
<1> QED
  BY <1>1, <1>2, <1>3, <1>4, <1>5, <1>6, <1>7, Zenon DEF Landed

\* Where a request that arrives begins.
LEMMA ArriveLands ==
  ASSUME TypeOK, NEW r \in Requests, Arrive(r)
  PROVE  /\ UNCHANGED <<convos, held, lastId>>
         /\ req'[r].at \in {"find", "ask", "blocks", "seal", "findHeld"}
         /\ req'[r].at = "findHeld" => allowed' # {}
         /\ req'[r].at \in {"blocks", "seal"} => req'[r].convo \in Direct
         /\ req'[r].at = "blocks" => convos[req'[r].convo].mode = "plain"
         /\ req'[r].at = "seal" => convos[req'[r].convo].mode = "sealed"
         /\ req'[r].id = 0 \/ (req'[r].by \in Ends /\ req'[r].id = held[req'[r].by].id)
<1>t. RequestsType
  BY DEF TypeOK
<1>1. ASSUME NEW a \in Ends, Say(r, a)
      PROVE  /\ req'[r].at \in {"find", "ask", "blocks"} /\ req'[r].id = 0
             /\ req'[r].at = "blocks" => req'[r].convo \in Direct /\ convos[req'[r].convo].mode = "plain"
  <2>1. CASE \E k \in {"toPerson", "start"} : Enter(r, a, k, "find", 0, said[a] + 1, 0)
    BY <1>t, <2>1, EnteredFields
  <2>2. CASE Enter(r, a, "byNumber", "ask", 0, said[a] + 1, 0)
    BY <1>t, <2>2, EnteredFields
  <2>3. CASE \E c \in Direct : convos[c].mode = "plain" /\ Enter(r, a, "send", "blocks", 0, said[a] + 1, c)
    BY <1>t, <2>3, EnteredFields
  <2> QED
    BY <1>1, <2>1, <2>2, <2>3 DEF Say
<1>2. ASSUME NEW a \in Ends, SendSealed(r, a)
      PROVE  /\ req'[r].at = "seal" /\ req'[r].id = 0
             /\ req'[r].convo \in Direct /\ convos[req'[r].convo].mode = "sealed"
  BY <1>t, <1>2, EnteredFields DEF SendSealed
<1>3. ASSUME NEW a \in Ends, OpenByNumber(r, a) PROVE req'[r].at = "ask" /\ req'[r].id = 0
  BY <1>t, <1>3, EnteredFields DEF OpenByNumber
<1>4. ASSUME NEW a \in Ends, ReleaseHeld(r, a)
      PROVE  req'[r].at = "ask" /\ req'[r].by = a /\ req'[r].id = held[a].id
  BY <1>t, <1>4, EnteredFields DEF ReleaseHeld
<1>5. ASSUME NEW a \in Ends, AcceptKnock(r, a)
      PROVE  req'[r].at = "findHeld" /\ req'[r].id = 0 /\ allowed' # {}
  BY <1>t, <1>5, EnteredFields DEF AcceptKnock
<1>6. UNCHANGED <<convos, held, lastId>>
  BY DEF Arrive, Say, SendSealed, OpenByNumber, ReleaseHeld, AcceptKnock
<1> QED
  BY <1>1, <1>2, <1>3, <1>4, <1>5, <1>6 DEF Arrive

\* A request stays as it was unless it arrives or takes a step.
LEMMA WhoMoved ==
  ASSUME TypeOK, [Next]_vars, NEW q \in Requests
  PROVE  req'[q] = req[q] \/ Arrive(q) \/ Step(q)
<1>1. CASE UNCHANGED vars
  BY <1>1 DEF vars
<1>2. ASSUME NEW r \in Requests, Arrive(r) \/ Step(r) PROVE req'[q] = req[q] \/ Arrive(q) \/ Step(q)
  BY <1>2, OthersStay DEF TypeOK
<1>3. ASSUME NEW a \in Ends, DeclineKnock(a) \/ Block(a) \/ GnosisPendingSweep(a) PROVE req'[q] = req[q]
  BY <1>3 DEF DeclineKnock, Block, GnosisPendingSweep
<1> QED
  BY <1>1, <1>2, <1>3 DEF Next

LEMMA GrantedStep ==
  ASSUME TypeOK, Granted, [Next]_vars PROVE Granted'
<1> SUFFICES ASSUME NEW q \in Requests, req'[q].at \in {"findHeld", "ensure", "create"} PROVE allowed' # {}
  BY DEF Granted
<1>t. RequestsType
  BY DEF TypeOK
<1>1. CASE req'[q] = req[q]
  BY <1>1, AllowedGrows DEF Granted
<1>2. CASE Arrive(q)
  BY <1>2, ArriveLands
<1>3. CASE Step(q)
  <2>1. ASSUME Ensure(q) \/ FindHeld(q) PROVE allowed' # {}
    BY <2>1, AllowedGrows DEF Granted, Ensure, FindHeld
  <2>2. ASSUME Ask(q) PROVE allowed' # {}
    BY <2>2, <1>t, AskLands DEF Landed
  <2>3. ~ Find(q) /\ ~ FindPending(q) /\ ~ Hold(q)
    BY <1>t, FindLands, FindPendingLands, HoldLands DEF Landed
  <2>4. ~ Create(q)
    BY CreateLands DEF Landed
  <2>5. ~ (Gate(q) \/ Drop(q) \/ HoldUndelivered(q) \/ Clear(q) \/ Die(q) \/ Deliver(q) \/ UndeliverableTo(q) \/ Write(q))
    BY <1>t, LastLands DEF Landed
  <2> QED
    BY <1>3, <2>1, <2>2, <2>3, <2>4, <2>5 DEF Step
<1> QED
  BY <1>1, <1>2, <1>3, WhoMoved

LEMMA AddressedStep ==
  ASSUME TypeOK, Addressed, [Next]_vars PROVE Addressed'
<1> SUFFICES ASSUME NEW q \in Requests
             PROVE  /\ req'[q].at \in {"existing", "deliver", "blocks", "write", "seal"} => req'[q].convo \in Direct'
                    /\ req'[q].at \in {"blocks", "write"} => convos'[req'[q].convo].mode = "plain"
                    /\ req'[q].at = "seal" => convos'[req'[q].convo].mode = "sealed"
  BY DEF Addressed
<1>t. RequestsType
  BY DEF TypeOK
<1>g. Grows
  BY StepGrows
<1>1. CASE req'[q] = req[q]
  BY <1>1, <1>g DEF Addressed, Grows
<1>2. CASE Arrive(q)
  BY <1>2, <1>g, ArriveLands DEF Grows
<1>3. CASE Step(q)
  <2>1. CASE Find(q)
    BY <2>1, <1>t, <1>g, FindLands DEF Landed, Grows
  <2>2. CASE FindPending(q)
    <3>1. req[q].at = "existing" /\ req[q].convo \in Direct
      BY <2>2 DEF FindPending, Addressed
    <3> QED
      BY <2>2, <3>1, <1>t, <1>g, FindPendingLands DEF Landed, Grows
  <2>3. CASE Hold(q) \/ Ask(q) \/ FindHeld(q)
    BY <2>3, <1>t, HoldLands, AskLands, FindHeldLands DEF Landed
  <2>4. CASE Ensure(q)
    BY <2>4, <1>t, <1>g, EnsureLands DEF Landed, Grows
  <2>5. CASE Create(q)
    BY <2>5, CreateLands DEF Landed
  <2>6. CASE UndeliverableTo(q)
    <3>1. req[q].at = "blocks" /\ req[q].convo \in Direct /\ convos[req[q].convo].mode = "plain"
      BY <2>6 DEF UndeliverableTo, Addressed
    <3> QED
      BY <2>6, <3>1, <1>t, <1>g, LastLands DEF Landed, SameConvo, Grows
  <2>7. CASE Gate(q) \/ Drop(q) \/ HoldUndelivered(q) \/ Clear(q) \/ Die(q) \/ Deliver(q) \/ Write(q)
    BY <2>7, <1>t, LastLands DEF Landed
  <2> QED
    BY <1>3, <2>1, <2>2, <2>3, <2>4, <2>5, <2>6, <2>7 DEF Step
<1> QED
  BY <1>1, <1>2, <1>3, WhoMoved

LEMMA SpokeStays ==
  ASSUME Grows, NEW a \in Ends, Spoke(a) PROVE Spoke(a)'
BY DEF Grows, Spoke

LEMMA HeardStep ==
  ASSUME TypeOK, Addressed, Heard, [Next]_vars PROVE Heard'
<1> SUFFICES ASSUME NEW q \in Requests, req'[q].at \in {"drop", "clear"} PROVE Spoke(req[q].by)'
  BY DEF Heard
<1>t. RequestsType /\ ConvosType
  BY DEF TypeOK
<1>g. Grows
  BY StepGrows
<1>1. CASE req'[q] = req[q]
  <2>1. req[q].by \in Ends /\ Spoke(req[q].by)
    BY <1>1, <1>t DEF Heard, RequestsType, Requesting
  <2>2. PICK c \in Direct : req[q].by \in convos[c].sealers \/ \E s \in convos[c].plain : s[1] = req[q].by
    BY <2>1 DEF Spoke
  <2>3. /\ c \in Direct' /\ convos[c].sealers \subseteq convos'[c].sealers
        /\ convos[c].plain \subseteq convos'[c].plain
    BY <1>g DEF Grows
  <2> QED
    BY <1>1, <2>2, <2>3 DEF Spoke
<1>2. CASE Arrive(q)
  BY <1>2, ArriveLands
<1>3. CASE Step(q)
  <2>1. ~ (Find(q) \/ FindPending(q) \/ Hold(q) \/ Ask(q) \/ Ensure(q) \/ FindHeld(q))
    BY <1>t, FindLands, FindPendingLands, HoldLands, AskLands, EnsureLands, FindHeldLands DEF Landed
  <2>2. ~ Create(q)
    BY CreateLands DEF Landed
  <2>3. ~ (Gate(q) \/ Drop(q) \/ HoldUndelivered(q) \/ Clear(q) \/ Die(q) \/ UndeliverableTo(q))
    BY <1>t, LastLands DEF Landed
  <2>4. Deliver(q) \/ Write(q)
    BY <1>3, <2>1, <2>2, <2>3 DEF Step
  <2>5. req[q].convo \in Direct /\ req[q].by \in Ends /\ req[q].body \in Nat
    BY <2>4, <1>t DEF Deliver, Write, Addressed, RequestsType, Requesting
  <2>6. /\ req'[q].by = req[q].by
        /\ \/ InsertPlainMessage(req[q].convo, req[q].by, req[q].body)
           \/ InsertSealedMessage(req[q].convo, req[q].by)
    BY <2>4, <1>t, LastLands DEF Landed
  <2>7. \/ <<req[q].by, req[q].body>> \in convos'[req[q].convo].plain
        \/ req[q].by \in convos'[req[q].convo].sealers
    BY <2>5, <2>6, <1>t, InsertGrows
  <2>8. req[q].convo \in Direct'
    BY <2>5, <1>g DEF Grows
  <2>9. CASE <<req[q].by, req[q].body>> \in convos'[req[q].convo].plain
    <3>1. \E s \in convos'[req[q].convo].plain : s[1] = req[q].by
      BY <2>9
    <3> QED
      BY <2>6, <2>8, <3>1 DEF Spoke
  <2> QED
    BY <2>6, <2>7, <2>8, <2>9 DEF Spoke
<1> QED
  BY <1>1, <1>2, <1>3, WhoMoved
-----------------------------------------------------------------------------
LEMMA NoPlainStep ==
  ASSUME TypeOK, Addressed, NoPlainInSealed, [Next]_vars PROVE NoPlainInSealed'
<1>t. ConvosType /\ RequestsType
  BY DEF TypeOK
<1>1. ASSUME UNCHANGED convos PROVE NoPlainInSealed'
  BY <1>1 DEF NoPlainInSealed, Direct
<1>2. ASSUME NEW r \in Requests, Deliver(r) \/ Write(r) PROVE NoPlainInSealed'
  <2>1. req[r].convo \in Direct /\ req[r].by \in Ends /\ req[r].body \in Nat
    BY <1>t, <1>2 DEF Deliver, Write, Addressed, RequestsType, Requesting
  <2>2. CASE convos[req[r].convo].mode = "plain" /\ InsertPlainMessage(req[r].convo, req[r].by, req[r].body)
    <3>1. Grows /\ \A d \in Direct \ {req[r].convo} : convos'[d] = convos[d]
      BY <1>t, <2>1, <2>2, InsertGrows
    <3>2. Direct' = Direct
      BY <1>t, <2>1, <2>2, PlainKept DEF Direct
    <3> QED
      BY <2>1, <2>2, <3>1, <3>2 DEF NoPlainInSealed, Grows
  <2>3. CASE InsertSealedMessage(req[r].convo, req[r].by)
    <3>1. Grows /\ \A d \in Direct : convos'[d].plain = convos[d].plain
      BY <1>t, <2>1, <2>3, InsertGrows
    <3>2. Direct' = Direct
      BY <1>t, <2>1, <2>3, SealedKept DEF Direct
    <3> QED
      BY <3>1, <3>2 DEF NoPlainInSealed, Grows
  <2>4. Deliver(r) => \/ UNCHANGED convos
                     \/ /\ convos[req[r].convo].mode = "plain"
                        /\ InsertPlainMessage(req[r].convo, req[r].by, req[r].body)
    BY DEF Deliver
  <2>5. CASE req[r].at = "seal"
    <3>1. UNCHANGED convos \/ InsertSealedMessage(req[r].convo, req[r].by)
      BY <1>2, <2>5 DEF Write, Deliver
    <3> QED
      BY <1>1, <2>3, <3>1
  <2>6. CASE req[r].at # "seal"
    <3>1. \/ UNCHANGED convos
          \/ /\ convos[req[r].convo].mode = "plain"
             /\ InsertPlainMessage(req[r].convo, req[r].by, req[r].body)
      BY <1>2, <2>4, <2>6 DEF Write, Addressed
    <3> QED
      BY <1>1, <2>2, <3>1
  <2> QED
    BY <2>5, <2>6
<1>3. ASSUME NEW r \in Requests, Create(r) PROVE NoPlainInSealed'
  BY <1>1, <1>3, <1>t, CreateGrows DEF Create, NoPlainInSealed
<1> QED
  BY <1>1, <1>2, <1>3, OnlyThese

LEMMA AgreedStep ==
  ASSUME TypeOK, Addressed, Granted, NotBeforeTheyAgree, [Next]_vars PROVE NotBeforeTheyAgree'
<1>1. CASE convos # <<>> \/ UNCHANGED convos
  BY <1>1, AllowedGrows DEF NotBeforeTheyAgree
<1>2. ASSUME NEW r \in Requests, Create(r) PROVE allowed' # {}
  BY <1>2, AllowedGrows DEF Create, Granted
<1>3. ASSUME NEW r \in Requests, Deliver(r) \/ Write(r) PROVE convos # <<>>
  <2>1. req[r].convo \in Direct
    BY <1>3 DEF Deliver, Write, Addressed
  <2> QED
    BY <2>1 DEF Direct
<1> QED
  BY <1>1, <1>2, <1>3, OnlyThese DEF NotBeforeTheyAgree

\* The ids of the rows after each of the statements that write them.
LEMMA DecisionIds ==
  ASSUME NEW i, NEW d, SetPendingDecision(i, d), NEW a \in Ends PROVE held'[a].id = held[a].id
BY DEF SetPendingDecision

LEMMA DeleteIds ==
  ASSUME NEW i, DeletePending(i), NEW a \in Ends
  PROVE  held'[a].id = held[a].id \/ (held'[a].id = 0 /\ held[a].id = i)
BY DEF DeletePending, NoRow

LEMMA ClearIds ==
  ASSUME RowsType, NEW e \in Ends, NEW a \in Ends, DeletePendingForConversationPeer(e)
  PROVE  held'[a].id = held[a].id \/ (held'[a].id = 0 /\ a = e)
BY DEF DeletePendingForConversationPeer, NoRow, RowsType

LEMMA UpsertIds ==
  ASSUME RowsType, lastId \in Nat, NEW a \in Ends, NEW b \in Nat, UpsertPending(a, b)
  PROVE  /\ \A e \in Ends \ {a} : held'[e] = held[e]
         /\ held[a].id # 0 => held'[a].id = held[a].id /\ lastId' = lastId
         /\ held[a].id = 0 => held'[a].id = lastId + 1 /\ lastId' = lastId + 1
<1> DEFINE i == IF held[a].id = 0 THEN lastId + 1 ELSE held[a].id
<1>1. held' = [held EXCEPT ![a] = [id |-> i, body |-> b, decision |-> ""]]
  BY DEF UpsertPending
<1>2. lastId' = IF held[a].id = 0 THEN lastId + 1 ELSE lastId
  BY DEF UpsertPending
<1>3. i = IF held[a].id = 0 THEN lastId + 1 ELSE held[a].id
  OBVIOUS
<1> HIDE DEF i
<1>4. held'[a].id = i /\ \A e \in Ends \ {a} : held'[e] = held[e]
  BY <1>1 DEF RowsType
<1> QED
  BY <1>2, <1>3, <1>4

\* A step gives no row another id, unless it holds a new one.
SameIds == lastId' = lastId /\ \A a \in Ends : held'[a].id \in {0, held[a].id}
Upserts(r) == /\ req[r].by \in Ends /\ req[r].body \in Nat
              /\ UpsertPending(req[r].by, req[r].body)

LEMMA RowIds ==
  ASSUME TypeOK, [Next]_vars PROVE SameIds \/ \E r \in Requests : Upserts(r)
<1>t. RowsType /\ RequestsType
  BY DEF TypeOK
<1>0. UNCHANGED <<held, lastId>> => SameIds
  BY DEF SameIds
<1>1. ASSUME NEW r \in Requests, Arrive(r) PROVE UNCHANGED <<held, lastId>>
  BY <1>1, ArriveLands
<1>2. ASSUME NEW r \in Requests, Hold(r) \/ HoldUndelivered(r) PROVE UNCHANGED <<held, lastId>> \/ Upserts(r)
  BY <1>2, <1>t DEF Hold, HoldUndelivered, Upserts, RequestsType, Requesting
<1>3. ASSUME NEW r \in Requests, Gate(r) PROVE SameIds
  BY <1>0, <1>3, DecisionIds DEF Gate, SameIds
<1>4. ASSUME NEW r \in Requests, Drop(r) PROVE SameIds
  BY <1>0, <1>4, DeleteIds DEF Drop, SameIds
<1>5. ASSUME NEW r \in Requests, Clear(r) PROVE SameIds
  <2>1. req[r].by \in Ends
    BY <1>5, <1>t DEF Clear, RequestsType, Requesting
  <2> QED
    BY <1>0, <1>5, <1>t, <2>1, ClearIds DEF Clear, SameIds
<1>6. ASSUME NEW r \in Requests, Step(r), ~ Hold(r), ~ HoldUndelivered(r), ~ Gate(r), ~ Drop(r), ~ Clear(r)
      PROVE  UNCHANGED <<held, lastId>>
  BY <1>6 DEF Step, Find, FindPending, Ask, Ensure, Create, FindHeld, Deliver, UndeliverableTo, Write, Die
<1>7. ASSUME NEW a \in Ends, DeclineKnock(a) \/ Block(a) PROVE UNCHANGED <<held, lastId>>
  BY <1>7 DEF DeclineKnock, Block
<1>8. ASSUME NEW a \in Ends, GnosisPendingSweep(a) PROVE SameIds
  BY <1>8, <1>t DEF GnosisPendingSweep, SameIds, NoRow, RowsType
<1> QED
  BY <1>0, <1>1, <1>2, <1>3, <1>4, <1>5, <1>6, <1>7, <1>8 DEF Next, vars

\* A request carries no id but the one it had, or its sender's row.
LEMMA RequestIds ==
  ASSUME TypeOK, Addressed, [Next]_vars, NEW q \in Requests
  PROVE  \/ req'[q].id = 0
         \/ req'[q].id = req[q].id /\ req'[q].by = req[q].by
         \/ req'[q].by \in Ends /\ req'[q].id = held'[req'[q].by].id
<1>t. RequestsType
  BY DEF TypeOK
<1>b. req[q].at # "idle" => req[q].by \in Ends
  BY <1>t DEF RequestsType, Requesting
<1>1. CASE Arrive(q)
  BY <1>1, ArriveLands
<1>2. CASE Step(q)
  <2>0. req'[q].by = req[q].by => req'[q].at # "idle"
    <3>1. req[q].at # "idle"
      BY <1>2 DEF Step, Find, FindPending, Hold, Ask, Gate, Ensure, Create, FindHeld, Deliver, Drop, UndeliverableTo,
         HoldUndelivered, Write, Clear, Die
    <3>2. RequestsType'
      BY TypeStep DEF TypeOK
    <3> QED
      BY <3>1, <3>2, <1>t DEF RequestsType
  <2>1. CASE Find(q) \/ Ask(q) \/ Ensure(q)
    BY <2>0, <2>1, <1>t, FindLands, AskLands, EnsureLands DEF Landed, Holding
  <2>2. CASE FindPending(q)
    BY <2>0, <2>2, <1>t, <1>b, FindPendingLands DEF Landed, FindPending
  <2>3. CASE Hold(q)
    BY <2>0, <2>3, <1>t, <1>b, HoldLands DEF Landed, Hold
  <2>4. CASE FindHeld(q)
    BY <2>0, <2>4, <1>t, <1>b, FindHeldLands DEF Landed, FindHeld
  <2>5. CASE Create(q)
    BY <2>0, <2>5, CreateLands DEF Landed, Holding
  <2>6. CASE \/ Gate(q) \/ Drop(q) \/ HoldUndelivered(q) \/ Clear(q) \/ Die(q)
             \/ Deliver(q) \/ UndeliverableTo(q) \/ Write(q)
    BY <2>0, <2>6, <1>t, LastLands DEF Landed, Holding
  <2> QED
    BY <1>2, <2>1, <2>2, <2>3, <2>4, <2>5, <2>6 DEF Step
<1> QED
  BY <1>1, <1>2, WhoMoved

LEMMA OwnedStep ==
  ASSUME TypeOK, Addressed, Owned, [Next]_vars PROVE Owned'
<1>t. /\ RowsType /\ RequestsType /\ lastId \in Nat
      /\ \A a \in Ends : held[a].id \in Nat
      /\ \A r \in Requests : req[r].id \in Nat
  BY DEF TypeOK, BooksType, RowsType, RequestsType, Requesting
<1>1. CASE SameIds
  <2>1. /\ \A a \in Ends : held'[a].id <= lastId'
        /\ \A a, b \in Ends : held'[a].id # 0 /\ held'[a].id = held'[b].id => a = b
    BY <1>1, <1>t DEF SameIds, Owned
  <2>2. \A r \in Requests : req'[r].id <= lastId'
    BY <1>1, <1>t, <2>1, RequestIds DEF SameIds, Owned
  <2>3. \A r \in Requests, a \in Ends : req'[r].id # 0 /\ held'[a].id = req'[r].id => a = req'[r].by
    BY <1>1, <1>t, <2>1, RequestIds DEF SameIds, Owned
  <2> QED
    BY <2>1, <2>2, <2>3 DEF Owned
<1>2. ASSUME NEW q \in Requests, Upserts(q) PROVE Owned'
  <2>0. /\ lastId' \in Nat /\ lastId <= lastId'
        /\ \A a \in Ends : held'[a].id = held[a].id \/ (held'[a].id = lastId' /\ lastId' = lastId + 1 /\ a = req[q].by)
    <3>1. CASE held[req[q].by].id = 0
      BY <1>2, <1>t, <3>1, UpsertIds DEF Upserts
    <3>2. CASE held[req[q].by].id # 0
      BY <1>2, <1>t, <3>2, UpsertIds DEF Upserts
    <3> QED
      BY <3>1, <3>2
  <2>1. /\ \A a \in Ends : held'[a].id <= lastId'
        /\ \A a, b \in Ends : held'[a].id # 0 /\ held'[a].id = held'[b].id => a = b
    BY <1>t, <2>0 DEF Owned
  <2>2. \A r \in Requests : req'[r].id <= lastId'
    BY <1>t, <2>0, <2>1, RequestIds DEF Owned
  <2>3. \A r \in Requests, a \in Ends : req'[r].id # 0 /\ held'[a].id = req'[r].id => a = req'[r].by
    BY <1>t, <2>0, <2>1, RequestIds DEF Owned
  <2> QED
    BY <2>1, <2>2, <2>3 DEF Owned
<1> QED
  BY <1>1, <1>2, RowIds
-----------------------------------------------------------------------------
LEMMA InvInit == Init => IInv
<1> SUFFICES ASSUME Init PROVE IInv
  OBVIOUS
<1>1. convos = <<>> /\ Direct = {}
  BY DEF Init, Direct
<1>2. /\ \A a \in Ends : held[a].id = 0
      /\ \A r \in Requests : req[r].at = "idle" /\ req[r].id = 0
      /\ lastId = 0
  BY DEF Init, NoRow, Idle
<1>3. NoPlainInSealed /\ NotBeforeTheyAgree
  BY <1>1 DEF NoPlainInSealed, NotBeforeTheyAgree
<1>4. Granted /\ Addressed /\ Heard /\ Owned
  BY <1>2 DEF Granted, Addressed, Heard, Owned
<1> QED
  BY <1>3, <1>4, TypeInit DEF IInv

LEMMA InvStep == IInv /\ [Next]_vars => IInv'
BY TypeStep, NoPlainStep, AgreedStep, GrantedStep, AddressedStep, HeardStep, OwnedStep DEF IInv

\* A row that goes was swept, or released by a request whose sender was heard.
LEMMA HoldStep ==
  ASSUME IInv, [Next]_vars, NEW a \in Ends, held[a].id # 0, held'[a].id = 0
  PROVE  Spoke(a) \/ GnosisPendingSweep(a)
<1>t. /\ RowsType /\ RequestsType /\ lastId \in Nat /\ TypeOK
      /\ \A e \in Ends : held[e].id \in Nat
  BY DEF IInv, TypeOK, BooksType, RowsType
<1>0. ~ UNCHANGED held
  OBVIOUS
<1>1. ASSUME NEW r \in Requests, Arrive(r) PROVE FALSE
  BY <1>0, <1>1, <1>t, ArriveLands
<1>2. ASSUME NEW r \in Requests, Hold(r) \/ HoldUndelivered(r) PROVE FALSE
  <2>1. req[r].by \in Ends /\ req[r].body \in Nat
    BY <1>2, <1>t DEF Hold, HoldUndelivered, RequestsType, Requesting
  <2>2. UpsertPending(req[r].by, req[r].body)
    BY <1>0, <1>2 DEF Hold, HoldUndelivered
  <2> QED
    BY <2>1, <2>2, <1>t, UpsertIds
<1>3. ASSUME NEW r \in Requests, Gate(r) PROVE FALSE
  BY <1>0, <1>3, DecisionIds DEF Gate
<1>4. ASSUME NEW r \in Requests, Drop(r) PROVE Spoke(a)
  <2>1. DeletePending(req[r].id) /\ req[r].at = "drop"
    BY <1>0, <1>4 DEF Drop
  <2>2. held[a].id = req[r].id
    BY <2>1, DeleteIds
  <2>3. a = req[r].by
    BY <2>2 DEF IInv, Owned
  <2> QED
    BY <2>1, <2>3 DEF IInv, Heard
<1>5. ASSUME NEW r \in Requests, Clear(r) PROVE Spoke(a)
  <2>1. DeletePendingForConversationPeer(req[r].by) /\ req[r].at = "clear"
    BY <1>0, <1>5 DEF Clear
  <2>2. req[r].by \in Ends
    BY <2>1, <1>t DEF RequestsType, Requesting
  <2>3. a = req[r].by
    BY <2>1, <2>2, <1>t, ClearIds
  <2> QED
    BY <2>1, <2>3 DEF IInv, Heard
<1>6. ASSUME NEW r \in Requests, Step(r), ~ Hold(r), ~ HoldUndelivered(r), ~ Gate(r), ~ Drop(r), ~ Clear(r) PROVE FALSE
  BY <1>0, <1>6 DEF Step, Find, FindPending, Ask, Ensure, Create, FindHeld, Deliver, UndeliverableTo, Write, Die
<1>7. ASSUME NEW e \in Ends, DeclineKnock(e) \/ Block(e) PROVE FALSE
  BY <1>0, <1>7 DEF DeclineKnock, Block
<1>8. ASSUME NEW e \in Ends, GnosisPendingSweep(e) PROVE e = a
  BY <1>8, <1>t DEF GnosisPendingSweep, RowsType
<1> QED
  BY <1>0, <1>1, <1>2, <1>3, <1>4, <1>5, <1>6, <1>7, <1>8 DEF Next, vars

\* The inductive invariant: types, the two safety invariants, and what each
\* request in flight relies on until its next statement.
THEOREM Invariant == Spec => []IInv
<1>1. Init => IInv
  BY InvInit
<1>2. IInv /\ [Next]_vars => IInv'
  BY InvStep
<1> QED
  BY <1>1, <1>2, PTL DEF Spec

\* Every row, conversation and request is one the code can be in, however many
\* requests interleave and whatever fails.
THEOREM TypeCorrect == Spec => []TypeOK
<1>1. IInv => TypeOK
  BY DEF IInv
<1> QED
  BY <1>1, Invariant, PTL

\* No request, in whatever order its statements fall, writes a readable sentence
\* into a sealed conversation (deliverPending, sendIntoConversation).
THEOREM SealedStaysSealed == Spec => []NoPlainInSealed
<1>1. IInv => NoPlainInSealed
  BY DEF IInv
<1> QED
  BY <1>1, Invariant, PTL

\* No error, refusal or pending knock opens a conversation (ensureDirect-
\* Conversation is reached only behind the authority's answer).
THEOREM AgreedFirst == Spec => []NotBeforeTheyAgree
<1>1. IInv => NotBeforeTheyAgree
  BY DEF IInv
<1> QED
  BY <1>1, Invariant, PTL

\* A held sentence goes only with the sweep or once its sender has been heard
\* (DeletePending, DeletePendingForConversationPeer).
THEOREM HoldOutlasts == Spec => HoldOutlastsRefusal
<1>1. IInv /\ [Next]_vars => [\A a \in Ends : held[a].id # 0 /\ held'[a].id = 0
                                 => Spoke(a) \/ GnosisPendingSweep(a)]_vars
  BY HoldStep
<1> QED
  BY <1>1, Invariant, PTL DEF Spec, HoldOutlastsRefusal

-----------------------------------------------------------------------------
(* What was held when a knock was accepted is delivered.                    *)

Sealed == \E c \in Direct : convos[c].mode = "sealed"

\* The request that answers the knock of a still has the promised row in hand.
Carries(r, a) ==
    /\ req[r].kind = "accept" /\ req[r].by = a
    /\ \/ req[r].at = "findHeld"
       \/ req[r].at \in {"ensure", "create", "deliver", "drop"} /\ req[r].id = promised[a]

\* A promised row is an old one, and while nothing has failed it is gone, or on
\* its way, or there is a sealed conversation.
KeepsPromise ==
    \A a \in Ends :
        /\ promised[a] <= lastId
        /\ faults = 0 /\ promised[a] # 0 /\ held[a].id = promised[a]
               => Sealed \/ \E r \in Requests : Carries(r, a)

LEMMA KindStays ==
  ASSUME RequestsType, NEW r \in Requests
  PROVE  /\ \A p : Goto(r, p) => req'[r].kind = req[r].kind
         /\ \A p, c : Into(r, p, c) => req'[r].kind = req[r].kind
         /\ \A p, n, b : Carry(r, p, n, b) => req'[r].kind = req[r].kind
<1>1. req[r] \in Requesting /\ DOMAIN req = Requests
  BY DEF RequestsType
<1> QED
  BY <1>1 DEF Goto, Into, Carry, Requesting

\* The knock accepted last is the only promise a step makes.
LEMMA PromiseMade ==
  ASSUME TypeOK, [Next]_vars, NEW a \in Ends
  PROVE  \/ promised'[a] = promised[a]
         \/ /\ promised'[a] = held[a].id /\ UNCHANGED <<held, lastId>>
            /\ \E r \in Requests : Carries(r, a)'
<1>t. RequestsType /\ AuthorityType
  BY DEF TypeOK
<1>1. ASSUME NEW r \in Requests, NEW e \in Ends, AcceptKnock(r, e)
      PROVE  \/ promised'[a] = promised[a]
             \/ promised'[a] = held[a].id /\ UNCHANGED <<held, lastId>> /\ Carries(r, a)'
  <2>1. promised' = [promised EXCEPT ![e] = held[e].id] /\ UNCHANGED <<held, lastId>>
    BY <1>1 DEF AcceptKnock
  <2>2. req'[r].kind = "accept" /\ req'[r].by = e /\ req'[r].at = "findHeld"
    BY <1>1, <1>t DEF AcceptKnock, Enter, RequestsType
  <2>3. CASE e = a
    BY <2>1, <2>2, <2>3, <1>t DEF AuthorityType, Carries
  <2>4. CASE e # a
    BY <2>1, <2>4, <1>t DEF AuthorityType
  <2> QED
    BY <2>3, <2>4
<1>2. ASSUME NEW r \in Requests, NEW e \in Ends, Say(r, e) \/ SendSealed(r, e) \/ OpenByNumber(r, e) \/ ReleaseHeld(r, e)
      PROVE  UNCHANGED promised
  BY <1>2 DEF Say, SendSealed, OpenByNumber, ReleaseHeld, Authority
<1>3. ASSUME NEW r \in Requests, Step(r) PROVE UNCHANGED promised
  BY <1>3 DEF Step, Find, FindPending, Hold, Ask, Allowed, Requested, Denied, Unanswered, Gate, Ensure, Create, FindHeld,
     Deliver, Drop, UndeliverableTo, HoldUndelivered, Write, Clear, Die, Authority
<1>4. ASSUME NEW e \in Ends, DeclineKnock(e) \/ Block(e) \/ GnosisPendingSweep(e) PROVE UNCHANGED promised
  BY <1>4 DEF DeclineKnock, Block, GnosisPendingSweep, Authority
<1>5. CASE UNCHANGED vars
  BY <1>5 DEF vars
<1> QED
  BY <1>1, <1>2, <1>3, <1>4, <1>5 DEF Next, Arrive

LEMMA FaultsGrow ==
  ASSUME faults \in Nat, [Next]_vars PROVE faults' = faults \/ faults' = faults + 1
<1>1. ASSUME NEW r \in Requests, Arrive(r) PROVE UNCHANGED faults
  BY <1>1 DEF Arrive, Say, SendSealed, OpenByNumber, ReleaseHeld, AcceptKnock
<1>2. ASSUME NEW r \in Requests, Step(r) PROVE UNCHANGED faults \/ Fault
  BY <1>2 DEF Step, Find, FindPending, Hold, Ask, Allowed, Requested, Denied, Unanswered, Gate, Ensure, Create, FindHeld,
     Deliver, Drop, UndeliverableTo, HoldUndelivered, Write, Clear, Die, OrFault
<1>3. ASSUME NEW a \in Ends, DeclineKnock(a) \/ Block(a) \/ GnosisPendingSweep(a) PROVE UNCHANGED faults
  BY <1>3 DEF DeclineKnock, Block, GnosisPendingSweep
<1> QED
  BY <1>1, <1>2, <1>3 DEF Next, vars, Fault

\* Without a fault a delivery goes on to the next statement, or it has emptied
\* the row, or found the conversation sealed.
LEMMA DeliveryGoesOn ==
  ASSUME TypeOK, Addressed, NEW r \in Requests, NEW a \in Ends, Carries(r, a), Step(r), faults' = 0,
         promised' = promised, promised[a] # 0, held[a].id = promised[a]
  PROVE  Carries(r, a)' \/ Sealed \/ held'[a].id = 0
<1>t. RequestsType /\ faults \in Nat
  BY DEF TypeOK, BooksType
<1>f. ~ Fault
  BY <1>t DEF Fault
<1>k. req[r].kind = "accept" /\ req[r].by = a /\ req[r].at \in {"findHeld", "ensure", "create", "deliver", "drop"}
  BY DEF Carries
<1>i. req[r].at # "findHeld" => req[r].id = promised[a]
  BY DEF Carries
<1>m. /\ \A p : Goto(r, p) => req'[r].kind = "accept" /\ req'[r].by = a /\ req'[r].at = p /\ req'[r].id = req[r].id
      /\ \A p, c : Into(r, p, c) => req'[r].kind = "accept" /\ req'[r].by = a /\ req'[r].at = p /\ req'[r].id = req[r].id
      /\ \A p, n, b : Carry(r, p, n, b) => req'[r].kind = "accept" /\ req'[r].by = a /\ req'[r].at = p /\ req'[r].id = n
  BY <1>t, <1>k, Fields, KindStays
<1>u. \A c, m : Use(r, c, m) => Into(r, "deliver", c)
  BY <1>k DEF Use, Is
<1>1. CASE FindHeld(r)
  <2>1. Carry(r, "ensure", held[a].id, held[a].body)
    BY <1>1, <1>f, <1>k DEF FindHeld, OrFault
  <2> QED
    BY <2>1, <1>m DEF Carries
<1>2. CASE Ensure(r)
  <2>1. req[r].at = "ensure" /\ ((\E c : Into(r, "deliver", c)) \/ Goto(r, "create"))
    BY <1>2, <1>u DEF Ensure
  <2> QED
    BY <2>1, <1>i, <1>m DEF Carries
<1>3. CASE Create(r)
  <2>1. req[r].at = "create" /\ \E c : Into(r, "deliver", c)
    BY <1>3, <1>f, <1>u DEF Create
  <2> QED
    BY <2>1, <1>i, <1>m DEF Carries
<1>4. CASE Deliver(r)
  <2>1. CASE convos[req[r].convo].mode = "plain"
    <3>1. req[r].at = "deliver" /\ Goto(r, "drop")
      BY <1>4, <1>f, <2>1 DEF Deliver, OrFault
    <3> QED
      BY <3>1, <1>i, <1>m DEF Carries
  <2>2. CASE convos[req[r].convo].mode # "plain"
    <3>1. convos[req[r].convo].mode = "sealed"
      BY <1>4, <1>f, <2>2 DEF Deliver, OrFault
    <3>2. req[r].convo \in Direct
      BY <1>4 DEF Deliver, Addressed
    <3> QED
      BY <3>1, <3>2 DEF Sealed
  <2> QED
    BY <2>1, <2>2
<1>5. CASE Drop(r)
  <2>1. req[r].at = "drop" /\ DeletePending(req[r].id)
    BY <1>5, <1>f DEF Drop
  <2>2. held'[a].id = 0
    BY <2>1, <1>i DEF DeletePending, NoRow
  <2> QED
    BY <2>2
<1>6. ~ Die(r)
  BY <1>f DEF Die
<1> QED
  BY <1>1, <1>2, <1>3, <1>4, <1>5, <1>6, <1>k
     DEF Step, Find, FindPending, Hold, Ask, Gate, UndeliverableTo, HoldUndelivered, Write, Clear

LEMMA KeepsPromiseStep ==
  ASSUME IInv, KeepsPromise, [Next]_vars PROVE KeepsPromise'
<1>t. /\ TypeOK /\ Addressed /\ RowsType /\ RequestsType /\ lastId \in Nat /\ faults \in Nat /\ Owned
      /\ \A e \in Ends : held[e].id \in Nat /\ promised[e] \in Nat
  BY DEF IInv, TypeOK, BooksType, RowsType, AuthorityType
<1> SUFFICES ASSUME NEW a \in Ends
    PROVE  /\ promised'[a] <= lastId'
           /\ faults' = 0 /\ promised'[a] # 0 /\ held'[a].id = promised'[a]
                  => Sealed' \/ \E r \in Requests : Carries(r, a)'
  BY DEF KeepsPromise
<1>i. promised[a] <= lastId /\ held[a].id <= lastId
  BY <1>t DEF KeepsPromise, Owned
\* A new row has a new id.
<1>r. lastId' \in Nat /\ lastId <= lastId' /\ (held'[a].id \in {0, held[a].id} \/ held'[a].id = lastId + 1)
  <2>1. CASE SameIds
    BY <2>1, <1>t DEF SameIds
  <2>2. ASSUME NEW q \in Requests, Upserts(q)
        PROVE  lastId' \in Nat /\ lastId <= lastId' /\ (held'[a].id \in {0, held[a].id} \/ held'[a].id = lastId + 1)
    <3>1. CASE held[req[q].by].id = 0
      BY <2>2, <1>t, <3>1, UpsertIds DEF Upserts
    <3>2. CASE held[req[q].by].id # 0
      BY <2>2, <1>t, <3>2, UpsertIds DEF Upserts
    <3> QED
      BY <3>1, <3>2
  <2> QED
    BY <2>1, <2>2, <1>t, RowIds
<1>1. CASE promised'[a] # promised[a]
  BY <1>1, <1>i, <1>t, PromiseMade
<1>2. CASE promised'[a] = promised[a]
  <2>1. promised'[a] <= lastId'
    BY <1>2, <1>i, <1>r, <1>t
  <2> SUFFICES ASSUME faults' = 0, promised[a] # 0, held'[a].id = promised[a]
               PROVE  Sealed' \/ \E r \in Requests : Carries(r, a)'
    BY <1>2, <2>1
  <2>2. held[a].id = promised[a]
    BY <1>i, <1>r, <1>t
  <2>3. faults = 0
    BY <1>t, FaultsGrow
  <2>4. CASE Sealed
    BY <2>4, <1>t, StepGrows DEF Sealed, Grows
  <2>5. CASE ~ Sealed
    <3>1. PICK r \in Requests : Carries(r, a)
      BY <2>2, <2>3, <2>5 DEF KeepsPromise
    <3>2. CASE req'[r] = req[r]
      BY <3>1, <3>2, <1>2 DEF Carries
    <3>3. CASE Arrive(r)
      BY <3>1, <3>3 DEF Arrive, Say, SendSealed, OpenByNumber, ReleaseHeld, AcceptKnock, Enter, Carries
    <3>4. CASE Step(r)
      <4>1. promised' = promised
        BY <3>4 DEF Step, Find, FindPending, Hold, Ask, Allowed, Requested, Denied, Unanswered, Gate, Ensure, Create,
           FindHeld, Deliver, Drop, UndeliverableTo, HoldUndelivered, Write, Clear, Die, Authority
      <4> QED
        BY <3>1, <3>4, <4>1, <2>2, <2>5, <1>t, DeliveryGoesOn
    <3> QED
      BY <3>1, <3>2, <3>3, <3>4, <1>t, WhoMoved
  <2> QED
    BY <2>4, <2>5
<1> QED
  BY <1>1, <1>2

\* An accepted knock delivers what was held for it: while nothing fails, the
\* promised row is gone or waits for a sealed conversation, whatever else the
\* two write, amend, release or block meanwhile (deliverHeldOnAccept).
THEOREM KnockDelivers == Spec => []AcceptDelivers
<1>1. Init => KeepsPromise
  <2>1. Init => \A a \in Ends : promised[a] = 0 /\ lastId = 0
    BY DEF Init
  <2> QED
    BY <2>1 DEF KeepsPromise
<1>2. IInv /\ KeepsPromise /\ [Next]_vars => KeepsPromise'
  BY KeepsPromiseStep
<1>3. KeepsPromise => AcceptDelivers
  BY DEF KeepsPromise, AcceptDelivers, Carries, Sealed
<1> QED
  BY <1>1, <1>2, <1>3, Invariant, PTL DEF Spec

-----------------------------------------------------------------------------
(* The audience: the row, and the tallies on their way to it. *)

\* The row is a status and a count, and an ended one counts nobody.
AudienceInv ==
  /\ row = [status |-> row.status, count |-> row.count]
  /\ EndedCountsNobody

\* The row changes with the status or with the count of a running broadcast.
LEMMA AudienceStep ==
  AudienceInv /\ [AudienceNext]_audienceVars => AudienceInv'
<1> SUFFICES ASSUME AudienceInv, [AudienceNext]_audienceVars PROVE AudienceInv'
  OBVIOUS
<1>1. CASE row' = row
  BY <1>1 DEF AudienceInv, EndedCountsNobody
<1>2. CASE StartStream
  <2>1. row'.status = "live" /\ row'.count = row.count
        /\ row' = [status |-> "live", count |-> row.count]
    BY <1>2 DEF AudienceInv, StartStream
  <2> QED
    BY <2>1 DEF AudienceInv, EndedCountsNobody
<1>3. CASE EndStream
  BY <1>3 DEF AudienceInv, EndedCountsNobody, EndStream
<1>4. ASSUME NEW t \in Tasks, UpdateViewerCount(t) PROVE AudienceInv'
  <2>1. CASE row.status = "live"
    <3>1. row' = [status |-> "live", count |-> task[t].n]
      BY <1>4, <2>1 DEF AudienceInv, UpdateViewerCount
    <3> QED
      BY <3>1 DEF AudienceInv, EndedCountsNobody
  <2>2. CASE row.status # "live"
    <3>1. row' = row
      BY <1>4, <2>2 DEF AudienceInv, UpdateViewerCount
    <3> QED
      BY <1>1, <3>1
  <2> QED
    BY <2>1, <2>2
<1>5. CASE Republish \/ Sweep \/ SweepLoads
  BY <1>1, <1>5 DEF Republish, Sweep, SweepLoads
<1>6. ASSUME NEW t \in Tasks, ReadState(t) \/ ShapeMoved(t) \/ PushState(t) \/ Forget(t)
                              \/ TallyMoved(t) \/ PushTally(t) \/ AppendChat(t)
      PROVE  AudienceInv'
  BY <1>1, <1>6 DEF ReadState, ShapeMoved, PushState, Forget, TallyMoved, PushTally, AppendChat
<1>7. ASSUME NEW v \in Viewers, OpenPage(v) \/ Close(v) \/ Heartbeat(v) \/ Serve(v) \/ ChatSend(v)
                                \/ FallsSilent(v) \/ Misses(v)
      PROVE  AudienceInv'
  BY <1>1, <1>7 DEF OpenPage, Close, Heartbeat, Serve, LoadPage, Wait, CountBeat, TellTheEnd, Answer,
     ChatSend, FallsSilent, Misses
<1>8. CASE UNCHANGED audienceVars
  BY <1>1, <1>8 DEF audienceVars
<1> QED
  BY <1>2, <1>3, <1>4, <1>5, <1>6, <1>7, <1>8 DEF AudienceNext, TaskStep

\* A broadcast that has ended counts nobody for ever, however many tallies taken
\* while it ran are persisted after its end (UpdateViewerCount's WHERE status).
THEOREM EndCountsNobody == AudienceSpec => []EndedCountsNobody
<1>1. AudienceInit => AudienceInv
  BY DEF AudienceInit, AudienceInv, EndedCountsNobody
<1>2. AudienceInv => EndedCountsNobody
  BY DEF AudienceInv
<1> QED
  BY <1>1, <1>2, AudienceStep, PTL DEF AudienceSpec
=============================================================================
