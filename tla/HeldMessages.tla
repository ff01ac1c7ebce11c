---------------------------- MODULE HeldMessages ----------------------------
(***************************************************************************)
(* Gnosis, the messaging brain, between two people (feed-engine,           *)
(* internal/gnosis, handler/messages.go, api_v1_messages.go, numbers.go,   *)
(* api_v1_numbers.go, gnosis_sealed.go).  A message written to a person    *)
(* there is no conversation with is HELD, one row per (sender, target),    *)
(* while the contact authority (elohim-veni) is asked; allowed, it goes    *)
(* into a conversation; refused, it stays; a knock that is accepted        *)
(* delivers it.  A conversation is plain or sealed for good, and plaintext *)
(* is never written into a sealed one.                                     *)
(*                                                                         *)
(* Every request is a sequence of statements: each read of the database,   *)
(* each write and the round trip to the authority is a step of its own,    *)
(* and the requests of both people interleave.  A sentence is <<who wrote  *)
(* it, how many they had written>>.  Rendering, the rate limits, the read  *)
(* marks and the pushes to open pages are left out.  Nothing creates a     *)
(* group, so the conversations are those of the pair.                      *)
(***************************************************************************)
EXTENDS Naturals, Sequences, FiniteSets

CONSTANTS Ends,       \* the two accounts
          Nobody,     \* the author of no request
          Requests,   \* requests that may be in flight at once
          MaxCalls,   \* bound: requests made in all, blocks included
          MaxFaults   \* bound: statements that fail, handlers that die

ASSUME EndsAssumption == Cardinality(Ends) = 2 /\ Nobody \notin Ends
ASSUME BoundsAssumption == MaxCalls \in Nat /\ MaxFaults \in Nat

VARIABLES held,     \* gnosis_pending_messages: the row of each sender, or NoRow
          convos,   \* gnosis_conversations: mode, plain sentences, who sealed
          blocks,   \* blocks: those who blocked the other one
          knock,    \* contact_requests: the standing of each one's knock
          allowed,  \* history: those the authority has let through to the other
          promised, \* history: the row that was held when the knock was accepted
          req,      \* the requests in flight
          said,     \* sentences written so far, of each one
          lastId, calls, faults

vars == <<held, convos, blocks, knock, allowed, promised, req, said, lastId, calls, faults>>

Peer(a) == CHOOSE b \in Ends : b # a
Modes == {"plain", "sealed"}
NoRow == [id |-> 0, body |-> 0, decision |-> ""]
Direct == 1..Len(convos)    \* FindDirectConversation: LIMIT 1, in no order

\* "" has not been asked, or was reset by an amendment.
Decisions == {"", "request", "deny", "unavailable"}
Kinds == {"toPerson", "start", "send", "seal", "byNumber", "release", "open", "accept"}
Places == {"idle", "find", "existing", "hold", "ask", "gate", "ensure", "create", "deliver",
           "drop", "blocks", "write", "seal", "clear", "undelivered", "findHeld"}

\* by: whose sentence it is.  answer: "held" when that is what they were told.
Idle == [kind |-> "open", by |-> Nobody, at |-> "idle", id |-> 0, body |-> 0,
         convo |-> 0, decision |-> "", answer |-> ""]

Init ==
    /\ held = [a \in Ends |-> NoRow]
    /\ convos = <<>>
    /\ blocks = {}
    /\ knock = [a \in Ends |-> "none"]
    /\ allowed = {}
    /\ promised = [a \in Ends |-> 0]
    /\ req = [r \in Requests |-> Idle]
    /\ said = [a \in Ends |-> 0]
    /\ lastId = 0 /\ calls = 0 /\ faults = 0

-----------------------------------------------------------------------------
(* The statements the handlers are made of.                                 *)

\* One row per pair; amending it keeps its id and unasks it.
UpsertPending(a, b) ==
    LET i == IF held[a].id = 0 THEN lastId + 1 ELSE held[a].id
    IN  /\ held' = [held EXCEPT ![a] = [id |-> i, body |-> b, decision |-> ""]]
        /\ lastId' = IF held[a].id = 0 THEN lastId + 1 ELSE lastId

\* By id, so a row that is gone is not brought back.
SetPendingDecision(i, d) ==
    held' = [a \in Ends |-> IF i # 0 /\ held[a].id = i
                            THEN [id |-> i, body |-> held[a].body, decision |-> d] ELSE held[a]]

\* By id, whatever the row says by now.
DeletePending(i) == held' = [a \in Ends |-> IF i # 0 /\ held[a].id = i THEN NoRow ELSE held[a]]

DeletePendingForConversationPeer(a) == held' = [held EXCEPT ![a] = NoRow]

InsertPlainMessage(c, a, b) ==
    convos' = [convos EXCEPT ![c] = [mode |-> convos[c].mode, plain |-> convos[c].plain \cup {<<a, b>>},
                                     sealers |-> convos[c].sealers]]

InsertSealedMessage(c, a) ==
    convos' = [convos EXCEPT ![c] = [mode |-> convos[c].mode, plain |-> convos[c].plain,
                                     sealers |-> convos[c].sealers \cup {a}]]

\* The mode is decided by who the two are, and never updated.
CreateConversation(m) == convos' = Append(convos, [mode |-> m, plain |-> {}, sealers |-> {}])

Is(r, kinds) == req[r].kind \in kinds
Goto(r, place) == req' = [req EXCEPT ![r].at = place]
Into(r, place, c) == req' = [req EXCEPT ![r] = [@ EXCEPT !.at = place, !.convo = c]]
Judge(r, place, d) == req' = [req EXCEPT ![r] = [@ EXCEPT !.at = place, !.decision = d]]
Carry(r, place, i, b) == req' = [req EXCEPT ![r] = [@ EXCEPT !.at = place, !.id = i, !.body = b]]
Done(r, answer) == req' = [req EXCEPT ![r] = [Idle EXCEPT !.answer = answer]]
Fault == faults < MaxFaults /\ faults' = faults + 1
OrFault(cond) == (cond /\ UNCHANGED faults) \/ Fault
Kept == UNCHANGED <<blocks, said, calls>>
Authority == <<knock, allowed, promised>>
Refused(r) == IF Is(r, {"toPerson", "start", "release"})
              THEN Judge(r, "gate", "unavailable") ELSE Done(r, "")

-----------------------------------------------------------------------------
(* The requests arrive.                                                     *)

Called == calls < MaxCalls /\ calls' = calls + 1

Enter(r, a, k, place, i, b, c) ==
    /\ req[r].at = "idle" /\ Called
    /\ req' = [req EXCEPT ![r] = [kind |-> k, by |-> a, at |-> place, id |-> i, body |-> b,
                                 convo |-> c, decision |-> "", answer |-> ""]]

\* Something written to a person, to a Number, or into a plain conversation.
Say(r, a) ==
    /\ said' = [said EXCEPT ![a] = @ + 1]
    /\ \/ \E k \in {"toPerson", "start"} : Enter(r, a, k, "find", 0, said[a] + 1, 0)
       \/ Enter(r, a, "byNumber", "ask", 0, said[a] + 1, 0)
       \/ \E c \in Direct : convos[c].mode = "plain" /\ Enter(r, a, "send", "blocks", 0, said[a] + 1, c)
    /\ UNCHANGED <<held, convos, blocks, Authority, lastId, faults>>

SendSealed(r, a) ==
    /\ \E c \in Direct : convos[c].mode = "sealed" /\ Enter(r, a, "seal", "seal", 0, 0, c)
    /\ UNCHANGED <<held, convos, blocks, Authority, said, lastId, faults>>

\* A Number typed to open a conversation, with nothing written yet.
OpenByNumber(r, a) ==
    /\ Enter(r, a, "open", "ask", 0, 0, 0)
    /\ UNCHANGED <<held, convos, blocks, Authority, said, lastId, faults>>

\* A Number typed against the message that is waiting.
ReleaseHeld(r, a) ==
    /\ held[a].id # 0
    /\ Enter(r, a, "release", "ask", held[a].id, held[a].body, 0)
    /\ UNCHANGED <<held, convos, blocks, Authority, said, lastId, faults>>

\* The knock of a is answered: the grant is the authority's, the delivery ours.
AcceptKnock(r, a) ==
    /\ knock[a] = "pending"
    /\ knock' = [knock EXCEPT ![a] = "accepted"]
    /\ allowed' = allowed \cup {a}
    /\ promised' = [promised EXCEPT ![a] = held[a].id]
    /\ Enter(r, a, "accept", "findHeld", 0, 0, 0)
    /\ UNCHANGED <<held, convos, blocks, said, lastId, faults>>

DeclineKnock(a) ==
    /\ knock[a] = "pending"
    /\ knock' = [knock EXCEPT ![a] = "none"]
    /\ Called
    /\ UNCHANGED <<held, convos, blocks, allowed, promised, req, said, lastId, faults>>

-----------------------------------------------------------------------------
(* sendToPerson and message_start: is there a conversation already?         *)

\* An error reads as "there is none".
Find(r) ==
    /\ req[r].at = "find"
    /\ \/ \E c \in Direct :
             /\ \/ Is(r, {"toPerson"}) /\ Into(r, "existing", c)
                \/ /\ Is(r, {"start"}) /\ convos[c].mode = "plain"
                   /\ Into(r, "blocks", c)
                \/ Is(r, {"start"}) /\ convos[c].mode = "sealed" /\ Done(r, "")
             /\ UNCHANGED faults
       \/ OrFault(convos = <<>>) /\ Goto(r, "hold")
    /\ UNCHANGED <<held, convos, Authority, lastId>> /\ Kept

\* The row the new sentence supersedes is carried along by its id.
FindPending(r) ==
    /\ req[r].at = "existing"
    /\ \/ UNCHANGED faults /\ Carry(r, "deliver", held[req[r].by].id, req[r].body)
       \/ Fault /\ Goto(r, "deliver")
    /\ UNCHANGED <<held, convos, Authority, lastId>> /\ Kept

\* Held before it is judged; by Number, only once the knock has been opened.
Hold(r) ==
    /\ req[r].at = "hold"
    /\ \/ /\ UpsertPending(req[r].by, req[r].body) /\ UNCHANGED faults
          /\ Carry(r, IF Is(r, {"byNumber"}) THEN "gate" ELSE "ask", held'[req[r].by].id, req[r].body)
       \/ Fault /\ Done(r, "") /\ UNCHANGED <<held, lastId>>
    /\ UNCHANGED <<convos, Authority>> /\ Kept

-----------------------------------------------------------------------------
(* The contact authority is asked, and what comes of its answer.            *)

\* A grant lets the sender through; otherwise the policy may, or a contact link.
Allowed(r) ==
    /\ allowed' = allowed \cup {req[r].by}
    /\ Goto(r, "ensure")
    /\ UNCHANGED <<knock, promised, faults>>

\* Mutant of Requested: a knock passes for a permission.
RequestedOpens(r) ==
    /\ knock[req[r].by] # "accepted"
    /\ knock' = [knock EXCEPT ![req[r].by] = "pending"]
    /\ Goto(r, "ensure")
    /\ UNCHANGED <<allowed, promised, faults>>

\* The knock is opened unless one is pending already, and then nobody is named.
\* By Number that is the end of it: "held", with nothing kept.
Requested(r) ==
    LET a == req[r].by IN
    /\ knock[a] # "accepted"
    /\ knock' = [knock EXCEPT ![a] = "pending"]
    /\ \/ /\ Is(r, {"toPerson", "start", "release"})
          /\ Judge(r, "gate", "request")
       \/ /\ Is(r, {"byNumber"}) /\ knock[a] = "none"
          /\ Judge(r, "hold", "request")
       \/ Is(r, {"byNumber"}) /\ knock[a] = "pending" /\ Done(r, "held")
       \/ Is(r, {"open"}) /\ Done(r, "")
    /\ UNCHANGED <<allowed, promised, faults>>

\* Through a grant only a Number that admits nobody any more denies.
Denied(r) ==
    /\ knock[req[r].by] # "accepted" \/ Is(r, {"byNumber", "release", "open"})
    /\ \/ /\ Is(r, {"toPerson", "start", "release"})
          /\ Judge(r, "gate", "deny")
       \/ Is(r, {"byNumber", "open"}) /\ Done(r, "")
    /\ UNCHANGED <<Authority, faults>>

\* No answer: nobody was asked, or the answer was lost and the knock stands.
Unanswered(r) ==
    /\ Fault
    /\ \/ UNCHANGED knock
       \/ knock[req[r].by] = "none" /\ knock' = [knock EXCEPT ![req[r].by] = "pending"]
    /\ Refused(r)
    /\ UNCHANGED <<allowed, promised>>

Ask(r) ==
    /\ req[r].at = "ask"
    /\ Allowed(r) \/ Requested(r) \/ Denied(r) \/ Unanswered(r)
    /\ UNCHANGED <<held, convos, lastId>> /\ Kept

\* What was answered is recorded under the row, whatever it says by now.
Gate(r) ==
    /\ req[r].at = "gate"
    /\ \/ SetPendingDecision(req[r].id, req[r].decision) /\ UNCHANGED faults
       \/ Fault /\ UNCHANGED held
    /\ Done(r, IF req[r].decision = "request" THEN "held" ELSE "")
    /\ UNCHANGED <<convos, Authority, lastId>> /\ Kept

-----------------------------------------------------------------------------
(* ensureDirectConversation: find, then create, with no lock between.       *)

\* What each request does with the conversation it was given.
Use(r, c, m) ==
    \/ /\ Is(r, {"toPerson", "release", "accept"})
       /\ Into(r, "deliver", c)
    \/ /\ Is(r, {"start", "byNumber"}) /\ m = "plain"
       /\ Into(r, "blocks", c)
    \/ Is(r, {"start", "byNumber"}) /\ m = "sealed" /\ Done(r, "")
    \/ Is(r, {"open"}) /\ Done(r, "")

Ensure(r) ==
    /\ req[r].at = "ensure"
    /\ \/ \E c \in Direct : Use(r, c, convos[c].mode) /\ UNCHANGED faults
       \/ OrFault(convos = <<>>) /\ Goto(r, "create")
    /\ UNCHANGED <<held, convos, Authority, lastId>> /\ Kept

Create(r) ==
    /\ req[r].at = "create"
    /\ \/ \E m \in Modes : CreateConversation(m) /\ Use(r, Len(convos) + 1, m) /\ UNCHANGED faults
       \/ Fault /\ Refused(r) /\ UNCHANGED convos
    /\ UNCHANGED <<held, Authority, lastId>> /\ Kept

-----------------------------------------------------------------------------
(* deliverPending and deliverHeldOnAccept: the held sentence goes in.       *)

\* Mutant of FindHeld: accepting a knock delivers nothing.
FindNothing(r) ==
    /\ req[r].at = "findHeld" /\ Done(r, "")
    /\ UNCHANGED <<held, convos, Authority, lastId, faults>> /\ Kept

FindHeld(r) ==
    LET h == held[req[r].by] IN
    /\ req[r].at = "findHeld"
    /\ \/ /\ h.id # 0 /\ UNCHANGED faults
          /\ Carry(r, "ensure", h.id, h.body)
       \/ OrFault(h.id = 0) /\ Done(r, "")
    /\ UNCHANGED <<held, convos, Authority, lastId>> /\ Kept

\* Mutant of Deliver: the mode is not looked at.
DeliverAnywhere(r) ==
    /\ req[r].at = "deliver"
    /\ InsertPlainMessage(req[r].convo, req[r].by, req[r].body) /\ Goto(r, "drop")
    /\ UNCHANGED <<held, Authority, lastId, faults>> /\ Kept

\* Mutant of Deliver: the hold is released although nothing was written.
DeliverAndRelease(r) ==
    LET c == req[r].convo IN
    /\ req[r].at = "deliver" /\ Goto(r, "drop")
    /\ \/ convos[c].mode = "plain" /\ InsertPlainMessage(c, req[r].by, req[r].body)
       \/ convos[c].mode = "sealed" /\ UNCHANGED convos
    /\ UNCHANGED <<held, Authority, lastId, faults>> /\ Kept

\* A sealed conversation, or an insert that fails, leaves the hold alone.
Deliver(r) ==
    LET c == req[r].convo IN
    /\ req[r].at = "deliver"
    /\ \/ /\ convos[c].mode = "plain" /\ UNCHANGED faults
          /\ InsertPlainMessage(c, req[r].by, req[r].body) /\ Goto(r, "drop")
       \/ OrFault(convos[c].mode = "sealed") /\ Done(r, "") /\ UNCHANGED convos
    /\ UNCHANGED <<held, Authority, lastId>> /\ Kept

Drop(r) ==
    /\ req[r].at = "drop"
    /\ \/ DeletePending(req[r].id) /\ UNCHANGED faults
       \/ Fault /\ UNCHANGED held
    /\ Done(r, "")
    /\ UNCHANGED <<convos, Authority, lastId>> /\ Kept

-----------------------------------------------------------------------------
(* sendIntoConversation and the sealed send.                                *)

\* A block in either direction stops it; so does failing to find out.
UndeliverableTo(r) ==
    /\ req[r].at = "blocks"
    /\ \/ blocks = {} /\ UNCHANGED faults /\ Goto(r, "write")
       \/ /\ OrFault(blocks # {})
          /\ (Is(r, {"send"}) /\ Goto(r, "undelivered")) \/ Done(r, "")
    /\ UNCHANGED <<held, convos, Authority, lastId>> /\ Kept

\* The app keeps the sentence that did not arrive; the browser's form does not.
HoldUndelivered(r) ==
    /\ req[r].at = "undelivered"
    /\ \/ UpsertPending(req[r].by, req[r].body) /\ UNCHANGED faults
       \/ Fault /\ UNCHANGED <<held, lastId>>
    /\ Done(r, "")
    /\ UNCHANGED <<convos, Authority>> /\ Kept

Write(r) ==
    /\ req[r].at \in {"write", "seal"}
    /\ \/ /\ IF req[r].at = "seal" THEN InsertSealedMessage(req[r].convo, req[r].by)
                                   ELSE InsertPlainMessage(req[r].convo, req[r].by, req[r].body)
          /\ Goto(r, "clear") /\ UNCHANGED faults
       \/ Fault /\ Done(r, "") /\ UNCHANGED convos
    /\ UNCHANGED <<held, Authority, lastId>> /\ Kept

Clear(r) ==
    /\ req[r].at = "clear"
    /\ \/ DeletePendingForConversationPeer(req[r].by) /\ UNCHANGED faults
       \/ Fault /\ UNCHANGED held
    /\ Done(r, "")
    /\ UNCHANGED <<convos, Authority, lastId>> /\ Kept

-----------------------------------------------------------------------------
\* The process dies between two statements of a request.
Die(r) ==
    /\ req[r].at # "idle" /\ Fault /\ Done(r, "")
    /\ UNCHANGED <<held, convos, Authority, lastId>> /\ Kept

Block(a) ==
    /\ blocks' \in {blocks \cup {a}, blocks \ {a}} /\ blocks' # blocks
    /\ Called
    /\ UNCHANGED <<held, convos, Authority, req, said, lastId, faults>>

\* The hourly sweep of what has been held for too long.
GnosisPendingSweep(a) ==
    /\ held[a].id # 0
    /\ held' = [held EXCEPT ![a] = NoRow]
    /\ UNCHANGED <<convos, Authority, req, lastId, faults>> /\ Kept

Arrive(r) == \E a \in Ends : \/ Say(r, a) \/ SendSealed(r, a) \/ OpenByNumber(r, a)
                             \/ ReleaseHeld(r, a) \/ AcceptKnock(r, a)

Step(r) == \/ Find(r) \/ FindPending(r) \/ Hold(r) \/ Ask(r) \/ Gate(r) \/ Ensure(r) \/ Create(r)
           \/ FindHeld(r) \/ Deliver(r) \/ Drop(r) \/ UndeliverableTo(r) \/ HoldUndelivered(r)
           \/ Write(r) \/ Clear(r) \/ Die(r)

Next == \/ \E r \in Requests : Arrive(r) \/ Step(r)
        \/ \E a \in Ends : DeclineKnock(a) \/ Block(a) \/ GnosisPendingSweep(a)

Spec == Init /\ [][Next]_vars

-----------------------------------------------------------------------------
Requesting == [kind : Kinds, by : Ends \cup {Nobody}, at : Places, id : Nat, body : Nat,
               convo : Nat, decision : Decisions, answer : {"", "held"}]

RowsType == held \in [Ends -> [id : Nat, body : Nat, decision : Decisions]]
ConvosType == convos \in Seq([mode : Modes, plain : SUBSET (Ends \X Nat), sealers : SUBSET Ends])
RequestsType == /\ req \in [Requests -> Requesting]
                /\ \A r \in Requests : req[r].by = Nobody <=> req[r].at = "idle"
AuthorityType == /\ knock \in [Ends -> {"none", "pending", "accepted"}]
                 /\ promised \in [Ends -> Nat] /\ allowed \subseteq Ends
BooksType == /\ said \in [Ends -> Nat] /\ blocks \subseteq Ends
             /\ lastId \in Nat /\ calls \in Nat /\ faults \in Nat

\* Every row and request is one the code can be in, and a request that names
\* its sender is in flight (gnosis_pending_messages_one_per_pair is in held).
TypeOK == RowsType /\ ConvosType /\ RequestsType /\ AuthorityType /\ BooksType

\* No readable sentence is ever written into a sealed conversation: a held one
\* waits outside it for the client that can seal it (deliverPending,
\* deliverHeldOnAccept, sendIntoConversation, message_start, startByNumber).
NoPlainInSealed == \A c \in Direct : convos[c].mode = "sealed" => convos[c].plain = {}

\* A conversation exists only once the authority has let one of the two through
\* to the other: no error, refusal or unanswered knock opens one.
NotBeforeTheyAgree == convos # <<>> => allowed # {}

\* An accepted knock delivers what was held for it: with nothing failing, once
\* no request is left the row that was promised is gone, or waits only for a
\* sealed conversation (deliverHeldOnAccept: "this message goes with it").
AcceptDelivers ==
    faults = 0 /\ (\A r \in Requests : req[r].at = "idle")
        => \A a \in Ends : promised[a] # 0 /\ held[a].id = promised[a]
               => \E c \in Direct : convos[c].mode = "sealed"

Spoke(a) == \E c \in Direct : a \in convos[c].sealers \/ \E s \in convos[c].plain : s[1] = a

\* A held sentence is the sender's until it lands: but for the sweep, a row goes
\* only once its sender has said something in a conversation of the two, through
\* every refusal, failed statement, crash and amendment on the way.
HoldOutlastsRefusal ==
    [][\A a \in Ends : held[a].id # 0 /\ held'[a].id = 0
           => Spoke(a) \/ GnosisPendingSweep(a)]_vars

\* "A message nobody kept is not held, and saying it was would be the one lie
\* this lane could tell": who is told "held" has a row held, or has been heard.
HeldIsKept ==
    [][\A r \in Requests : req[r].at # "idle" /\ req'[r].answer = "held"
           => held[req[r].by].id # 0 \/ Spoke(req[r].by)]_vars
=============================================================================
