--------------------------- MODULE BoardRequests ---------------------------
(***************************************************************************)
(* Requesting a board (pages/board-requests/new): the form, its submission *)
(* to mural-mcp and the confirmation page.  What is confirmed travels from *)
(* the POST to the GET in the session, under a key of its own: set, not    *)
(* flashed, and read with get(key, true), which clears it.                 *)
(***************************************************************************)
EXTENDS MuralGate, BoardServices

CONSTANT Boards   \* the board ids a user may ask for

ASSUME BoardsAssumption == Boards \cap {"none", "valid", "invalid"} = {}

VARIABLE
  requests        \* [Boards -> request] the governance store of mural-mcp

boardVars == <<requestVars, gateVars, requests>>

BoardRoutes == { "newBoard", "submitBoard", "confirmation" }

Confirmation == Page("confirmation")

BoardRequestsMade ==
  { Page("newBoard"), Get("submitBoard", "invalid"), Confirmation }
    \cup { Get("submitBoard", b) : b \in Boards }

\* A board is requested by this user or by another one, or its last request
\* was rejected and it can be requested again.
Requested == { "mine", "theirs" }
RequestStates == Requested \cup { "none", "rejected" }

-----------------------------------------------------------------------------
(* mural-mcp's governance store. *)

\* Another user requests the board, or a request is rejected.
StoreChanges(b) ==
  /\ upsets < MaxUpsets
  /\ requests' = [requests EXCEPT ![b] = IF @ \in Requested THEN "rejected" ELSE "theirs"]
  /\ upsets' = upsets + 1
  /\ UNCHANGED <<requestVars, link>>

SubmitFailures == { NetworkError, Reply(500, Null) }

\* The request is recorded, or conflicts with one there is; when the reply is
\* lost or a 500, it may have been recorded all the same.
SubmitReply(reply, b, recorded) ==
  \/ reply = Reply(201, Null) /\ requests[b] \notin Requested /\ recorded
  \/ reply = Reply(409, Null) /\ requests[b] \in Requested /\ ~recorded
  \/ upsets < MaxUpsets /\ reply \in SubmitFailures /\ (recorded => requests[b] \notin Requested)

Record(b, recorded) ==
  requests' = IF recorded THEN [requests EXCEPT ![b] = "mine"] ELSE requests

-----------------------------------------------------------------------------
(* POST /board-requests/new *)

\* postBoardRequestFailAction: the form again, with status 400.
RejectForm(t) ==
  /\ pc[t] = "failAction"
  /\ Render(t, BlankPage)
  /\ NoTouch
  /\ HandlerFrame
  /\ UNCHANGED <<gateVars, requests>>

AskBoard(t) ==
  /\ pc[t] = "handler"
  /\ req[t].route = "submitBoard"
  /\ Await(t, "submit")
  /\ NoTouch
  /\ HandlerFrame
  /\ UNCHANGED <<page, goto, gateVars, requests>>

\* Mutant: the first submission waiting to be confirmed stays.
SetBoardRequest_KeepsOldest(s, b) ==
  IF s.boardRequest = "none" THEN [s EXCEPT !.boardRequest = b] ELSE s

SetBoardRequest(s, b) == [s EXCEPT !.boardRequest = b]

\* Mutant: the conflict is put into the session for the form to show.
FinishSubmit_ThroughSession(t, result) ==
  \/ /\ result # "thrown"
     /\ Touch(t, SetBoardRequest(ses[t], IF result = "success" THEN req[t].arg ELSE result))
     /\ Redirect(t, Confirmation)
  \/ result = "thrown" /\ NoTouch /\ Render(t, BlankPage)

FinishSubmit(t, result) ==
  \/ /\ result = "success"
     /\ Touch(t, SetBoardRequest(ses[t], req[t].arg))
     /\ Redirect(t, Confirmation)
  \/ result = "conflict" /\ NoTouch /\ Render(t, [BlankPage EXCEPT !.message = "conflict"])
  \/ result = "thrown" /\ NoTouch /\ Render(t, BlankPage)

SubmitAnswered(t) ==
  /\ pc[t] = "submit"
  /\ \E reply \in SubmitFailures \cup {Reply(201, Null), Reply(409, Null)}, recorded \in BOOLEAN :
       /\ SubmitReply(reply, req[t].arg, recorded)
       /\ Record(req[t].arg, recorded)
       /\ Tally(reply, SubmitFailures)
       /\ FinishSubmit(t, SubmitBoardRequest(reply))
  /\ HandlerFrame
  /\ UNCHANGED link

-----------------------------------------------------------------------------
(* GET /board-requests/new/confirmation, which the gate does not guard. *)

\* Mutant: read without clearing.
TakeBoardRequest_Get(s) == s

TakeBoardRequest(s) == [s EXCEPT !.boardRequest = "none"]

ShowConfirmation(t, b) ==
  IF b = "none" THEN Redirect(t, Page("newBoard"))
  ELSE Render(t, [BlankPage EXCEPT !.request = b])

ServeConfirmation(t) ==
  /\ pc[t] = "handler"
  /\ req[t] = Confirmation
  /\ Touch(t, TakeBoardRequest(ses[t]))
  /\ ShowConfirmation(t, ses[t].boardRequest)
  /\ HandlerFrame
  /\ UNCHANGED <<gateVars, requests>>

-----------------------------------------------------------------------------

BoardHandler(t) ==
  \/ RejectForm(t)
  \/ AskBoard(t)
  \/ SubmitAnswered(t)
  \/ ServeConfirmation(t)
  \/ (ServeForm(t) \/ Gate(t)) /\ UNCHANGED requests

BoardUser(t) ==
  \/ \E r \in BoardRequestsMade : Begin(t, r) /\ UNCHANGED <<gateVars, requests>>
  \/ GiveUp(t) /\ UNCHANGED <<gateVars, requests>>

BoardPortal(t) ==
  \/ BoardHandler(t)
  \/ /\ Respond(t) \/ Deliver(t) \/ Follow(t, BoardRoutes) \/ Leave(t, BoardRoutes)
     /\ UNCHANGED <<gateVars, requests>>

BoardsNext ==
  \/ \E t \in Tabs : BoardUser(t) \/ BoardPortal(t)
  \/ \E b \in Boards : StoreChanges(b)
  \/ \E l \in Links : LinkChanges(l) /\ UNCHANGED requests

BoardsInit ==
  /\ GateInit
  /\ requests \in [Boards -> RequestStates \ {"mine"}]

\* As in MuralLinking: what the portal, the network and the browser do by
\* themselves gets done.
BoardsSpec ==
  /\ BoardsInit
  /\ [][BoardsNext]_boardVars
  /\ \A t \in Tabs : WF_boardVars(BoardPortal(t))

-----------------------------------------------------------------------------
(* Properties. *)

BoardSessions ==
  [ muralLinkRequired    : {Nowhere, Page("newBoard")},
    linkingOutcome       : {<<>>},
    newPersonalToken     : {<<>>},
    revokedPersonalToken : {<<>>},
    boardRequest         : Boards \cup {"none"} ]

BoardPages ==
  [ message   : {"none", "conflict"},
    required  : {Nowhere},
    status    : {"none"},
    check     : {NoCheck},
    url       : {"none"},
    secret    : {"none"},
    revoked   : {"none"},
    revocable : {{}},
    request   : Boards \cup {"none"} ]

\* Type invariant of the board request pages.
BoardsTypeOK ==
  /\ storage \in Storages
  /\ stored \in BoardSessions
  /\ pc \in [Tabs -> { "rest", "failAction", "gate", "handler", "submit", "done",
                       "sent", "redirected" }]
  /\ req \in [Tabs -> BoardRequestsMade \cup {Nowhere, LinkingPage}]
  /\ ses \in [Tabs -> BoardSessions]
  /\ dirty \in [Tabs -> BOOLEAN]
  /\ page \in [Tabs -> BoardPages]
  /\ goto \in [Tabs -> {Nowhere, LinkingPage, Confirmation, Page("newBoard")}]
  /\ aborts \in 0..MaxAborts
  /\ link \in Links
  /\ upsets \in 0..MaxUpsets
  /\ requests \in [Boards -> RequestStates]

\* Safety: a user is told that a request for the board already exists only when
\* one has been made, and not because the submission failed
\* (services/board-requests.js:21-28, controller.js:61-76).
ConflictIsReal ==
  \A t \in Tabs : page[t].message = "conflict" => requests[req[t].arg] # "none"

=============================================================================
