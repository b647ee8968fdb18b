------------------------ MODULE BoardJourney_proofs ------------------------
(***************************************************************************)
(* Proofs about requesting a board, for every set of tabs and of boards    *)
(* and every bound.                                                        *)
(***************************************************************************)
EXTENDS BoardJourney, TLAPS

\* What the type invariant rests on: a request in service is one of a board
\* page, only a valid submission gets past validation, and what a page says
\* is on a finished response that does not redirect.
BoardsServed ==
  \A t \in Tabs :
    /\ pc[t] # "rest" => req[t] \in BoardRequestsMade
    /\ pc[t] \in {"gate", "handler", "submit"} => req[t].arg # "invalid"
    /\ pc[t] = "gate" => req[t] # Confirmation
    /\ pc[t] = "submit" => req[t].route = "submitBoard"
    /\ goto[t] # Nowhere => pc[t] \in {"done", "sent", "redirected"}
    /\ page[t].message # "none" =>
         req[t].route = "submitBoard" /\ req[t].arg \in Boards /\ pc[t] \in {"done", "sent"}
    /\ page[t].request # "none" =>
         req[t] = Confirmation /\ goto[t] = Nowhere /\ pc[t] \in {"done", "sent"}

BoardsShape == BoardsTypeOK /\ BoardsServed

-----------------------------------------------------------------------------
(* The service, the requests, the session key and the pages. *)

LEMMA SubmitAnswers ==
  /\ SubmitBoardRequest(Reply(201, Null)) = "success"
  /\ SubmitBoardRequest(Reply(409, Null)) = "conflict"
  /\ \A reply \in SubmitFailures : SubmitBoardRequest(reply) = "thrown"
  /\ Reply(201, Null) \notin SubmitFailures
  /\ Reply(409, Null) \notin SubmitFailures
  /\ Reply(201, Null) # Reply(409, Null)
  BY DEF SubmitFailures, NetworkError, SubmitBoardRequest, Request, ResponseOk, Reply, Null

LEMMA BoardStatusSound ==
  ASSUME NEW l \in Links
  PROVE  StatusReply(l) \notin Failures
  BY DEF StatusReply, Failures, NetworkError, Reply, Null

LEMMA BoardRequestsClosed ==
  /\ \A r \in BoardRequestsMade : r # Confirmation => AsGet(r) = Page("newBoard")
  /\ \A r \in BoardRequestsMade :
       EntryPoint(r) = IF r = Get("submitBoard", "invalid") THEN "failAction"
                       ELSE IF r = Confirmation THEN "handler" ELSE "gate"
  /\ \A r \in BoardRequestsMade :
       /\ r.route = "submitBoard" /\ r.arg # "invalid" => r.arg \in Boards
       /\ r # Get("submitBoard", "invalid") => r.arg # "invalid"
  /\ {Confirmation, Page("newBoard")} \subseteq BoardRequestsMade
  /\ Confirmation.route = "confirmation" /\ Page("newBoard").route = "newBoard"
  /\ Nowhere \notin {LinkingPage, Confirmation, Page("newBoard")}
  /\ Confirmation \notin {LinkingPage, Page("newBoard")}
  /\ {Nowhere.route, LinkingPage.route} \cap BoardRoutes = {}
  BY BoardsAssumption
  DEF BoardRequestsMade, AsGet, EntryPoint, GatedRoutes, LinkingPage, Nowhere, Page, Get, BoardRoutes,
      Confirmation

LEMMA EmptyBoardSession == EmptySession \in BoardSessions /\ EmptySession.boardRequest = "none"
  BY DEF EmptySession, BoardSessions

LEMMA BoardSessionsClosed ==
  ASSUME NEW s \in BoardSessions
  PROVE  /\ TakeBoardRequest(s) \in BoardSessions
         /\ TakeBoardRequest(s).boardRequest = "none"
         /\ s.boardRequest \in Boards \cup {"none"}
         /\ \A b \in Boards : /\ SetBoardRequest(s, b) \in BoardSessions
                              /\ SetBoardRequest(s, b).boardRequest = b
         /\ \A r \in BoardRequestsMade : r # Confirmation => StashReturn(s, r) \in BoardSessions
         /\ \A r : StashReturn(s, r).boardRequest = s.boardRequest
  BY BoardRequestsClosed DEF TakeBoardRequest, SetBoardRequest, StashReturn, BoardSessions

LEMMA BoardPagesTyped ==
  /\ BlankPage \in BoardPages /\ BlankPage.message = "none" /\ BlankPage.request = "none"
  /\ LET p == [BlankPage EXCEPT !.message = "conflict"]
     IN  p \in BoardPages /\ p.message = "conflict" /\ p.request = "none"
  /\ \A b \in Boards : LET p == [BlankPage EXCEPT !.request = b]
                       IN  p \in BoardPages /\ p.message = "none" /\ p.request = b
  BY DEF BlankPage, BoardPages, NoCheck, CheckResult

-----------------------------------------------------------------------------
(* The life of a request keeps the shape. *)

LEMMA BoardArriveShape ==
  ASSUME BoardsShape, NEW t \in Tabs, NEW r \in BoardRequestsMade, Arrive(t, r),
         pc[t] \in {"rest", "redirected"}, UNCHANGED <<gateVars, requests>>
  PROVE  BoardsShape'
<1>1. /\ EntryPoint(r) \in {"gate", "handler", "failAction"}
      /\ EntryPoint(r) # "failAction" => r.arg # "invalid"
      /\ EntryPoint(r) = "gate" => r # Confirmation
  BY BoardRequestsClosed
<1>2. BoardsTypeOK'
  BY <1>1 DEF BoardsShape, BoardsTypeOK, Arrive, Load, gateVars
<1>3. BoardsServed'
  BY <1>1 DEF BoardsShape, BoardsTypeOK, BoardsServed, Arrive, Load
<1> QED  BY <1>2, <1>3 DEF BoardsShape

LEMMA BoardLifeShape ==
  ASSUME BoardsShape, NEW t \in Tabs, UNCHANGED <<gateVars, requests>>,
         Respond(t) \/ Deliver(t) \/ GiveUp(t) \/ Leave(t, BoardRoutes)
  PROVE  BoardsShape'
<1>1. CASE Respond(t)
  <2>1. BoardsTypeOK'
    BY <1>1 DEF BoardsShape, BoardsTypeOK, Respond, Commit, gateVars
  <2>2. BoardsServed'
    BY <1>1 DEF BoardsShape, BoardsTypeOK, BoardsServed, Respond
  <2> QED  BY <2>1, <2>2 DEF BoardsShape
<1>2. CASE Deliver(t)
  <2>1. BoardsTypeOK'
    BY <1>2, EmptyBoardSession, BoardPagesTyped
    DEF BoardsShape, BoardsTypeOK, Deliver, Commit, Release, gateVars
  <2>2. BoardsServed'
    BY <1>2, BoardPagesTyped DEF BoardsShape, BoardsTypeOK, BoardsServed, Deliver, Release
  <2> QED  BY <2>1, <2>2 DEF BoardsShape
<1>3. CASE GiveUp(t)
  <2>1. aborts' \in 0..MaxAborts
    BY <1>3, MaxAbortsAssumption DEF BoardsShape, BoardsTypeOK, GiveUp
  <2>2. ses' \in [Tabs -> BoardSessions] /\ page' \in [Tabs -> BoardPages]
    BY <1>3, EmptyBoardSession, BoardPagesTyped DEF BoardsShape, BoardsTypeOK, GiveUp, Release
  <2>3. BoardsTypeOK'
    BY <1>3, <2>1, <2>2 DEF BoardsShape, BoardsTypeOK, GiveUp, Release, gateVars
  <2>4. BoardsServed'
    BY <1>3, BoardPagesTyped DEF BoardsShape, BoardsTypeOK, BoardsServed, GiveUp, Release
  <2> QED  BY <2>3, <2>4 DEF BoardsShape
<1>4. CASE Leave(t, BoardRoutes)
  <2>1. goto[t] \in {Nowhere, LinkingPage}
    BY <1>4, BoardRequestsClosed DEF BoardsShape, BoardsTypeOK, Leave, BoardRoutes
  <2>2. BoardsTypeOK'
    BY <1>4, <2>1 DEF BoardsShape, BoardsTypeOK, Leave, gateVars
  <2>3. BoardsServed'
    BY <1>4 DEF BoardsShape, BoardsTypeOK, BoardsServed, Leave
  <2> QED  BY <2>2, <2>3 DEF BoardsShape
<1> QED  BY <1>1, <1>2, <1>3, <1>4

-----------------------------------------------------------------------------
(* So do the gate and the handlers. *)

\* What a handler returns, whatever it has done to the session.
LEMMA BoardDoneServed ==
  ASSUME BoardsShape, NEW t \in Tabs, pc[t] \notin {"rest", "done", "sent", "redirected"},
         UNCHANGED req,
         \/ \E r : Redirect(t, r)
         \/ \E p : /\ Render(t, p)
                   /\ p.message # "none" => req[t].route = "submitBoard" /\ req[t].arg \in Boards
                   /\ p.request # "none" => req[t] = Confirmation
  PROVE  BoardsServed'
<1>1. /\ page[t].message = "none" /\ page[t].request = "none" /\ goto[t] = Nowhere
      /\ req[t] \in BoardRequestsMade
  BY DEF BoardsShape, BoardsServed
<1>2. CASE \E r : Redirect(t, r)
  BY <1>1, <1>2 DEF BoardsShape, BoardsTypeOK, BoardsServed, Redirect, Await
<1>3. CASE \E p : /\ Render(t, p)
                  /\ p.message # "none" => req[t].route = "submitBoard" /\ req[t].arg \in Boards
                  /\ p.request # "none" => req[t] = Confirmation
  BY <1>1, <1>3 DEF BoardsShape, BoardsTypeOK, BoardsServed, Render, Await
<1> QED  BY <1>2, <1>3

LEMMA BoardGateShape ==
  ASSUME BoardsShape, NEW t \in Tabs, Gate(t), UNCHANGED requests
  PROVE  BoardsShape'
<1>1. upsets' \in 0..MaxUpsets
  BY BoardStatusSound, MaxUpsetsAssumption
  DEF Gate, GatePasses, GateRefuses, Tally, Answers, BoardsShape, BoardsTypeOK
<1>2. CASE GatePasses(t)
  <2>1. BoardsTypeOK'
    BY <1>1, <1>2 DEF BoardsShape, BoardsTypeOK, GatePasses, Await, NoTouch, HandlerFrame
  <2>2. BoardsServed'
    BY <1>2 DEF BoardsShape, BoardsTypeOK, BoardsServed, GatePasses, Await, HandlerFrame
  <2> QED  BY <2>1, <2>2 DEF BoardsShape
<1>3. CASE GateRefuses(t)
  <2>1. req[t] \in BoardRequestsMade /\ req[t] # Confirmation /\ ses[t] \in BoardSessions
    BY <1>3 DEF BoardsShape, BoardsTypeOK, BoardsServed, GateRefuses
  <2>2. StashReturn(ses[t], req[t]) \in BoardSessions
    BY <1>3, <2>1, BoardSessionsClosed
  <2>3. BoardsTypeOK'
    BY <1>1, <1>3, <2>2
    DEF BoardsShape, BoardsTypeOK, GateRefuses, Touch, Redirect, Await, HandlerFrame
  <2>4. BoardsServed'
    BY <1>3 DEF BoardsShape, BoardsTypeOK, BoardsServed, GateRefuses, Redirect, Await, HandlerFrame
  <2> QED  BY <2>3, <2>4 DEF BoardsShape
<1> QED  BY <1>2, <1>3 DEF Gate

\* A handler that returns without the session.
LEMMA BoardRenderShape ==
  ASSUME BoardsShape, NEW t \in Tabs, pc[t] \in {"failAction", "handler"}, NoTouch, HandlerFrame,
         UNCHANGED <<gateVars, requests>>, Render(t, BlankPage)
  PROVE  BoardsShape'
<1>1. BoardsTypeOK'
  BY BoardPagesTyped
  DEF BoardsShape, BoardsTypeOK, Render, Await, NoTouch, HandlerFrame, gateVars
<1>2. BoardsServed'
  BY BoardPagesTyped DEF BoardsShape, BoardsTypeOK, BoardsServed, Render, Await, HandlerFrame
<1> QED  BY <1>1, <1>2 DEF BoardsShape

LEMMA BoardAskShape ==
  ASSUME BoardsShape, NEW t \in Tabs, AskBoard(t)
  PROVE  BoardsShape'
<1>1. BoardsTypeOK'
  BY DEF BoardsShape, BoardsTypeOK, AskBoard, Await, NoTouch, HandlerFrame, gateVars
<1>2. BoardsServed'
  BY DEF BoardsShape, BoardsTypeOK, BoardsServed, AskBoard, Await, HandlerFrame
<1> QED  BY <1>1, <1>2 DEF BoardsShape

\* The answer to a submission: what becomes of the store, the session and the
\* response.
LEMMA SubmissionEnds ==
  ASSUME BoardsShape, NEW t \in Tabs, SubmitAnswered(t)
  PROVE  /\ req[t].arg \in Boards /\ req[t].route = "submitBoard"
         /\ pc' = [pc EXCEPT ![t] = "done"]
         /\ upsets' \in 0..MaxUpsets
         /\ \/ requests' = requests
            \/ requests[req[t].arg] \notin Requested /\ requests' = [requests EXCEPT ![req[t].arg] = "mine"]
         /\ \/ /\ requests'[req[t].arg] = "mine"
               /\ Touch(t, SetBoardRequest(ses[t], req[t].arg))
               /\ Redirect(t, Confirmation)
            \/ /\ requests'[req[t].arg] \in Requested
               /\ NoTouch /\ Render(t, [BlankPage EXCEPT !.message = "conflict"])
            \/ NoTouch /\ Render(t, BlankPage)
<1>1. PICK reply \in SubmitFailures \cup {Reply(201, Null), Reply(409, Null)}, new \in BOOLEAN :
        /\ SubmitReply(reply, req[t].arg, new)
        /\ Record(req[t].arg, new)
        /\ Tally(reply, SubmitFailures)
        /\ FinishSubmit(t, SubmitBoardRequest(reply))
  BY DEF SubmitAnswered
<1>2. req[t].arg \in Boards /\ req[t].route = "submitBoard"
  BY BoardRequestsClosed DEF SubmitAnswered, BoardsShape, BoardsServed
<1>3. upsets' \in 0..MaxUpsets
  BY <1>1, SubmitAnswers, MaxUpsetsAssumption DEF SubmitReply, Tally, BoardsShape, BoardsTypeOK
<1>4. pc' = [pc EXCEPT ![t] = "done"]
  BY <1>1 DEF FinishSubmit, Render, Redirect, Await
<1>5. \/ requests' = requests
      \/ requests[req[t].arg] \notin Requested /\ requests' = [requests EXCEPT ![req[t].arg] = "mine"]
  BY <1>1, SubmitAnswers DEF SubmitReply, Record
<1>6. requests \in [Boards -> RequestStates]
  BY DEF BoardsShape, BoardsTypeOK
<1>7. CASE reply = Reply(201, Null)
  <2>1. requests'[req[t].arg] = "mine"
    BY <1>1, <1>2, <1>6, <1>7, SubmitAnswers DEF SubmitReply, Record
  <2> QED  BY <1>1, <1>2, <1>3, <1>4, <1>5, <1>7, <2>1, SubmitAnswers DEF FinishSubmit
<1>8. CASE reply = Reply(409, Null)
  <2>1. requests'[req[t].arg] \in Requested
    BY <1>1, <1>2, <1>6, <1>8, SubmitAnswers DEF SubmitReply, Record
  <2> QED  BY <1>1, <1>2, <1>3, <1>4, <1>5, <1>8, <2>1, SubmitAnswers DEF FinishSubmit
<1>9. CASE reply \in SubmitFailures
  BY <1>1, <1>2, <1>3, <1>4, <1>5, <1>9, SubmitAnswers DEF FinishSubmit
<1> QED  BY <1>7, <1>8, <1>9

LEMMA BoardSubmitShape ==
  ASSUME BoardsShape, NEW t \in Tabs, SubmitAnswered(t)
  PROVE  BoardsShape'
<1>1. HandlerFrame /\ UNCHANGED link /\ pc[t] = "submit"
  BY DEF SubmitAnswered
<1>2. /\ req[t].arg \in Boards /\ req[t].route = "submitBoard"
      /\ pc' = [pc EXCEPT ![t] = "done"] /\ upsets' \in 0..MaxUpsets
      /\ requests' = requests \/ requests' = [requests EXCEPT ![req[t].arg] = "mine"]
  BY SubmissionEnds
<1>3. \/ Touch(t, SetBoardRequest(ses[t], req[t].arg)) /\ Redirect(t, Confirmation)
      \/ NoTouch /\ Render(t, [BlankPage EXCEPT !.message = "conflict"])
      \/ NoTouch /\ Render(t, BlankPage)
  BY SubmissionEnds
<1>4. requests' \in [Boards -> RequestStates]
  BY <1>2 DEF BoardsShape, BoardsTypeOK, RequestStates, Requested
<1>5. SetBoardRequest(ses[t], req[t].arg) \in BoardSessions
  BY <1>2, BoardSessionsClosed DEF BoardsShape, BoardsTypeOK
<1>6. ses' \in [Tabs -> BoardSessions] /\ dirty' \in [Tabs -> BOOLEAN]
  BY <1>3, <1>5 DEF BoardsShape, BoardsTypeOK, Touch, NoTouch
<1>7. /\ page' \in [Tabs -> BoardPages]
      /\ goto' \in [Tabs -> {Nowhere, LinkingPage, Confirmation, Page("newBoard")}]
  BY <1>3, BoardPagesTyped DEF BoardsShape, BoardsTypeOK, Render, Redirect
<1>8. BoardsTypeOK'
  BY <1>1, <1>2, <1>4, <1>6, <1>7 DEF BoardsShape, BoardsTypeOK, HandlerFrame
<1>9. BoardsServed'
  BY <1>1, <1>2, <1>3, BoardPagesTyped, BoardDoneServed DEF HandlerFrame
<1> QED  BY <1>8, <1>9 DEF BoardsShape

LEMMA BoardConfirmationShape ==
  ASSUME BoardsShape, NEW t \in Tabs, ServeConfirmation(t)
  PROVE  BoardsShape'
<1>1. /\ HandlerFrame /\ UNCHANGED <<gateVars, requests>>
      /\ pc[t] = "handler" /\ req[t] = Confirmation
      /\ Touch(t, TakeBoardRequest(ses[t]))
  BY DEF ServeConfirmation
<1>2. \/ Redirect(t, Page("newBoard"))
      \/ ses[t].boardRequest \in Boards /\ Render(t, [BlankPage EXCEPT !.request = ses[t].boardRequest])
  BY BoardSessionsClosed DEF ServeConfirmation, ShowConfirmation, BoardsShape, BoardsTypeOK
<1>3. TakeBoardRequest(ses[t]) \in BoardSessions
  BY BoardSessionsClosed DEF BoardsShape, BoardsTypeOK
<1>4. BoardsTypeOK'
  BY <1>1, <1>2, <1>3, BoardPagesTyped
  DEF BoardsShape, BoardsTypeOK, Touch, Render, Redirect, Await, HandlerFrame, gateVars
<1>5. BoardsServed'
  BY <1>1, <1>2, BoardPagesTyped, BoardDoneServed DEF HandlerFrame
<1> QED  BY <1>4, <1>5 DEF BoardsShape

LEMMA BoardHandlerShape ==
  ASSUME BoardsShape, NEW t \in Tabs, BoardHandler(t)
  PROVE  BoardsShape'
<1>1. CASE RejectForm(t) \/ (ServeForm(t) /\ UNCHANGED requests)
  BY <1>1, BoardRenderShape DEF RejectForm, ServeForm
<1> QED  BY <1>1, BoardGateShape, BoardAskShape, BoardSubmitShape, BoardConfirmationShape
         DEF BoardHandler

LEMMA FollowArrives ==
  ASSUME BoardsShape, NEW t \in Tabs, Follow(t, BoardRoutes)
  PROVE  goto[t] \in BoardRequestsMade /\ pc[t] = "redirected" /\ Arrive(t, goto[t])
  BY BoardRequestsClosed DEF Follow, BoardsShape, BoardsTypeOK

LEMMA BoardsShapeKept ==
  ASSUME BoardsShape, [BoardsNext]_boardVars
  PROVE  BoardsShape'
<1>1. CASE UNCHANGED boardVars
  BY <1>1 DEF boardVars, requestVars, gateVars, BoardsShape, BoardsTypeOK, BoardsServed
<1>2. ASSUME NEW t \in Tabs, BoardUser(t)  PROVE BoardsShape'
  BY <1>2, BoardArriveShape, BoardLifeShape DEF BoardUser, Begin
<1>3. ASSUME NEW t \in Tabs, BoardPortal(t)  PROVE BoardsShape'
  BY <1>3, BoardHandlerShape, BoardLifeShape, BoardArriveShape, FollowArrives DEF BoardPortal
<1>4. ASSUME NEW b \in Boards, StoreChanges(b)  PROVE BoardsShape'
  <2>1. upsets' \in 0..MaxUpsets
    BY <1>4, MaxUpsetsAssumption DEF StoreChanges, BoardsShape, BoardsTypeOK
  <2>2. requests' \in [Boards -> RequestStates]
    BY <1>4 DEF StoreChanges, BoardsShape, BoardsTypeOK, RequestStates, Requested
  <2> QED  BY <1>4, <2>1, <2>2 DEF StoreChanges, requestVars, BoardsShape, BoardsTypeOK, BoardsServed
<1>5. ASSUME NEW l \in Links, LinkChanges(l), UNCHANGED requests  PROVE BoardsShape'
  <2>1. upsets' \in 0..MaxUpsets
    BY <1>5, MaxUpsetsAssumption DEF LinkChanges, BoardsShape, BoardsTypeOK
  <2> QED  BY <1>5, <2>1 DEF LinkChanges, requestVars, BoardsShape, BoardsTypeOK, BoardsServed
<1> QED  BY <1>1, <1>2, <1>3, <1>4, <1>5 DEF BoardsNext

LEMMA BoardsShapeInvariant == BoardsSpec => []BoardsShape
<1>1. BoardsInit => BoardsShape
  <2> SUFFICES ASSUME BoardsInit  PROVE BoardsShape
    OBVIOUS
  <2>1. aborts \in 0..MaxAborts /\ upsets \in 0..MaxUpsets
    BY MaxAbortsAssumption, MaxUpsetsAssumption DEF BoardsInit, GateInit, RequestInit
  <2>2. BoardsTypeOK
    BY <2>1, BoardPagesTyped, EmptyBoardSession DEF BoardsInit, GateInit, RequestInit, BoardsTypeOK
  <2>3. BoardsServed
    BY BoardPagesTyped DEF BoardsInit, GateInit, RequestInit, BoardsServed
  <2> QED  BY <2>2, <2>3 DEF BoardsShape
<1>2. BoardsShape /\ [BoardsNext]_boardVars => BoardsShape'
  BY BoardsShapeKept
<1> QED  BY <1>1, <1>2, PTL DEF BoardsSpec

\* The board pages keep their type: every session a tab loads, changes and
\* commits is a session of the portal, every redirect leads to a page of it.
THEOREM BoardsTypeCorrect == BoardsSpec => []BoardsTypeOK
<1>1. BoardsShape => BoardsTypeOK
  BY DEF BoardsShape
<1> QED  BY <1>1, BoardsShapeInvariant, PTL

-----------------------------------------------------------------------------
(* What a step does to the key of the session and to what a page says, and  *)
(* that mural-mcp never forgets a request.                                  *)

BoardTabMoves(u) ==
  /\ \/ ses'[u].boardRequest \in {ses[u].boardRequest, stored.boardRequest, "none"}
     \/ /\ Accepts(u) /\ req[u].arg \in Boards /\ requests'[req[u].arg] = "mine"
        /\ ses'[u].boardRequest = req[u].arg
  /\ page'[u].request \in {page[u].request, ses[u].boardRequest, "none"}
  /\ \/ page'[u].message = "none"
     \/ page'[u].message = page[u].message /\ req'[u] = req[u]
     \/ requests'[req'[u].arg] \in Requested

BoardMoves ==
  /\ stored' = stored \/ \E v \in Tabs : stored' = ses[v]
  /\ \A u \in Tabs : BoardTabMoves(u)

LEMMA BoardTabIdles ==
  ASSUME NEW u \in Tabs, ses'[u] = ses[u], page'[u] = page[u], req'[u] = req[u]
  PROVE  BoardTabMoves(u)
  BY DEF BoardTabMoves

LEMMA BoardLifeMoves ==
  ASSUME BoardsShape, NEW t \in Tabs,
         \/ pc[t] \in {"rest", "redirected"} /\ \E r : Arrive(t, r)
         \/ Respond(t) \/ Deliver(t) \/ GiveUp(t) \/ Leave(t, BoardRoutes)
  PROVE  BoardMoves
<1>1. \/ ses' = ses \/ ses' = [ses EXCEPT ![t] = stored] \/ ses' = [ses EXCEPT ![t] = EmptySession]
  BY DEF Arrive, Load, Respond, Deliver, GiveUp, Leave, Release
<1>2. \/ page' = page /\ (req' = req \/ page[t].message = "none")
      \/ page' = [page EXCEPT ![t] = BlankPage]
  BY DEF Arrive, Load, Respond, Deliver, GiveUp, Leave, Release, BoardsShape, BoardsServed
<1>3. stored' = stored \/ stored' = ses[t]
  BY DEF Arrive, Load, Respond, Deliver, GiveUp, Leave, Commit
<1>4. req' = req \/ \E r : req' = [req EXCEPT ![t] = r]
  BY DEF Arrive, Load, Respond, Deliver, GiveUp, Leave
<1>5. /\ ses \in [Tabs -> BoardSessions] /\ page \in [Tabs -> BoardPages]
      /\ req \in [Tabs -> BoardRequestsMade \cup {Nowhere, LinkingPage}]
  BY DEF BoardsShape, BoardsTypeOK
<1>6. BoardTabMoves(t)
  BY <1>1, <1>2, <1>5, EmptyBoardSession, BoardPagesTyped DEF BoardTabMoves
<1>7. ASSUME NEW u \in Tabs, u # t  PROVE BoardTabMoves(u)
  BY <1>1, <1>2, <1>4, <1>5, <1>7, BoardTabIdles
<1> QED  BY <1>3, <1>6, <1>7 DEF BoardMoves

LEMMA BoardHandlerMoves ==
  ASSUME BoardsShape, NEW t \in Tabs, BoardHandler(t)
  PROVE  BoardMoves
<1>1. stored' = stored /\ req' = req
  BY DEF BoardHandler, RejectForm, AskBoard, SubmitAnswered, ServeConfirmation, ServeForm, Gate,
         GatePasses, GateRefuses, HandlerFrame
<1>2. ses \in [Tabs -> BoardSessions] /\ page \in [Tabs -> BoardPages]
  BY DEF BoardsShape, BoardsTypeOK
<1>3. SUFFICES BoardTabMoves(t) /\ (\E s : ses' = [ses EXCEPT ![t] = s])
                                /\ (\E p : page' = [page EXCEPT ![t] = p])
  BY <1>1, <1>2, BoardTabIdles DEF BoardMoves
<1>4. ses = [ses EXCEPT ![t] = ses[t]] /\ page = [page EXCEPT ![t] = page[t]]
  BY <1>2
<1>5. CASE RejectForm(t) \/ ServeForm(t) \/ AskBoard(t)
  <2>1. ses' = ses /\ (page' = page \/ page' = [page EXCEPT ![t] = BlankPage])
    BY <1>5 DEF RejectForm, ServeForm, AskBoard, Render, NoTouch
  <2> QED  BY <1>1, <1>2, <1>4, <2>1, BoardPagesTyped DEF BoardTabMoves
<1>6. CASE Gate(t)
  <2>1. page' = page /\ ses' \in {ses, [ses EXCEPT ![t] = StashReturn(ses[t], req[t])]}
    BY <1>6 DEF Gate, GatePasses, GateRefuses, Touch, NoTouch, Redirect
  <2> QED  BY <1>1, <1>2, <1>4, <2>1, BoardSessionsClosed DEF BoardTabMoves
<1>7. CASE SubmitAnswered(t)
  <2>1. req[t].arg \in Boards
    BY <1>7, SubmissionEnds
  <2>2. \/ /\ requests'[req[t].arg] = "mine" /\ Accepts(t)
           /\ ses' = [ses EXCEPT ![t] = SetBoardRequest(ses[t], req[t].arg)]
           /\ page' = page
        \/ /\ requests'[req[t].arg] \in Requested /\ ses' = ses
           /\ page' = [page EXCEPT ![t] = [BlankPage EXCEPT !.message = "conflict"]]
        \/ ses' = ses /\ page' = [page EXCEPT ![t] = BlankPage]
    BY <1>7, SubmissionEnds
    DEF Touch, NoTouch, Render, Redirect, SubmitAnswered, Accepts, BoardsShape, BoardsTypeOK
  <2>3. SetBoardRequest(ses[t], req[t].arg).boardRequest = req[t].arg
    BY <1>2, <2>1, BoardSessionsClosed
  <2> QED  BY <1>1, <1>2, <1>4, <2>1, <2>2, <2>3, BoardPagesTyped DEF BoardTabMoves
<1>8. CASE ServeConfirmation(t)
  <2>1. /\ ses' = [ses EXCEPT ![t] = TakeBoardRequest(ses[t])]
        /\ \/ page' = page
           \/ /\ ses[t].boardRequest # "none"
              /\ page' = [page EXCEPT ![t] = [BlankPage EXCEPT !.request = ses[t].boardRequest]]
    BY <1>8 DEF ServeConfirmation, ShowConfirmation, Touch, Render, Redirect
  <2>2. ses[t].boardRequest \in Boards \cup {"none"} /\ TakeBoardRequest(ses[t]).boardRequest = "none"
    BY <1>2, BoardSessionsClosed
  <2> QED  BY <1>1, <1>2, <1>4, <2>1, <2>2, BoardPagesTyped DEF BoardTabMoves
<1> QED  BY <1>5, <1>6, <1>7, <1>8 DEF BoardHandler

LEMMA EveryBoardStepMoves ==
  ASSUME BoardsShape, [BoardsNext]_boardVars
  PROVE  BoardMoves
<1>1. ASSUME UNCHANGED requestVars  PROVE BoardMoves
  BY <1>1, BoardTabIdles DEF requestVars, BoardMoves
<1>2. ASSUME NEW t \in Tabs, BoardUser(t) \/ BoardPortal(t)  PROVE BoardMoves
  BY <1>2, BoardLifeMoves, BoardHandlerMoves, FollowArrives DEF BoardUser, BoardPortal, Begin
<1> QED  BY <1>1, <1>2 DEF BoardsNext, boardVars, StoreChanges, LinkChanges

LEMMA RequestsStay ==
  ASSUME BoardsShape, [BoardsNext]_boardVars, NEW b \in Boards, requests[b] # "none"
  PROVE  requests'[b] # "none"
<1>1. requests \in [Boards -> RequestStates]
  BY DEF BoardsShape, BoardsTypeOK
<1>2. ASSUME NEW t \in Tabs, BoardUser(t) \/ BoardPortal(t)  PROVE requests'[b] # "none"
  <2>1. CASE SubmitAnswered(t)
    <3>1. requests' = requests \/ requests' = [requests EXCEPT ![req[t].arg] = "mine"]
      BY <2>1, SubmissionEnds
    <3> QED  BY <1>1, <3>1
  <2> QED  BY <1>2, <2>1
      DEF BoardUser, BoardPortal, BoardHandler, RejectForm, AskBoard, ServeConfirmation
<1>3. ASSUME NEW k \in Boards, StoreChanges(k)  PROVE requests'[b] # "none"
  BY <1>1, <1>3 DEF StoreChanges
<1> QED  BY <1>2, <1>3 DEF BoardsNext, boardVars, LinkChanges

\* A user is told that there is a request for the board already only when there
\* has been one, whatever becomes of it while the page is on its way.
THEOREM ConflictsAreReal == BoardsSpec => []ConflictIsReal
<1>1. BoardsInit => ConflictIsReal
  <2>1. BoardsInit => \A t \in Tabs : page[t] = BlankPage
    BY DEF BoardsInit, GateInit, RequestInit
  <2> QED  BY <2>1, BoardPagesTyped DEF ConflictIsReal
<1>2. BoardsShape /\ BoardsShape' /\ ConflictIsReal /\ [BoardsNext]_boardVars => ConflictIsReal'
  <2> SUFFICES ASSUME BoardsShape, BoardsShape', ConflictIsReal, [BoardsNext]_boardVars,
                      NEW u \in Tabs, page'[u].message = "conflict"
               PROVE  requests'[req'[u].arg] # "none"
    BY DEF ConflictIsReal
  <2>1. BoardTabMoves(u)
    BY EveryBoardStepMoves DEF BoardMoves
  <2>2. CASE page[u].message = "conflict" /\ req'[u] = req[u]
    <3>1. req[u].arg \in Boards /\ requests[req[u].arg] # "none"
      BY <2>2 DEF ConflictIsReal, BoardsShape, BoardsServed
    <3> QED  BY <2>2, <3>1, RequestsStay
  <2> QED  BY <2>1, <2>2 DEF BoardTabMoves, Requested
<1> QED  BY <1>1, <1>2, BoardsShapeInvariant, PTL DEF BoardsSpec

-----------------------------------------------------------------------------
(* The observer adds nothing to BoardRequests, so that its theorems hold of *)
(* the journey.                                                             *)

LEMMA JourneyIsBoards == BoardJourneySpec => BoardsSpec
<1>1. BoardJourneyInit => BoardsInit
  BY DEF BoardJourneyInit
<1>2. [BoardJourneyNext]_boardJourneyVars => [BoardsNext]_boardVars
  BY DEF BoardJourneyNext, boardJourneyVars
<1> QED  BY <1>1, <1>2, PTL DEF BoardJourneySpec, BoardsSpec

\* Every copy of the session, too, holds only a request that was recorded.
RecordedOnly ==
  /\ ConfirmationTruthful
  /\ \A t \in Tabs : ses[t].boardRequest \in recorded \cup {"none"}

\* Whatever was lost and whichever tab overwrote the session, the confirmation
\* is only ever shown of a request mural-mcp has recorded for the user.
THEOREM ConfirmationsAreTruthful == BoardJourneySpec => []ConfirmationTruthful
<1>1. BoardJourneyInit => RecordedOnly
  <2>1. BoardJourneyInit => stored = EmptySession /\ \A t \in Tabs : ses[t] = EmptySession /\ page[t] = BlankPage
    BY DEF BoardJourneyInit, BoardsInit, GateInit, RequestInit
  <2> QED  BY <2>1, EmptyBoardSession, BoardPagesTyped DEF RecordedOnly, ConfirmationTruthful
<1>2. BoardsShape /\ RecordedOnly /\ [BoardJourneyNext]_boardJourneyVars => RecordedOnly'
  <2> SUFFICES ASSUME BoardsShape, RecordedOnly, [BoardJourneyNext]_boardJourneyVars  PROVE RecordedOnly'
    OBVIOUS
  <2>1. BoardMoves
    BY EveryBoardStepMoves DEF BoardJourneyNext, boardJourneyVars
  <2>2. CASE BoardJourneyNext
    <3>1. /\ recorded \subseteq recorded'
          /\ \A b \in Boards : requests'[b] = "mine" => b \in recorded'
      BY <2>2 DEF BoardJourneyNext, ObserveBoards
    <3>2. ASSUME NEW u \in Tabs
          PROVE  ses'[u].boardRequest \in recorded' \cup {"none"} /\ page'[u].request \in recorded' \cup {"none"}
      <4>1. BoardTabMoves(u)
        BY <2>1 DEF BoardMoves
      <4> QED  BY <3>1, <4>1 DEF BoardTabMoves, RecordedOnly, ConfirmationTruthful
    <3>3. stored'.boardRequest \in recorded' \cup {"none"}
      BY <2>1, <3>1 DEF BoardMoves, RecordedOnly, ConfirmationTruthful
    <3> QED  BY <3>2, <3>3 DEF RecordedOnly, ConfirmationTruthful
  <2>3. CASE UNCHANGED boardJourneyVars
    BY <2>3 DEF boardJourneyVars, boardVars, requestVars, RecordedOnly, ConfirmationTruthful
  <2> QED  BY <2>2, <2>3
<1>3. RecordedOnly => ConfirmationTruthful
  BY DEF RecordedOnly
<1> QED  BY <1>1, <1>2, <1>3, JourneyIsBoards, BoardsShapeInvariant, PTL DEF BoardJourneySpec

-----------------------------------------------------------------------------
(* A user who keeps to one tab, of however many there are.                 *)

UnusedAtRest ==
  \A t \in Tabs : t \notin used =>
    pc[t] = "rest" /\ from[t] = "none" /\ ses[t].boardRequest = "none" /\ page[t].request = "none"

LEMMA BoardOthersIdle ==
  ASSUME BoardsShape, NEW t \in Tabs, BoardUser(t) \/ BoardPortal(t), NEW u \in Tabs, u # t
  PROVE  pc'[u] = pc[u] /\ ses'[u] = ses[u] /\ page'[u] = page[u]
<1> USE DEF BoardsShape, BoardsTypeOK
<1>1. CASE BoardUser(t)
  BY <1>1 DEF BoardUser, Begin, Arrive, Load, GiveUp, Release
<1>2. CASE Respond(t) \/ Deliver(t) \/ Follow(t, BoardRoutes) \/ Leave(t, BoardRoutes)
  BY <1>2 DEF Respond, Deliver, Follow, Leave, Arrive, Load, Release
<1>3. CASE RejectForm(t) \/ AskBoard(t) \/ ServeForm(t) \/ Gate(t)
  BY <1>3 DEF RejectForm, AskBoard, ServeForm, Gate, GatePasses, GateRefuses, Render, Redirect, Await,
     Touch, NoTouch
<1>4. CASE SubmitAnswered(t)
  BY <1>4, SubmissionEnds DEF Render, Redirect, Touch, NoTouch
<1>5. CASE ServeConfirmation(t)
  BY <1>5 DEF ServeConfirmation, ShowConfirmation, Render, Redirect, Await, Touch
<1> QED  BY <1>1, <1>2, <1>3, <1>4, <1>5 DEF BoardPortal, BoardHandler

\* The tab that moves is used, and the ones that are not stay at rest.
LEMMA MoversAreUsed ==
  ASSUME BoardsShape, UnusedAtRest, ObserveBoards, NEW t \in Tabs, BoardUser(t) \/ BoardPortal(t)
  PROVE  /\ used \subseteq used' /\ t \in used' /\ UnusedAtRest'
         /\ KeepsToOneTab' => /\ KeepsToOneTab
                              /\ \A u \in Tabs : u # t => u \notin used /\ u \notin used'
<1>1. used' = used \cup { u \in Tabs : pc'[u] # "rest" }
  BY DEF ObserveBoards
<1>2. pc[t] = "rest" => pc'[t] # "rest"
  BY BoardRequestsClosed
  DEF BoardsShape, BoardsTypeOK, BoardUser, BoardPortal, Begin, Arrive, Load, GiveUp, Respond, Deliver,
      Follow, Leave, BoardHandler, RejectForm, AskBoard, SubmitAnswered, ServeConfirmation, ServeForm,
      Gate, GatePasses, GateRefuses
<1>3. t \in used'
  BY <1>1, <1>2 DEF UnusedAtRest
<1>4. ASSUME NEW u \in Tabs, u \notin used'
      PROVE  pc'[u] = "rest" /\ from'[u] = "none" /\ ses'[u].boardRequest = "none"
             /\ page'[u].request = "none"
  <2>1. u # t /\ u \notin used /\ pc'[u] = "rest"
    BY <1>1, <1>3, <1>4
  <2>2. pc[u] = "rest" /\ ses'[u] = ses[u] /\ page'[u] = page[u]
    BY <2>1, BoardOthersIdle DEF UnusedAtRest
  <2>3. from'[u] = "none"
    BY <2>1, <2>2 DEF ObserveBoards, Accepts
  <2> QED  BY <2>1, <2>2, <2>3 DEF UnusedAtRest
<1> QED  BY <1>1, <1>3, <1>4 DEF UnusedAtRest, KeepsToOneTab

LEMMA UnusedAtRestInvariant == BoardJourneySpec => []UnusedAtRest
<1>1. BoardJourneyInit => UnusedAtRest
  BY EmptyBoardSession, BoardPagesTyped
  DEF BoardJourneyInit, BoardsInit, GateInit, RequestInit, UnusedAtRest
<1>2. BoardsShape /\ UnusedAtRest /\ [BoardJourneyNext]_boardJourneyVars => UnusedAtRest'
  <2> SUFFICES ASSUME BoardsShape, UnusedAtRest, [BoardJourneyNext]_boardJourneyVars
               PROVE  UnusedAtRest'
    OBVIOUS
  <2>1. CASE UNCHANGED boardJourneyVars
    BY <2>1 DEF boardJourneyVars, boardVars, requestVars, UnusedAtRest
  <2>2. ASSUME ObserveBoards, UNCHANGED requestVars  PROVE UnusedAtRest'
    BY <2>2 DEF requestVars, ObserveBoards, Accepts, UnusedAtRest
  <2> QED  BY <2>1, <2>2, MoversAreUsed
      DEF BoardJourneyNext, BoardsNext, StoreChanges, LinkChanges
<1> QED  BY <1>1, <1>2, JourneyIsBoards, BoardsShapeInvariant, PTL DEF BoardJourneySpec

\* Where the confirmation of a submission is, from the redirect it was answered
\* with to the page.
OnItsWay(t, b) ==
  \/ /\ pc[t] = "done" /\ goto[t] = Confirmation /\ dirty[t] /\ ses[t].boardRequest = b
     /\ req[t] # Confirmation
  \/ /\ pc[t] = "sent" /\ goto[t] = Confirmation /\ dirty[t] /\ ses[t].boardRequest = b
     /\ storage = "server" => stored = ses[t]
  \/ pc[t] = "redirected" /\ goto[t] = Confirmation /\ stored.boardRequest = b
  \/ pc[t] = "handler" /\ req[t] = Confirmation /\ ses[t].boardRequest = b
  \/ pc[t] \in {"done", "sent"} /\ goto[t] = Nowhere /\ req[t] = Confirmation /\ page[t].request = b

Followed == \A t \in Tabs : from[t] # "none" => from[t] \in Boards /\ OnItsWay(t, from[t])

\* What waits to be confirmed is due, and a page that confirms it has taken it
\* out of the session.
DueOnly ==
  /\ stored.boardRequest \in due \cup {"none"}
  /\ \A t \in Tabs : /\ ses[t].boardRequest \in due \cup {"none"}
                     /\ page[t].request \in due \cup {"none"}
                     /\ page[t].request # "none" =>
                          /\ ses[t].boardRequest = "none" /\ dirty[t]
                          /\ pc[t] = "sent" /\ storage = "server" => stored = ses[t]

\* Only the answer of mural-mcp to a submission makes from anything but less.
LEMMA OnlyAnswersAccept ==
  ASSUME BoardsShape, NEW t \in Tabs, Accepts(t), BoardUser(t) \/ BoardPortal(t)
  PROVE  SubmitAnswered(t)
<1>1. pc[t] = "submit" /\ goto'[t] = Confirmation /\ goto[t] = Nowhere
  BY DEF Accepts, BoardsShape, BoardsServed
<1>2. Confirmation # Nowhere /\ goto \in [Tabs -> {Nowhere, LinkingPage, Confirmation, Page("newBoard")}]
  BY BoardRequestsClosed DEF BoardsShape, BoardsTypeOK
<1> QED  BY <1>1, <1>2
    DEF BoardUser, BoardPortal, Begin, GiveUp, Respond, Deliver, Follow, Leave, BoardHandler, RejectForm,
        AskBoard, ServeConfirmation, ServeForm, Gate, GatePasses, GateRefuses

\* A submission that is on its way to its confirmation.
LEMMA WayKept ==
  ASSUME BoardsShape, NEW t \in Tabs, NEW b \in Boards, OnItsWay(t, b), pc'[t] # "rest",
         BoardUser(t) \/ BoardPortal(t)
  PROVE  OnItsWay(t, b)'
<1>1. /\ pc[t] \in {"done", "sent", "redirected", "handler"}
      /\ pc[t] = "handler" => req[t] = Confirmation /\ ses[t].boardRequest = b /\ goto[t] = Nowhere
  BY DEF OnItsWay, BoardsShape, BoardsServed
<1>2. /\ pc \in [Tabs -> { "rest", "failAction", "gate", "handler", "submit", "done", "sent", "redirected" }]
      /\ req \in [Tabs -> BoardRequestsMade \cup {Nowhere, LinkingPage}]
      /\ ses \in [Tabs -> BoardSessions] /\ page \in [Tabs -> BoardPages]
      /\ storage \in {"cookie", "server"}
  BY StoragesAssumption DEF BoardsShape, BoardsTypeOK
<1>3. CASE Respond(t)
  BY <1>2, <1>3 DEF Respond, Commit, OnItsWay
<1>4. CASE Deliver(t)
  BY <1>2, <1>4, BoardRequestsClosed DEF Deliver, Commit, OnItsWay
<1>5. CASE Follow(t, BoardRoutes)
  <2>1. pc[t] = "redirected" /\ goto[t] = Confirmation /\ stored.boardRequest = b
    BY <1>5 DEF Follow, OnItsWay
  <2>2. EntryPoint(Confirmation) = "handler"
    BY BoardRequestsClosed, BoardsAssumption DEF Confirmation, EntryPoint, Page, Get, GatedRoutes
  <2> QED  BY <1>2, <1>5, <2>1, <2>2 DEF Follow, Arrive, Load, OnItsWay
<1>6. CASE ServeConfirmation(t)
  <2>1. pc[t] = "handler" /\ req[t] = Confirmation /\ ses[t].boardRequest = b /\ b # "none"
    BY <1>1, <1>6, BoardsAssumption DEF ServeConfirmation
  <2>2. Render(t, [BlankPage EXCEPT !.request = b]) /\ req' = req
    BY <1>6, <2>1 DEF ServeConfirmation, ShowConfirmation, HandlerFrame
  <2> QED  BY <1>1, <1>2, <2>1, <2>2, BoardPagesTyped DEF Render, Await, OnItsWay
<1>7. CASE RejectForm(t) \/ AskBoard(t) \/ SubmitAnswered(t) \/ ServeForm(t) \/ Gate(t)
  BY <1>1, <1>7, BoardRequestsClosed
  DEF RejectForm, AskBoard, SubmitAnswered, ServeForm, Gate, GatePasses, GateRefuses
<1>8. CASE BoardUser(t) \/ Leave(t, BoardRoutes)
  BY <1>1, <1>2, <1>8 DEF BoardUser, Begin, GiveUp, Leave
<1> QED  BY <1>3, <1>4, <1>5, <1>6, <1>7, <1>8 DEF BoardPortal, BoardHandler

LEMMA AcceptanceSetsOut ==
  ASSUME BoardsShape, NEW t \in Tabs, Accepts(t), SubmitAnswered(t), NEW b, b = req[t].arg
  PROVE  b \in Boards /\ OnItsWay(t, b)'
<1>1. /\ req[t].arg \in Boards /\ pc' = [pc EXCEPT ![t] = "done"]
      /\ req' = req /\ req[t].route = "submitBoard"
  BY SubmissionEnds DEF SubmitAnswered, HandlerFrame
<1>2. \/ Touch(t, SetBoardRequest(ses[t], req[t].arg)) /\ Redirect(t, Confirmation)
      \/ goto' = goto
  BY SubmissionEnds DEF Render
<1>3. goto'[t] = Confirmation /\ goto[t] = Nowhere /\ Confirmation # Nowhere
  BY BoardRequestsClosed DEF Accepts, BoardsShape, BoardsServed
<1>4. SetBoardRequest(ses[t], req[t].arg).boardRequest = req[t].arg
  BY <1>1, BoardSessionsClosed DEF BoardsShape, BoardsTypeOK
<1>5. /\ Touch(t, SetBoardRequest(ses[t], req[t].arg))
      /\ pc \in [Tabs -> { "rest", "failAction", "gate", "handler", "submit", "done", "sent", "redirected" }]
      /\ ses \in [Tabs -> BoardSessions] /\ dirty \in [Tabs -> BOOLEAN]
  BY <1>2, <1>3 DEF BoardsShape, BoardsTypeOK
<1>6. pc'[t] = "done" /\ dirty'[t] /\ ses'[t].boardRequest = req[t].arg
  BY <1>1, <1>4, <1>5 DEF Touch
<1> QED  BY <1>1, <1>3, <1>6, BoardRequestsClosed DEF OnItsWay

\* The confirmation a submission redirects to is the one of that submission,
\* whatever responses were lost before it, as long as one tab alone is used.
THEOREM ConfirmationsFollow == BoardJourneySpec => []ConfirmationFollows
<1>1. BoardJourneyInit => (KeepsToOneTab => Followed)
  BY DEF BoardJourneyInit, Followed
<1>2. /\ BoardsShape /\ UnusedAtRest /\ (KeepsToOneTab => Followed)
      /\ [BoardJourneyNext]_boardJourneyVars
      => (KeepsToOneTab => Followed)'
  <2> SUFFICES ASSUME BoardsShape, UnusedAtRest, KeepsToOneTab => Followed,
                      [BoardJourneyNext]_boardJourneyVars, KeepsToOneTab'
               PROVE  Followed'
    OBVIOUS
  <2>1. CASE UNCHANGED boardJourneyVars
    BY <2>1 DEF boardJourneyVars, boardVars, requestVars, KeepsToOneTab, Followed, OnItsWay
  <2>2. ASSUME ObserveBoards, UNCHANGED requestVars  PROVE Followed'
    <3>1. \A t \in Tabs : ~Accepts(t)
      BY <2>2, BoardRequestsClosed DEF Accepts, requestVars, BoardsShape, BoardsServed
    <3>2. \A t \in Tabs : from'[t] \in {from[t], "none"}
      BY <2>2, <3>1 DEF ObserveBoards
    <3>3. KeepsToOneTab
      BY <2>2 DEF ObserveBoards, KeepsToOneTab
    <3> QED  BY <2>2, <3>2, <3>3 DEF requestVars, Followed, OnItsWay
  <2>3. ASSUME ObserveBoards, NEW t \in Tabs, BoardUser(t) \/ BoardPortal(t)  PROVE Followed'
    <3>1. KeepsToOneTab /\ UnusedAtRest' /\ \A u \in Tabs : u # t => u \notin used'
      BY <2>3, MoversAreUsed
    <3>2. ASSUME NEW u \in Tabs, u # t  PROVE from'[u] = "none"
      BY <3>1, <3>2 DEF UnusedAtRest
    <3>3. from'[t] = IF Accepts(t) THEN req[t].arg ELSE IF pc'[t] = "rest" THEN "none" ELSE from[t]
      BY <2>3 DEF ObserveBoards
    <3>4. ASSUME NEW b, b = from'[t], b # "none"  PROVE b \in Boards /\ OnItsWay(t, b)'
      <4>1. CASE Accepts(t)
        BY <2>3, <3>3, <3>4, <4>1, OnlyAnswersAccept, AcceptanceSetsOut
      <4>2. CASE ~Accepts(t)
        <5>1. b = from[t] /\ pc'[t] # "rest"
          BY <3>3, <3>4, <4>2
        <5>2. b \in Boards /\ OnItsWay(t, b)
          BY <3>1, <3>4, <5>1 DEF Followed
        <5> QED  BY <2>3, <5>1, <5>2, WayKept
      <4> QED  BY <4>1, <4>2
    <3>5. SUFFICES ASSUME NEW u \in Tabs, NEW b, b = from'[u], b # "none"
                   PROVE  b \in Boards /\ OnItsWay(u, b)'
      BY DEF Followed
    <3> QED  BY <3>2, <3>4, <3>5
  <2> QED  BY <2>1, <2>2, <2>3 DEF BoardJourneyNext, BoardsNext, StoreChanges, LinkChanges
<1>3. BoardsShape /\ (KeepsToOneTab => Followed) => ConfirmationFollows
  BY BoardRequestsClosed DEF Followed, OnItsWay, ConfirmationFollows, BoardsShape, BoardsServed
<1> QED  BY <1>1, <1>2, <1>3, UnusedAtRestInvariant, JourneyIsBoards, BoardsShapeInvariant, PTL
         DEF BoardJourneySpec

-----------------------------------------------------------------------------
(* A submission is confirmed once.                                         *)

\* A page that confirms comes from the confirmation handler and is only ever
\* delivered or dropped.
LEMMA ConfirmingPages ==
  ASSUME BoardsShape, NEW t \in Tabs, BoardUser(t) \/ BoardPortal(t), page'[t].request # "none"
  PROVE  \/ /\ ses' = [ses EXCEPT ![t] = TakeBoardRequest(ses[t])]
            /\ dirty'[t] /\ pc'[t] = "done"
         \/ Respond(t)
<1>1. page \in [Tabs -> BoardPages] /\ dirty \in [Tabs -> BOOLEAN]
      /\ pc \in [Tabs -> { "rest", "failAction", "gate", "handler", "submit", "done", "sent", "redirected" }]
  BY DEF BoardsShape, BoardsTypeOK
<1>2. page[t].request # "none" => pc[t] \in {"done", "sent"}
  BY DEF BoardsShape, BoardsServed
<1>3. CASE ServeConfirmation(t)
  BY <1>1, <1>3 DEF ServeConfirmation, ShowConfirmation, Touch, Render, Redirect, Await
<1>4. CASE SubmitAnswered(t)
  <2>1. \/ page' = page
        \/ page' = [page EXCEPT ![t] = [BlankPage EXCEPT !.message = "conflict"]]
        \/ page' = [page EXCEPT ![t] = BlankPage]
    BY <1>4, SubmissionEnds DEF Render, Redirect
  <2>2. pc[t] = "submit"
    BY <1>4 DEF SubmitAnswered
  <2> QED  BY <1>1, <1>2, <2>1, <2>2, BoardPagesTyped
<1>5. CASE RejectForm(t) \/ AskBoard(t) \/ ServeForm(t) \/ Gate(t)
  BY <1>1, <1>2, <1>5, BoardPagesTyped
  DEF RejectForm, AskBoard, ServeForm, Gate, GatePasses, GateRefuses, Render, Redirect
<1>6. CASE BoardUser(t) \/ Deliver(t) \/ Follow(t, BoardRoutes) \/ Leave(t, BoardRoutes)
  BY <1>1, <1>2, <1>6, BoardPagesTyped
  DEF BoardUser, Begin, Arrive, Load, GiveUp, Deliver, Follow, Leave, Release
<1> QED  BY <1>3, <1>4, <1>5, <1>6 DEF BoardPortal, BoardHandler

LEMMA DeliveriesConfirm ==
  ASSUME BoardsShape, NEW t \in Tabs, NEW b \in Boards, Confirms(t, b),
         BoardUser(t) \/ BoardPortal(t)
  PROVE  Deliver(t)
<1>1. pc[t] = "sent" /\ req'[t] = req[t] /\ req[t] = Confirmation /\ pc'[t] = "rest"
  BY BoardsAssumption DEF Confirms, BoardsShape, BoardsServed
<1>2. Confirmation # Nowhere /\ req \in [Tabs -> BoardRequestsMade \cup {Nowhere, LinkingPage}]
      /\ pc \in [Tabs -> { "rest", "failAction", "gate", "handler", "submit", "done", "sent", "redirected" }]
  BY BoardRequestsClosed DEF BoardsShape, BoardsTypeOK
<1> QED  BY <1>1, <1>2
    DEF BoardUser, BoardPortal, Begin, GiveUp, Respond, Follow, Leave, BoardHandler, RejectForm,
        AskBoard, SubmitAnswered, ServeConfirmation, ServeForm, Gate, GatePasses, GateRefuses

LEMMA DueKept ==
  ASSUME BoardsShape, DueOnly, NEW t \in Tabs, BoardUser(t) \/ BoardPortal(t), ObserveBoards,
         BoardMoves, UnusedAtRest, UnusedAtRest',
         \A u \in Tabs : u # t => u \notin used /\ u \notin used'
  PROVE  DueOnly'
<1>1. /\ due' = (due \cup AcceptedNow) \ { b \in Boards : \E u \in Tabs : Confirms(u, b) }
      /\ storage \in {"cookie", "server"} /\ storage' = storage
      /\ ses \in [Tabs -> BoardSessions]
  BY StoragesAssumption
  DEF ObserveBoards, BoardsShape, BoardsTypeOK, BoardUser, BoardPortal, Begin, Arrive, Load, GiveUp,
      Respond, Deliver, Follow, Leave, BoardHandler, RejectForm, AskBoard, SubmitAnswered,
      ServeConfirmation, ServeForm, Gate, GatePasses, GateRefuses, HandlerFrame
<1>2. \A u \in Tabs : u # t => /\ pc[u] = "rest"
                               /\ ses'[u].boardRequest = "none" /\ page'[u].request = "none"
  BY DEF UnusedAtRest
<1>3. CASE Deliver(t) /\ page[t].request # "none"
  <2> DEFINE b == page[t].request
  <2>1. b \in Boards /\ b # "none" /\ goto[t] = Nowhere /\ req[t] = Confirmation /\ pc[t] = "sent"
    BY <1>3, BoardsAssumption
    DEF BoardsShape, BoardsTypeOK, BoardsServed, BoardPages, Deliver
  <2>2. stored'.boardRequest = "none"
    BY <1>1, <1>3, <2>1 DEF DueOnly, Deliver, Commit
  <2>3. ses'[t].boardRequest = "none" /\ page'[t].request = "none"
    BY <1>3, EmptyBoardSession, BoardPagesTyped DEF Deliver, Release, BoardsShape, BoardsTypeOK
  <2> QED  BY <1>2, <2>2, <2>3 DEF DueOnly
<1>4. CASE ~(Deliver(t) /\ page[t].request # "none")
  <2>1. due' = due \cup AcceptedNow
    <3>1. ASSUME NEW b \in Boards, Confirms(t, b)  PROVE FALSE
      BY <1>4, <3>1, DeliveriesConfirm, BoardsAssumption DEF Confirms
    <3>2. ASSUME NEW b \in Boards, NEW u \in Tabs, Confirms(u, b)  PROVE FALSE
      BY <1>2, <3>1, <3>2 DEF Confirms
    <3> QED  BY <1>1, <3>2
  <2>2. Accepts(t) => req[t].arg \in due'
    BY <2>1 DEF AcceptedNow
  <2>3. /\ ses'[t].boardRequest \in due' \cup {"none"}
        /\ page'[t].request \in due' \cup {"none"}
    <3>1. BoardTabMoves(t)
      BY DEF BoardMoves
    <3> QED  BY <2>1, <2>2, <3>1 DEF BoardTabMoves, DueOnly
  <2>4. stored'.boardRequest \in due' \cup {"none"}
    BY <2>1 DEF BoardMoves, DueOnly
  <2>5. ASSUME page'[t].request # "none"
        PROVE  /\ ses'[t].boardRequest = "none" /\ dirty'[t]
               /\ pc'[t] = "sent" /\ storage' = "server" => stored' = ses'[t]
    <3>1. CASE Respond(t)
      BY <1>1, <2>5, <3>1 DEF Respond, Commit, DueOnly
    <3>2. CASE ~Respond(t)
      <4>1. ses' = [ses EXCEPT ![t] = TakeBoardRequest(ses[t])] /\ dirty'[t] /\ pc'[t] = "done"
        BY <2>5, <3>2, ConfirmingPages
      <4>2. TakeBoardRequest(ses[t]).boardRequest = "none"
        BY <1>1, BoardSessionsClosed
      <4> QED  BY <1>1, <4>1, <4>2
    <3> QED  BY <3>1, <3>2
  <2> QED  BY <1>2, <2>3, <2>4, <2>5 DEF DueOnly
<1> QED  BY <1>3, <1>4

\* A submission is confirmed once, as long as one tab alone is used: a page that
\* confirms it is about one that is still due.
THEOREM ConfirmationsAreOnce == BoardJourneySpec => []ConfirmedOnce
<1>1. BoardJourneyInit => (KeepsToOneTab => DueOnly)
  <2>1. BoardJourneyInit => stored = EmptySession /\ \A t \in Tabs : ses[t] = EmptySession /\ page[t] = BlankPage
    BY DEF BoardJourneyInit, BoardsInit, GateInit, RequestInit
  <2> QED  BY <2>1, EmptyBoardSession, BoardPagesTyped DEF DueOnly
<1>2. /\ BoardsShape /\ UnusedAtRest /\ (KeepsToOneTab => DueOnly)
      /\ [BoardJourneyNext]_boardJourneyVars
      => (KeepsToOneTab => DueOnly)'
  <2> SUFFICES ASSUME BoardsShape, UnusedAtRest, KeepsToOneTab => DueOnly,
                      [BoardJourneyNext]_boardJourneyVars, KeepsToOneTab'
               PROVE  DueOnly'
    OBVIOUS
  <2>1. CASE UNCHANGED boardJourneyVars
    BY <2>1 DEF boardJourneyVars, boardVars, requestVars, KeepsToOneTab, DueOnly
  <2>2. ASSUME ObserveBoards, UNCHANGED requestVars  PROVE DueOnly'
    <3>1. \A t \in Tabs : ~Accepts(t) /\ \A b \in Boards : ~Confirms(t, b)
      BY <2>2, BoardRequestsClosed
      DEF Accepts, Confirms, requestVars, BoardsShape, BoardsServed
    <3>2. due' = due
      BY <2>2, <3>1 DEF ObserveBoards, AcceptedNow
    <3>3. KeepsToOneTab
      BY <2>2 DEF ObserveBoards, KeepsToOneTab
    <3> QED  BY <2>2, <3>2, <3>3 DEF requestVars, DueOnly
  <2>3. ASSUME ObserveBoards, NEW t \in Tabs, BoardUser(t) \/ BoardPortal(t)  PROVE DueOnly'
    <3>1. BoardMoves
      BY EveryBoardStepMoves DEF BoardJourneyNext, boardJourneyVars
    <3>2. /\ KeepsToOneTab /\ UnusedAtRest'
          /\ \A u \in Tabs : u # t => u \notin used /\ u \notin used'
      BY <2>3, MoversAreUsed
    <3> QED  BY <2>3, <3>1, <3>2, DueKept
  <2> QED  BY <2>1, <2>2, <2>3 DEF BoardJourneyNext, BoardsNext, StoreChanges, LinkChanges
<1>3. (KeepsToOneTab => DueOnly) => ConfirmedOnce
  BY DEF DueOnly, ConfirmedOnce
<1> QED  BY <1>1, <1>2, <1>3, UnusedAtRestInvariant, JourneyIsBoards, BoardsShapeInvariant, PTL
         DEF BoardJourneySpec

=============================================================================
