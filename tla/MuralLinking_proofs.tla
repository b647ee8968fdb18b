------------------------ MODULE MuralLinking_proofs ------------------------
(***************************************************************************)
(* Proofs about the linking flow, for every set of tabs and every bound.   *)
(***************************************************************************)
EXTENDS MuralLinking, TLAPS

-----------------------------------------------------------------------------
(* The services and the session keys. *)

LEMMA StatusAnswers ==
  ASSUME NEW l \in Links, NEW reply \in Failures \cup {StatusReply(l)}
  PROVE  /\ LinkingStatus(reply) \in {"linked", "notLinked", "statusError"}
         /\ IsMuralLinked(reply) => l # "none"
         /\ reply = StatusReply(l) => reply \notin Failures
  BY DEF Links, Failures, NetworkError, StatusReply, LinkingStatus, IsMuralLinked, Request,
         Readable, ResponseOk, Reply, Null

LEMMA UrlAnswers ==
  ASSUME NEW reply \in Failures \cup {Reply(200, "url")}
  PROVE  /\ AuthorizationUrl(reply) \in {"url", "none"}
         /\ Reply(200, "url") \notin Failures
  BY DEF Failures, NetworkError, AuthorizationUrl, Request, Readable, ResponseOk, Reply, Null

LEMMA TestAnswers ==
  ASSUME NEW reply \in TestFailures \cup {Reply(200, "success"), Reply(401, Null), Reply(200, "unproven")}
  PROVE  /\ VerifyConnection(reply) \in [state : CheckStates, reason : FailureReasons]
         /\ reply \in {Reply(200, "success"), Reply(401, Null), Reply(200, "unproven")}
              => reply \notin TestFailures
  BY DEF TestFailures, Failures, NetworkError, VerifyConnection, TestFailureReason, CheckResult,
         CheckStates, FailureReasons, Request, Readable, ResponseOk, Reply, Null

LEMMA CallbackAnswers ==
  ASSUME NEW reply \in CallbackReplies
  PROVE  /\ CompleteLinking(reply) \in Outcomes
         /\ reply \in {Reply(200, Null), Reply(400, Null)} => reply \notin CallbackFailures
  BY DEF CallbackReplies, CallbackFailures, NetworkError, CompleteLinking, Outcomes,
         Request, Readable, ResponseOk, Reply, Null

LEMMA RequestsClosed ==
  /\ \A r \in LinkingRequests \cup {Nowhere} : AsGet(r) \in LinkingRequests \cup {Nowhere}
  /\ \A r \in LinkingRequests : EntryPoint(r) \in {"gate", "handler"}
  /\ LinkingPage \in LinkingRequests
  /\ Nowhere \notin LinkingRequests
  /\ Nowhere.route \notin LinkingRoutes
  BY DEF LinkingRequests, AsGet, EntryPoint, LinkingPage, Nowhere, Page, Get, LinkingRoutes

LEMMA EmptySessionTyped == EmptySession \in LinkingSessions
  BY DEF EmptySession, LinkingSessions, Outcomes

LEMMA SessionsClosed ==
  ASSUME NEW s \in LinkingSessions
  PROVE  /\ TakeOutcomes(s) \in LinkingSessions
         /\ ClearRequired(s) \in LinkingSessions
         /\ OldestOutcome(s) \in Outcomes \cup {"none"}
         /\ \A o \in Outcomes : FlashOutcome(s, o) \in LinkingSessions
         /\ \A r \in LinkingRequests \cup {Nowhere} : StashReturn(s, r) \in LinkingSessions
<1>1. TakeOutcomes(s) \in LinkingSessions
  <2>1. <<>> \in Seq(Outcomes)
    OBVIOUS
  <2> QED  BY <2>1 DEF TakeOutcomes, LinkingSessions
<1>2. ClearRequired(s) \in LinkingSessions
  BY DEF ClearRequired, LinkingSessions
<1>3. OldestOutcome(s) \in Outcomes \cup {"none"}
  BY DEF OldestOutcome, LinkingSessions
<1>4. \A o \in Outcomes : FlashOutcome(s, o) \in LinkingSessions
  BY DEF FlashOutcome, LinkingSessions
<1>5. \A r \in LinkingRequests \cup {Nowhere} : StashReturn(s, r) \in LinkingSessions
  BY RequestsClosed DEF StashReturn, LinkingSessions
<1> QED  BY <1>1, <1>2, <1>3, <1>4, <1>5

-----------------------------------------------------------------------------
(* The life of a request keeps the type invariant. *)

LEMMA PagesTyped ==
  /\ BlankPage \in LinkingPages
  /\ \A p \in LinkingPages :
       /\ \A st \in {"linked", "notLinked", "statusError"} : [p EXCEPT !.status = st] \in LinkingPages
       /\ \A u \in {"url", "none"} : [p EXCEPT !.url = u] \in LinkingPages
       /\ \A u \in {"url", "none"} : Offered(p, u) \in LinkingPages
       /\ \A c \in [state : CheckStates, reason : FailureReasons] :
            [p EXCEPT !.check = c] \in LinkingPages
  /\ \A m \in Outcomes \cup {"none"} : \A r \in LinkingRequests \cup {Nowhere} :
       [BlankPage EXCEPT !.message = m, !.required = r] \in LinkingPages
  BY DEF BlankPage, LinkingPages, Offered, FailureReasons, CheckStates

LEMMA ArriveTyped ==
  ASSUME LinkingTypeOK, NEW t \in Tabs, NEW r \in LinkingRequests, Arrive(t, r),
         UNCHANGED gateVars
  PROVE  LinkingTypeOK'
  BY RequestsClosed DEF LinkingTypeOK, Arrive, Load, gateVars, LinkingPCs

LEMMA RespondTyped ==
  ASSUME LinkingTypeOK, NEW t \in Tabs, Respond(t), UNCHANGED gateVars
  PROVE  LinkingTypeOK'
  BY DEF LinkingTypeOK, Respond, Commit, gateVars, LinkingPCs

LEMMA DeliverTyped ==
  ASSUME LinkingTypeOK, NEW t \in Tabs, Deliver(t), UNCHANGED gateVars
  PROVE  LinkingTypeOK'
  BY EmptySessionTyped, PagesTyped DEF LinkingTypeOK, Deliver, Commit, Release, gateVars, LinkingPCs

LEMMA GiveUpTyped ==
  ASSUME LinkingTypeOK, NEW t \in Tabs, GiveUp(t), UNCHANGED gateVars
  PROVE  LinkingTypeOK'
<1>1. aborts' \in 0..MaxAborts
  BY MaxAbortsAssumption DEF LinkingTypeOK, GiveUp
<1>2. ses' \in [Tabs -> LinkingSessions] /\ page' \in [Tabs -> LinkingPages]
  BY EmptySessionTyped, PagesTyped DEF LinkingTypeOK, GiveUp, Release
<1> QED  BY <1>1, <1>2 DEF LinkingTypeOK, GiveUp, Release, gateVars, LinkingPCs

LEMMA GateTyped ==
  ASSUME LinkingTypeOK, NEW t \in Tabs, Gate(t)
  PROVE  LinkingTypeOK'
<1>1. CASE GatePasses(t)
  <2>1. upsets' \in 0..MaxUpsets
    BY <1>1, StatusAnswers, MaxUpsetsAssumption DEF GatePasses, Tally, Answers, LinkingTypeOK
  <2> QED  BY <1>1, <2>1 DEF LinkingTypeOK, GatePasses, Await, NoTouch, HandlerFrame, LinkingPCs
<1>2. CASE GateRefuses(t)
  <2>1. upsets' \in 0..MaxUpsets
    BY <1>2, StatusAnswers, MaxUpsetsAssumption DEF GateRefuses, Tally, Answers, LinkingTypeOK
  <2>2. StashReturn(ses[t], req[t]) \in LinkingSessions
    BY SessionsClosed DEF LinkingTypeOK
  <2> QED  BY <1>2, <2>1, <2>2, RequestsClosed
    DEF LinkingTypeOK, GateRefuses, Touch, Redirect, Await, HandlerFrame, LinkingPCs
<1> QED  BY <1>1, <1>2 DEF Gate

-----------------------------------------------------------------------------
(* So do the handlers. *)

LEMMA StartTyped ==
  ASSUME LinkingTypeOK, NEW t \in Tabs, StartLinkingPage(t) \/ StartDashboard(t)
  PROVE  LinkingTypeOK'
<1>1. CASE StartLinkingPage(t)
  <2>1. /\ TakeOutcomes(ses[t]) \in LinkingSessions
        /\ OldestOutcome(ses[t]) \in Outcomes \cup {"none"}
        /\ ses[t].muralLinkRequired \in LinkingRequests \cup {Nowhere}
    BY SessionsClosed DEF LinkingTypeOK, LinkingSessions
  <2>2. page' \in [Tabs -> LinkingPages]
    BY <1>1, <2>1, PagesTyped DEF LinkingTypeOK, StartLinkingPage, Continue
  <2> QED  BY <1>1, <2>1, <2>2
    DEF LinkingTypeOK, StartLinkingPage, Continue, Await, Touch, HandlerFrame, gateVars, LinkingPCs
<1>2. CASE StartDashboard(t)
  BY <1>2, PagesTyped
  DEF LinkingTypeOK, StartDashboard, Continue, Await, NoTouch, HandlerFrame, gateVars, LinkingPCs
<1> QED  BY <1>1, <1>2

LEMMA StatusTyped ==
  ASSUME LinkingTypeOK, NEW t \in Tabs, StatusAnswered(t)
  PROVE  LinkingTypeOK'
<1>1. PICK reply \in Answers({StatusReply(link)}, Failures) :
        /\ Tally(reply, Failures)
        /\ \/ StatusSettled(t, LinkingStatus(reply))
           \/ ReturnFromPage(t, LinkingStatus(reply))
           \/ GoOnToTest(t, LinkingStatus(reply))
  BY DEF StatusAnswered
<1> DEFINE status == LinkingStatus(reply)
<1>2. upsets' \in 0..MaxUpsets
  BY <1>1, StatusAnswers, MaxUpsetsAssumption DEF Tally, Answers, LinkingTypeOK
<1>3. status \in {"linked", "notLinked", "statusError"}
  BY StatusAnswers DEF Answers, LinkingTypeOK
<1>4. Asked(t, status) \in LinkingPages
  BY <1>3, PagesTyped DEF Asked, LinkingTypeOK
<1>5. UNCHANGED <<storage, stored, req, aborts, link>>
  BY DEF StatusAnswered, HandlerFrame
<1> HIDE DEF status
<1>6. CASE StatusSettled(t, status)
  BY <1>2, <1>4, <1>5, <1>6
  DEF StatusSettled, Continue, Render, Await, NoTouch, LinkingTypeOK, LinkingPCs
<1>7. CASE ReturnFromPage(t, status)
  <2>1. page[t].required \in LinkingRequests \cup {Nowhere}
    BY DEF LinkingTypeOK, LinkingPages
  <2>2. ClearRequired(ses[t]) \in LinkingSessions
    BY SessionsClosed DEF LinkingTypeOK
  <2> QED  BY <1>2, <1>5, <1>7, <2>1, <2>2
    DEF ReturnFromPage, Redirect, Await, Touch, LinkingTypeOK, LinkingPCs
<1>8. CASE GoOnToTest(t, status)
  BY <1>2, <1>4, <1>5, <1>8
  DEF GoOnToTest, Continue, Await, NoTouch, LinkingTypeOK, LinkingPCs
<1> QED  BY <1>1, <1>6, <1>7, <1>8 DEF status

LEMMA UrlTyped ==
  ASSUME LinkingTypeOK, NEW t \in Tabs, UrlAnswered(t) \/ ReconnectAnswered(t)
  PROVE  LinkingTypeOK'
<1>1. PICK reply \in UrlReplies, p \in LinkingPages : Tally(reply, Failures) /\ Render(t, p)
  <2>1. \A reply \in UrlReplies :
          /\ Offered(page[t], AuthorizationUrl(reply)) \in LinkingPages
          /\ [page[t] EXCEPT !.url = AuthorizationUrl(reply)] \in LinkingPages
    <3> TAKE reply \in UrlReplies
    <3>1. AuthorizationUrl(reply) \in {"url", "none"}
      BY UrlAnswers DEF UrlReplies, Answers
    <3>2. page[t] \in LinkingPages
      BY DEF LinkingTypeOK
    <3> QED  BY <3>1, <3>2, PagesTyped
  <2> QED  BY <2>1 DEF UrlAnswered, ReconnectAnswered
<1>2. upsets' \in 0..MaxUpsets
  BY <1>1, UrlAnswers, MaxUpsetsAssumption DEF UrlReplies, Tally, Answers, LinkingTypeOK
<1>3. NoTouch /\ HandlerFrame /\ UNCHANGED link
  BY DEF UrlAnswered, ReconnectAnswered
<1> QED  BY <1>1, <1>2, <1>3 DEF Render, Await, NoTouch, HandlerFrame, LinkingTypeOK, LinkingPCs

LEMMA TestTyped ==
  ASSUME LinkingTypeOK, NEW t \in Tabs, TestAnswered(t)
  PROVE  LinkingTypeOK'
<1>1. PICK reply \in TestReplies :
        /\ Tally(reply, TestFailures)
        /\ IF VerifyConnection(reply).state = "failed"
           THEN Continue(t, "reconnect", [page[t] EXCEPT !.check = VerifyConnection(reply)])
           ELSE Render(t, [page[t] EXCEPT !.check = VerifyConnection(reply)])
  BY DEF TestAnswered
<1>2. [page[t] EXCEPT !.check = VerifyConnection(reply)] \in LinkingPages
  BY TestAnswers, PagesTyped DEF TestReplies, Answers, LinkingTypeOK
<1>3. upsets' \in 0..MaxUpsets
  BY <1>1, TestAnswers, MaxUpsetsAssumption DEF TestReplies, Tally, Answers, LinkingTypeOK
<1>4. NoTouch /\ HandlerFrame /\ UNCHANGED link
  BY DEF TestAnswered
<1> QED  BY <1>1, <1>2, <1>3, <1>4
  DEF Continue, Render, Await, NoTouch, HandlerFrame, LinkingTypeOK, LinkingPCs

LEMMA CallbackTyped ==
  ASSUME LinkingTypeOK, NEW t \in Tabs,
         CallbackCancelled(t) \/ CallbackExchanges(t) \/ CallbackAnswered(t)
  PROVE  LinkingTypeOK'
<1>1. CASE CallbackCancelled(t)
  <2>1. FlashOutcome(ses[t], "cancelled") \in LinkingSessions
    BY SessionsClosed DEF LinkingTypeOK, Outcomes
  <2> QED  BY <1>1, <2>1, RequestsClosed
    DEF CallbackCancelled, Touch, Redirect, Await, HandlerFrame, gateVars, LinkingTypeOK, LinkingPCs
<1>2. CASE CallbackExchanges(t)
  BY <1>2 DEF CallbackExchanges, Await, NoTouch, HandlerFrame, gateVars, LinkingTypeOK, LinkingPCs
<1>3. CASE CallbackAnswered(t)
  <2>1. PICK reply \in CallbackReplies, l \in Links :
          /\ CallbackReply(reply, l)
          /\ link' = l
          /\ Tally(reply, CallbackFailures)
          /\ FinishCallback(t, CompleteLinking(reply))
    BY <1>3 DEF CallbackAnswered
  <2>2. upsets' \in 0..MaxUpsets
    BY <2>1, CallbackAnswers, MaxUpsetsAssumption DEF CallbackReply, Tally, LinkingTypeOK
  <2>3. /\ ClearRequired(ses[t]) \in LinkingSessions
        /\ FlashOutcome(ses[t], CompleteLinking(reply)) \in LinkingSessions
        /\ ses[t].muralLinkRequired \in LinkingRequests \cup {Nowhere}
    BY SessionsClosed, CallbackAnswers DEF LinkingTypeOK, LinkingSessions
  <2>4. HandlerFrame
    BY <1>3 DEF CallbackAnswered
  <2> QED  BY <2>1, <2>2, <2>3, <2>4, RequestsClosed
    DEF FinishCallback, Touch, Redirect, Await, HandlerFrame, LinkingTypeOK, LinkingPCs
<1> QED  BY <1>1, <1>2, <1>3

LEMMA FormTyped ==
  ASSUME LinkingTypeOK, NEW t \in Tabs, ServeForm(t)
  PROVE  LinkingTypeOK'
  BY PagesTyped
  DEF ServeForm, Render, Await, NoTouch, HandlerFrame, gateVars, LinkingTypeOK, LinkingPCs

-----------------------------------------------------------------------------

\* The linking flow keeps its type: every session a tab loads, changes and
\* commits is a session of the portal, every redirect leads to a route of it.
THEOREM LinkingTypeCorrect == LinkingSpec => []LinkingTypeOK
<1>1. LinkingInit => LinkingTypeOK
  <2> SUFFICES ASSUME LinkingInit  PROVE LinkingTypeOK
    OBVIOUS
  <2>1. aborts \in 0..MaxAborts /\ upsets \in 0..MaxUpsets
    BY MaxAbortsAssumption, MaxUpsetsAssumption DEF LinkingInit, GateInit, RequestInit
  <2>2. BlankPage \in LinkingPages
    BY PagesTyped
  <2> QED  BY <2>1, <2>2, EmptySessionTyped
    DEF LinkingInit, GateInit, RequestInit, LinkingTypeOK, LinkingPCs
<1>2. LinkingTypeOK /\ [LinkingNext]_linkingVars => LinkingTypeOK'
  <2> SUFFICES ASSUME LinkingTypeOK, [LinkingNext]_linkingVars  PROVE LinkingTypeOK'
    OBVIOUS
  <2>1. CASE UNCHANGED linkingVars
    BY <2>1 DEF linkingVars, requestVars, gateVars, LinkingTypeOK
  <2>2. ASSUME NEW t \in Tabs, LinkingUser(t)  PROVE LinkingTypeOK'
    BY <2>2, ArriveTyped, GiveUpTyped DEF LinkingUser, OpenLinking, Begin
  <2>3. ASSUME NEW t \in Tabs, LinkingPortal(t)  PROVE LinkingTypeOK'
    <3>1. CASE LinkingHandler(t)
      BY <3>1, StartTyped, StatusTyped, UrlTyped, TestTyped, CallbackTyped, FormTyped
      DEF LinkingHandler
    <3>2. CASE Follow(t, LinkingRoutes) /\ UNCHANGED gateVars
      BY <3>2, ArriveTyped, RequestsClosed DEF Follow, LinkingTypeOK
    <3> QED  BY <2>3, <3>1, <3>2, GateTyped, RespondTyped, DeliverTyped DEF LinkingPortal
  <2>4. ASSUME NEW l \in Links, LinkChanges(l)  PROVE LinkingTypeOK'
    BY <2>4, MaxUpsetsAssumption DEF LinkChanges, requestVars, LinkingTypeOK
  <2> QED  BY <2>1, <2>2, <2>3, <2>4 DEF LinkingNext
<1> QED  BY <1>1, <1>2, PTL DEF LinkingSpec

-----------------------------------------------------------------------------
(* Only a gate that passes starts the handler of a gated page.             *)

LEMMA GateNeedsLink ==
  ASSUME link \in Links, NEW t \in Tabs, GatePasses(t)
  PROVE  link # "none"
<1>1. PICK reply \in Answers({StatusReply(link)}, Failures) : IsMuralLinked(reply)
  BY DEF GatePasses
<1>2. reply \in Failures \cup {StatusReply(link)}
  BY <1>1 DEF Answers
<1> QED  BY <1>1, <1>2, StatusAnswers

\* What a step of tab u does to pc.
LEMMA OneTabMoves ==
  ASSUME LinkingTypeOK, NEW u \in Tabs, LinkingUser(u) \/ LinkingPortal(u),
         NEW t \in Tabs, pc[t] = "gate", pc'[t] = "handler"
  PROVE  GatePasses(t)
<1> USE DEF LinkingTypeOK, LinkingPCs
<1>1. CASE LinkingUser(u)
  BY <1>1 DEF LinkingUser, OpenLinking, Begin, Arrive, Load, GiveUp
<1>2. CASE LinkingHandler(u)
  <2>1. \A x : Await(u, x) => (pc'[t] = IF t = u THEN x ELSE pc[t])
    BY DEF Await
  <2>2. pc[u] \notin {"handler", "status", "url", "test", "reconnect", "complete"} => FALSE
    BY <1>2 DEF LinkingHandler, StartLinkingPage, StartDashboard, StatusAnswered, UrlAnswered,
         TestAnswered, ReconnectAnswered, CallbackCancelled, CallbackExchanges, CallbackAnswered,
         ServeForm
  <2>3. \E x : Await(u, x)
    <3>1. \A p, x : Continue(u, x, p) => Await(u, x)
      BY DEF Continue
    <3>2. \A p : Render(u, p) => Await(u, "done")
      BY DEF Render
    <3>3. \A r : Redirect(u, r) => Await(u, "done")
      BY DEF Redirect
    <3> QED  BY <1>2, <3>1, <3>2, <3>3
      DEF LinkingHandler, StartLinkingPage, StartDashboard, StatusAnswered, StatusSettled,
          ReturnFromPage, GoOnToTest, UrlAnswered, TestAnswered, ReconnectAnswered,
          CallbackCancelled, CallbackExchanges, CallbackAnswered, FinishCallback, ServeForm
  <2> QED  BY <2>1, <2>2, <2>3
<1>3. CASE Gate(u)
  BY <1>3 DEF Gate, GatePasses, GateRefuses, Redirect, Await
<1>4. CASE Respond(u) \/ Deliver(u) \/ Follow(u, LinkingRoutes)
  BY <1>4 DEF Respond, Deliver, Follow, Arrive, Load
<1> QED  BY <1>1, <1>2, <1>3, <1>4 DEF LinkingPortal

\* Whatever fails, the handler of a gated page is never reached by a user
\* mural-mcp would not have called linked.
THEOREM GatedPagesAreGuarded == LinkingSpec => GateFailsClosed
<1> DEFINE Guarded == \A t \in Tabs : pc[t] = "gate" /\ pc'[t] = "handler" => link # "none"
<1>1. LinkingTypeOK /\ [LinkingNext]_linkingVars => [Guarded]_linkingVars
  <2> SUFFICES ASSUME LinkingTypeOK, LinkingNext, NEW t \in Tabs,
                      pc[t] = "gate", pc'[t] = "handler"
               PROVE  link # "none"
    OBVIOUS
  <2>1. ASSUME NEW u \in Tabs, LinkingUser(u) \/ LinkingPortal(u)  PROVE link # "none"
    BY <2>1, OneTabMoves, GateNeedsLink DEF LinkingTypeOK
  <2>2. ASSUME NEW l \in Links, LinkChanges(l)  PROVE link # "none"
    BY <2>2 DEF LinkChanges, requestVars
  <2> QED  BY <2>1, <2>2 DEF LinkingNext
<1>2. LinkingSpec => [][Guarded]_linkingVars
  BY <1>1, LinkingTypeCorrect, PTL DEF LinkingSpec
<1> QED  BY <1>2 DEF GateFailsClosed, Guarded

-----------------------------------------------------------------------------
(* What the operations on a session keep of a stash. *)

LEMMA StashKept ==
  ASSUME NEW s \in LinkingSessions
  PROVE  /\ TakeOutcomes(s).muralLinkRequired = s.muralLinkRequired
         /\ ClearRequired(s).muralLinkRequired = Nowhere
         /\ \A o \in Outcomes : FlashOutcome(s, o).muralLinkRequired = s.muralLinkRequired
         /\ \A r : StashReturn(s, r).muralLinkRequired = AsGet(r)
  BY DEF TakeOutcomes, ClearRequired, FlashOutcome, StashReturn, LinkingSessions

=============================================================================
