---------------------------- MODULE Portal_proofs ----------------------------
(***************************************************************************)
(* Proofs about the composed portal, for every set of tabs, of session ids *)
(* and of routes opened, every configuration and every bound.              *)
(***************************************************************************)
EXTENDS Portal, MuralLinking_proofs, AuthSessions_proofs

\* yar keeps the session in its cookie: the reset of one in the server's cache
\* is not modelled.
KeptInCookie == Storages \subseteq {"cookie"}

PortalPCs == LinkingPCs \cup AuthPCs

\* Between requests, or on the way back to the browser.
Unserved == { "rest", "done", "sent", "redirected" }

\* In the linking flow.
LinkingAwaits == { "gate", "handler", "status", "url", "test", "reconnect", "complete" }

\* What the invariant rests on besides types: only a form page is at the gate, a
\* redirect is the last thing a handler does, and the copy of the session that a
\* sign-out sends with the cleared cookie is the empty one.
PortalServed ==
  \A t \in Tabs :
    /\ pc[t] = "gate" => req[t] \in LinkingRequests
    /\ pc[t] = "complete" => req[t].route = "callback"
    /\ goto[t] # Nowhere => pc[t] \in {"done", "sent", "redirected"}
    /\ pc[t] = "drop" => ses[t] = EmptySession /\ dirty[t]
    /\ jar[t] = "clear" => pc[t] \in {"done", "sent"} /\ ses[t] = EmptySession /\ dirty[t]

PortalTypeOK ==
  /\ storage \in Storages
  /\ stored \in LinkingSessions
  /\ pc \in [Tabs -> PortalPCs]
  /\ req \in [Tabs -> PortalRequests \cup {Nowhere}]
  /\ ses \in [Tabs -> LinkingSessions]
  /\ dirty \in [Tabs -> BOOLEAN]
  /\ page \in [Tabs -> LinkingPages]
  /\ goto \in [Tabs -> PortalRequests \cup {Nowhere}]
  /\ aborts \in Nat
  /\ link \in Links
  /\ jar \in [Tabs -> {"keep", "clear"} \cup SessionIds]

PortalShape == PortalTypeOK /\ PortalServed

-----------------------------------------------------------------------------
\* What a session, and a tab, hold of somebody is the present user's.
Own(s) ==
  /\ s.muralLinkRequired \in ownPages \cup {Nowhere}
  /\ Range(s.linkingOutcome) \subseteq ownOutcomes

HeldBy(t) ==
  /\ Own(ses[t])
  /\ page[t].required \in ownPages \cup {Nowhere}
  /\ page[t].message \in ownOutcomes \cup {"none"}
  /\ pc[t] = "done" /\ goto[t].route \in {"newToken", "newBoard"} => goto[t] \in ownPages

OwnHeld == Own(stored) /\ \A t \in Tabs : HeldBy(t)

-----------------------------------------------------------------------------
(* The requests, the sessions and the pages.                               *)

LEMMA PortalRequestsClosed ==
  /\ \A r \in PortalRequests \cup {Nowhere} :
       /\ EntryPoint(r) \in {"gate", "handler"}
       /\ EntryPoint(r) = "gate" => r \in LinkingRequests
  /\ {Home, Dashboard, LinkingPage} \subseteq PortalRequests
  /\ LinkingRequests \subseteq PortalRequests
  /\ Nowhere \notin PortalRequests
  /\ {Home.route, Dashboard.route, LinkingPage.route, Nowhere.route}
       \cap {"newToken", "newBoard"} = {}
  BY DEF PortalRequests, LinkingRequests, AuthRequests, EntryPoint, GatedRoutes, Home, Dashboard,
         LinkingPage, Nowhere, Page, Get

LEMMA RangeOf ==
  ASSUME NEW S, NEW q \in Seq(S)
  PROVE  /\ Range(<<>>) = {}
         /\ q # <<>> => Head(q) \in Range(q)
         /\ \A x \in S : Range(Append(q, x)) = Range(q) \cup {x}
<1>1. Range(<<>>) = {}
  BY DEF Range
<1>2. ASSUME q # <<>>  PROVE Head(q) \in Range(q)
  <2>1. Len(q) \in Nat /\ Len(q) # 0 /\ DOMAIN q = 1..Len(q) /\ Head(q) = q[1]
    BY <1>2
  <2>2. 1 \in DOMAIN q
    BY <2>1
  <2> QED  BY <2>1, <2>2 DEF Range
<1>3. ASSUME NEW x \in S  PROVE Range(Append(q, x)) = Range(q) \cup {x}
  <2> DEFINE n == Len(q)
             longer == Append(q, x)
  <2>1. /\ n \in Nat /\ DOMAIN q = 1..n /\ DOMAIN longer = 1..(n + 1) /\ longer[n + 1] = x
        /\ \A i \in 1..n : longer[i] = q[i]
    OBVIOUS
  <2>2. 1..(n + 1) = (1..n) \cup {n + 1}
    BY <2>1
  <2> HIDE DEF longer, n
  <2>3. { longer[i] : i \in 1..(n + 1) } = { q[i] : i \in 1..n } \cup {x}
    BY <2>1, <2>2
  <2> QED  BY <2>1, <2>3 DEF Range, longer, n
<1> QED  BY <1>1, <1>2, <1>3

LEMMA SessionFields ==
  ASSUME NEW s \in LinkingSessions
  PROVE  /\ TakeOutcomes(s).muralLinkRequired = s.muralLinkRequired
         /\ TakeOutcomes(s).linkingOutcome = <<>>
         /\ ClearRequired(s).muralLinkRequired = Nowhere
         /\ ClearRequired(s).linkingOutcome = s.linkingOutcome
         /\ \A o : FlashOutcome(s, o).muralLinkRequired = s.muralLinkRequired
         /\ \A o : FlashOutcome(s, o).linkingOutcome = Append(s.linkingOutcome, o)
         /\ \A r : StashReturn(s, r).muralLinkRequired = AsGet(r)
         /\ \A r : StashReturn(s, r).linkingOutcome = s.linkingOutcome
         /\ s.linkingOutcome \in Seq(Outcomes)
         /\ s.muralLinkRequired \in LinkingRequests \cup {Nowhere}
  BY DEF TakeOutcomes, ClearRequired, FlashOutcome, StashReturn, LinkingSessions

LEMMA EmptyFields ==
  /\ EmptySession.muralLinkRequired = Nowhere /\ EmptySession.linkingOutcome = <<>>
  /\ BlankPage.required = Nowhere /\ BlankPage.message = "none"
  BY DEF EmptySession, BlankPage

-----------------------------------------------------------------------------
(* What a step of a tab does.                                              *)

\* Authentication and the login routes show nothing, send to no gated page, and
\* touch the session only to reset it.
Authenticates(t) ==
  /\ HandlerFrame /\ UNCHANGED gateVars
  /\ pc[t] \notin Unserved
  /\ \E label \in (AuthPCs \cup {"gate"}) \ {"rest", "sent", "redirected"} :
       /\ Await(t, label)
       /\ label = "gate" => req[t] \in LinkingRequests
       /\ \/ NoTouch /\ label # "drop"
          \/ Touch(t, EmptySession) /\ label = "drop"
       /\ \/ UNCHANGED goto
          \/ label = "done" /\ \E r \in {Home, Dashboard} : goto' = [goto EXCEPT ![t] = r]
       /\ \/ UNCHANGED jar
          \/ \E s \in SessionIds : jar' = [jar EXCEPT ![t] = s]
          \/ pc[t] = "drop" /\ label = "done" /\ NoTouch /\ jar' = [jar EXCEPT ![t] = "clear"]
  /\ page' = page \/ page' = [page EXCEPT ![t] = BlankPage]

\* The gate and the handlers of the linking flow go on with what they hold, show
\* what the session holds, send the user back to where they were stopped, flash
\* an outcome, or stash the page they turn away from.
GoesOn(t) ==
  /\ \E label \in {"handler", "status", "url", "test", "reconnect", "complete", "done"} :
       Await(t, label) /\ (label = "complete" => req[t].route = "callback")
  /\ NoTouch /\ UNCHANGED goto
  /\ \E p \in LinkingPages : /\ page' = [page EXCEPT ![t] = p]
                             /\ p.required \in {page[t].required, Nowhere}
                             /\ p.message \in {page[t].message, "none"}

ShowsHeld(t) ==
  /\ Await(t, "status") /\ UNCHANGED goto
  /\ Touch(t, TakeOutcomes(ses[t]))
  /\ \E p \in LinkingPages : /\ page' = [page EXCEPT ![t] = p]
                             /\ p.required = ses[t].muralLinkRequired
                             /\ p.message = OldestOutcome(ses[t])

ReturnsTab(t) ==
  /\ Touch(t, ClearRequired(ses[t]))
  /\ \E r \in {page[t].required, ses[t].muralLinkRequired} \ {Nowhere} : Redirect(t, r)

Flashes(t) ==
  /\ req[t].route = "callback"
  /\ \E outcome \in Outcomes : Touch(t, FlashOutcome(ses[t], outcome))
  /\ Redirect(t, LinkingPage)

TurnsBack(t) ==
  /\ pc[t] = "gate"
  /\ Touch(t, StashReturn(ses[t], req[t]))
  /\ Redirect(t, LinkingPage)

Serves(t) ==
  /\ HandlerFrame /\ UNCHANGED sessionVars /\ link' \in Links
  /\ pc[t] \in LinkingAwaits
  /\ pc[t] = "gate" => TurnsBack(t) \/ link # "none"
  /\ GoesOn(t) \/ ShowsHeld(t) \/ ReturnsTab(t) \/ Flashes(t) \/ TurnsBack(t)

-----------------------------------------------------------------------------

LEMMA LoginAuthenticates ==
  ASSUME PortalShape, NEW t \in Tabs, AuthHandler(t) \/ RefreshAnswered(t), UNCHANGED gateVars
  PROVE  Authenticates(t)
<1> DEFINE labels == (AuthPCs \cup {"gate"}) \ {"rest", "sent", "redirected"}
<1>1. /\ {"gate", "handler", "refresh", "save", "verify", "store", "drop", "done"} \subseteq labels
      /\ EntryPoint(req[t]) \in {"gate", "handler"}
      /\ EntryPoint(req[t]) = "gate" => req[t] \in LinkingRequests
  BY PortalRequestsClosed DEF AuthPCs, PortalShape, PortalTypeOK
<1>2. HandlerFrame /\ pc[t] \notin Unserved /\ (page' = page \/ page' = [page EXCEPT ![t] = BlankPage])
  BY DEF AuthHandler, RefreshAnswered, Authenticate, RefreshTimesOut, SaveRefreshed, ServeHome,
         StartLogin, VerifyLogin, StoreSession, StoreFails, SkipLogout, ResetSession, DropSession,
         AuthFrame, Render, Redirect, Unserved
<1>3. CASE Authenticate(t) \/ RefreshTimesOut(t) \/ SaveRefreshed(t) \/ RefreshAnswered(t)
  <2>1. NoTouch /\ UNCHANGED jar
    BY <1>3 DEF Authenticate, RefreshTimesOut, SaveRefreshed, RefreshAnswered
  <2>2. \/ LetIn(t) \/ TurnAway(t)
        \/ (Await(t, "refresh") \/ Await(t, "save")) /\ UNCHANGED goto
    BY <1>3 DEF Authenticate, LookUp, RefreshTimesOut, SaveRefreshed, RefreshAnswered,
                RefreshGranted, RefreshRefused
  <2>3. CASE LetIn(t)
    <3>1. Await(t, EntryPoint(req[t])) /\ UNCHANGED goto
      BY <2>3 DEF LetIn
    <3> HIDE DEF labels
    <3> QED  BY <1>1, <1>2, <2>1, <3>1 DEF Authenticates, labels
  <2>4. CASE TurnAway(t)
    <3>1. \/ Await(t, "handler") /\ UNCHANGED goto
          \/ Await(t, "done") /\ goto' = [goto EXCEPT ![t] = Home]
      BY <2>4 DEF TurnAway
    <3> QED  BY <1>1, <1>2, <2>1, <3>1 DEF Authenticates
  <2> QED  BY <1>1, <1>2, <2>1, <2>2, <2>3, <2>4 DEF Authenticates
<1>4. CASE ServeHome(t) \/ SkipLogout(t) \/ StartLogin(t) \/ VerifyLogin(t)
  <2>1. NoTouch /\ UNCHANGED jar
    BY <1>4 DEF ServeHome, SkipLogout, StartLogin, VerifyLogin
  <2>2. \/ (Await(t, "verify") \/ Await(t, "store") \/ Await(t, "done")) /\ UNCHANGED goto
        \/ Await(t, "done") /\ \E r \in {Home, Dashboard} : goto' = [goto EXCEPT ![t] = r]
    BY <1>4 DEF ServeHome, SkipLogout, StartLogin, VerifyLogin, Render, Redirect
  <2> QED  BY <1>1, <1>2, <2>1, <2>2 DEF Authenticates
<1>5. CASE StoreSession(t)
  <2>1. /\ NoTouch /\ Await(t, "done")
        /\ \/ UNCHANGED <<goto, jar>>
           \/ /\ goto' = [goto EXCEPT ![t] = Dashboard]
              /\ \E s \in SessionIds : jar' = [jar EXCEPT ![t] = s]
    BY <1>5 DEF StoreSession, StoreFails, FreshIds, SetCookie, Render, Redirect
  <2> QED  BY <1>1, <1>2, <2>1 DEF Authenticates
<1>6. CASE ResetSession(t)
  <2>1. Touch(t, EmptySession) /\ Await(t, "drop") /\ UNCHANGED <<goto, jar>>
    BY <1>6 DEF ResetSession
  <2> QED  BY <1>1, <1>2, <2>1 DEF Authenticates
<1>7. CASE DropSession(t)
  <2>1. /\ pc[t] = "drop" /\ NoTouch /\ Await(t, "done")
        /\ \/ UNCHANGED <<goto, jar>>
           \/ /\ goto' = [goto EXCEPT ![t] = Home]
              /\ jar' = [jar EXCEPT ![t] = "clear"]
    BY <1>7 DEF DropSession, SetCookie, Render, Redirect
  <2> QED  BY <1>1, <1>2, <2>1 DEF Authenticates
<1> QED  BY <1>3, <1>4, <1>5, <1>6, <1>7 DEF AuthHandler

\* A page that goes on is the same page but for what was asked.
LEMMA PagesGoOn ==
  ASSUME NEW p \in LinkingPages
  PROVE  /\ BlankPage \in LinkingPages
         /\ \A st \in {"linked", "notLinked", "statusError"} :
              /\ [p EXCEPT !.status = st] \in LinkingPages
              /\ [p EXCEPT !.status = st].required = p.required
              /\ [p EXCEPT !.status = st].message = p.message
         /\ \A u \in {"url", "none"} :
              /\ [p EXCEPT !.url = u] \in LinkingPages /\ Offered(p, u) \in LinkingPages
              /\ [p EXCEPT !.url = u].required = p.required
              /\ [p EXCEPT !.url = u].message = p.message
              /\ Offered(p, u).required = p.required /\ Offered(p, u).message = p.message
         /\ \A c \in [state : CheckStates, reason : FailureReasons] :
              /\ [p EXCEPT !.check = c] \in LinkingPages
              /\ [p EXCEPT !.check = c].required = p.required
              /\ [p EXCEPT !.check = c].message = p.message
<1>1. \A st : /\ [p EXCEPT !.status = st].required = p.required
              /\ [p EXCEPT !.status = st].message = p.message
  BY DEF LinkingPages
<1>2. \A u : /\ [p EXCEPT !.url = u].required = p.required
             /\ [p EXCEPT !.url = u].message = p.message
             /\ Offered(p, u).required = p.required /\ Offered(p, u).message = p.message
  BY DEF LinkingPages, Offered
<1>3. \A c : /\ [p EXCEPT !.check = c].required = p.required
             /\ [p EXCEPT !.check = c].message = p.message
  BY DEF LinkingPages
<1> QED  BY <1>1, <1>2, <1>3, PagesTyped

LEMMA GateServes ==
  ASSUME PortalShape, NEW t \in Tabs, Gate(t), UNCHANGED sessionVars
  PROVE  Serves(t)
<1>1. /\ HandlerFrame /\ link' \in Links /\ pc[t] = "gate"
      /\ page \in [Tabs -> LinkingPages] /\ page' = page
  BY DEF PortalShape, PortalTypeOK, Gate, GatePasses, GateRefuses, Redirect
<1>2. CASE GatePasses(t)
  <2>1. NoTouch /\ UNCHANGED goto /\ Await(t, "handler")
    BY <1>2 DEF GatePasses
  <2>2. page' = [page EXCEPT ![t] = page[t]] /\ page[t] \in LinkingPages
    BY <1>1
  <2>3. GoesOn(t)
    BY <2>1, <2>2 DEF GoesOn
  <2>4. link # "none"
    BY <1>2, GateNeedsLink DEF PortalShape, PortalTypeOK
  <2> QED  BY <1>1, <2>3, <2>4 DEF Serves, LinkingAwaits
<1>3. CASE GateRefuses(t)
  BY <1>1, <1>3 DEF GateRefuses, TurnsBack, Serves, LinkingAwaits
<1> QED  BY <1>2, <1>3 DEF Gate

LEMMA PageServes ==
  ASSUME PortalShape, NEW t \in Tabs, UNCHANGED sessionVars,
         \/ StartLinkingPage(t) \/ StartDashboard(t) \/ StatusAnswered(t) \/ UrlAnswered(t)
         \/ TestAnswered(t) \/ ReconnectAnswered(t) \/ ServeForm(t)
  PROVE  Serves(t)
<1>1. /\ HandlerFrame /\ link' = link /\ link \in Links
      /\ pc[t] \in {"handler", "status", "url", "test", "reconnect"}
      /\ page \in [Tabs -> LinkingPages] /\ page[t] \in LinkingPages /\ ses[t] \in LinkingSessions
  BY DEF PortalShape, PortalTypeOK, StartLinkingPage, StartDashboard, StatusAnswered, UrlAnswered,
         TestAnswered, ReconnectAnswered, ServeForm, gateVars
<1>2. ASSUME GoesOn(t) \/ ShowsHeld(t) \/ ReturnsTab(t)  PROVE Serves(t)
  BY <1>1, <1>2 DEF Serves, LinkingAwaits
<1>3. ASSUME NoTouch, NEW p \in LinkingPages, p.required \in {page[t].required, Nowhere},
             p.message \in {page[t].message, "none"},
             \/ Render(t, p)
             \/ \E label \in {"status", "url", "test", "reconnect"} : Continue(t, label, p)
      PROVE  Serves(t)
  <2>1. /\ page' = [page EXCEPT ![t] = p] /\ UNCHANGED goto
        /\ \E label \in {"status", "url", "test", "reconnect", "done"} : Await(t, label)
    BY <1>3 DEF Render, Continue
  <2> QED  BY <1>2, <1>3, <2>1 DEF GoesOn
<1>4. CASE StartLinkingPage(t)
  <2> DEFINE p == [BlankPage EXCEPT !.message = OldestOutcome(ses[t]),
                                    !.required = ses[t].muralLinkRequired]
  <2>1. p \in LinkingPages
    BY <1>1, PagesTyped, SessionsClosed, SessionFields
  <2>2. p.required = ses[t].muralLinkRequired /\ p.message = OldestOutcome(ses[t])
    BY DEF BlankPage
  <2>3. /\ Await(t, "status") /\ UNCHANGED goto /\ Touch(t, TakeOutcomes(ses[t]))
        /\ page' = [page EXCEPT ![t] = p]
    BY <1>4 DEF StartLinkingPage, Continue
  <2> HIDE DEF p
  <2> QED  BY <1>2, <2>1, <2>2, <2>3 DEF ShowsHeld
<1>5. CASE StartDashboard(t) \/ ServeForm(t)
  BY <1>1, <1>3, <1>5, PagesGoOn, EmptyFields DEF StartDashboard, ServeForm
<1>6. CASE StatusAnswered(t)
  <2>1. PICK reply \in Answers({StatusReply(link)}, Failures) :
          \/ StatusSettled(t, LinkingStatus(reply))
          \/ ReturnFromPage(t, LinkingStatus(reply))
          \/ GoOnToTest(t, LinkingStatus(reply))
    BY <1>6 DEF StatusAnswered
  <2> DEFINE status == LinkingStatus(reply)
  <2>2. status \in {"linked", "notLinked", "statusError"}
    BY <1>1, StatusAnswers DEF Answers
  <2>3. /\ Asked(t, status) \in LinkingPages
        /\ Asked(t, status).required = page[t].required
        /\ Asked(t, status).message = page[t].message
    BY <1>1, <2>2, PagesGoOn DEF Asked
  <2>4. StatusSettled(t, status) \/ ReturnFromPage(t, status) \/ GoOnToTest(t, status)
    BY <2>1
  <2> HIDE DEF status
  <2>5. CASE StatusSettled(t, status) \/ GoOnToTest(t, status)
    BY <1>3, <2>3, <2>5 DEF StatusSettled, GoOnToTest
  <2>6. CASE ReturnFromPage(t, status)
    BY <1>2, <2>6 DEF ReturnFromPage, ReturnsTab
  <2> QED  BY <2>4, <2>5, <2>6
<1>7. CASE UrlAnswered(t) \/ ReconnectAnswered(t)
  <2>1. PICK reply \in UrlReplies :
          \/ Render(t, Offered(page[t], AuthorizationUrl(reply)))
          \/ Render(t, [page[t] EXCEPT !.url = AuthorizationUrl(reply)])
    BY <1>7 DEF UrlAnswered, ReconnectAnswered
  <2>2. AuthorizationUrl(reply) \in {"url", "none"}
    BY UrlAnswers DEF UrlReplies, Answers
  <2>3. NoTouch
    BY <1>7 DEF UrlAnswered, ReconnectAnswered
  <2> QED  BY <1>1, <1>3, <2>1, <2>2, <2>3, PagesGoOn
<1>8. CASE TestAnswered(t)
  <2>1. PICK reply \in TestReplies :
          IF VerifyConnection(reply).state = "failed"
          THEN Continue(t, "reconnect", [page[t] EXCEPT !.check = VerifyConnection(reply)])
          ELSE Render(t, [page[t] EXCEPT !.check = VerifyConnection(reply)])
    BY <1>8 DEF TestAnswered
  <2>2. VerifyConnection(reply) \in [state : CheckStates, reason : FailureReasons]
    BY TestAnswers DEF TestReplies, Answers
  <2>3. NoTouch
    BY <1>8 DEF TestAnswered
  <2> DEFINE p == [page[t] EXCEPT !.check = VerifyConnection(reply)]
  <2>4. p \in LinkingPages /\ p.required = page[t].required /\ p.message = page[t].message
    BY <1>1, <2>2, PagesGoOn
  <2>5. Continue(t, "reconnect", p) \/ Render(t, p)
    BY <2>1
  <2> HIDE DEF p
  <2> QED  BY <1>3, <2>3, <2>4, <2>5
<1> QED  BY <1>4, <1>5, <1>6, <1>7, <1>8

LEMMA CallbackServes ==
  ASSUME PortalShape, NEW t \in Tabs, UNCHANGED sessionVars,
         CallbackCancelled(t) \/ CallbackExchanges(t) \/ CallbackAnswered(t)
  PROVE  Serves(t)
<1>1. /\ HandlerFrame /\ link' \in Links
      /\ pc[t] \in {"handler", "complete"}
      /\ page \in [Tabs -> LinkingPages] /\ page[t] \in LinkingPages
  BY DEF PortalShape, PortalTypeOK, CallbackCancelled, CallbackExchanges, CallbackAnswered, gateVars
<1>2. ASSUME GoesOn(t) \/ ReturnsTab(t) \/ Flashes(t)  PROVE Serves(t)
  BY <1>1, <1>2 DEF Serves, LinkingAwaits
<1>3. CASE CallbackCancelled(t)
  <2>1. req[t].route = "callback" /\ "cancelled" \in Outcomes
    BY <1>3 DEF CallbackCancelled, Get, Outcomes
  <2> QED  BY <1>2, <1>3, <2>1 DEF CallbackCancelled, Flashes
<1>4. CASE CallbackExchanges(t)
  <2>1. page' = [page EXCEPT ![t] = page[t]]
    BY <1>1, <1>4 DEF CallbackExchanges
  <2>2. Await(t, "complete") /\ req[t].route = "callback" /\ NoTouch /\ UNCHANGED goto
    BY <1>4 DEF CallbackExchanges, Get
  <2> QED  BY <1>1, <1>2, <2>1, <2>2 DEF GoesOn
<1>5. CASE CallbackAnswered(t)
  <2>1. PICK reply \in CallbackReplies : FinishCallback(t, CompleteLinking(reply))
    BY <1>5 DEF CallbackAnswered
  <2>2. CompleteLinking(reply) \in Outcomes /\ req[t].route = "callback"
    BY <1>5, CallbackAnswers DEF CallbackAnswered, PortalShape, PortalServed
  <2> QED  BY <1>2, <2>1, <2>2 DEF FinishCallback, ReturnsTab, Flashes
<1> QED  BY <1>3, <1>4, <1>5

LEMMA LinkingServed ==
  ASSUME PortalShape, NEW t \in Tabs, LinkingServes(t)
  PROVE  Serves(t)
  BY GateServes, PageServes, CallbackServes DEF LinkingServes, LinkingHandler

-----------------------------------------------------------------------------
(* Every step keeps the shape.                                             *)

LEMMA EnterShape ==
  ASSUME PortalShape, NEW t \in Tabs, NEW r \in PortalRequests \cup {Nowhere}, Enter(t, r),
         pc[t] \in {"rest", "redirected"}, UNCHANGED gateVars
  PROVE  PortalShape'
<1>1. PortalTypeOK'
  BY DEF PortalShape, PortalTypeOK, Enter, Load, gateVars, PortalPCs, AuthPCs, LinkingPCs
<1>2. jar[t] # "clear"
  BY DEF PortalShape, PortalServed
<1>3. PortalServed'
  BY <1>2 DEF PortalShape, PortalTypeOK, PortalServed, Enter, Load
<1> QED  BY <1>1, <1>3 DEF PortalShape

LEMMA RespondShape ==
  ASSUME PortalShape, NEW t \in Tabs, Respond(t), UNCHANGED <<gateVars, sessionVars>>
  PROVE  PortalShape'
<1>1. PortalTypeOK'
  BY DEF PortalShape, PortalTypeOK, Respond, Commit, gateVars, sessionVars, PortalPCs, AuthPCs
<1>2. PortalServed'
  BY DEF PortalShape, PortalTypeOK, PortalServed, Respond, sessionVars
<1> QED  BY <1>1, <1>2 DEF PortalShape

LEMMA ReceiveShape ==
  ASSUME PortalShape, NEW t \in Tabs, Receive(t) \/ Lose(t), UNCHANGED gateVars
  PROVE  PortalShape'
<1>1. /\ storage' = storage /\ req' \in [Tabs -> PortalRequests \cup {Nowhere}]
      /\ goto' \in [Tabs -> PortalRequests \cup {Nowhere}] /\ aborts' \in Nat
      /\ stored' \in LinkingSessions
  BY DEF PortalShape, PortalTypeOK, Receive, Deliver, Commit, Lose, GiveUp
<1>2. /\ \E label \in {"rest", "redirected"} :
           /\ pc' = [pc EXCEPT ![t] = label]
           /\ goto'[t] # Nowhere => label = "redirected"
      /\ \A u \in Tabs : u # t => goto'[u] = goto[u] /\ req'[u] = req[u]
  BY DEF PortalShape, PortalTypeOK, Receive, Deliver, Lose, GiveUp
<1>3. Release(t) /\ jar' = [jar EXCEPT ![t] = "keep"] /\ link' = link
  BY DEF Receive, Deliver, Lose, GiveUp, Forget, gateVars
<1>4. EmptySession \in LinkingSessions /\ BlankPage \in LinkingPages
  BY EmptySessionTyped, PagesTyped
<1>5. PortalTypeOK'
  BY <1>1, <1>2, <1>3, <1>4 DEF PortalShape, PortalTypeOK, Release, PortalPCs, AuthPCs
<1>6. PortalServed'
  BY <1>1, <1>2, <1>3 DEF PortalShape, PortalTypeOK, PortalServed, Release
<1> QED  BY <1>5, <1>6 DEF PortalShape

LEMMA AuthShape ==
  ASSUME PortalShape, NEW t \in Tabs, Authenticates(t)
  PROVE  PortalShape'
<1>1. PICK label \in (AuthPCs \cup {"gate"}) \ {"rest", "sent", "redirected"} :
       /\ Await(t, label)
       /\ label = "gate" => req[t] \in LinkingRequests
       /\ \/ NoTouch /\ label # "drop"
          \/ Touch(t, EmptySession) /\ label = "drop"
       /\ \/ UNCHANGED goto
          \/ label = "done" /\ \E r \in {Home, Dashboard} : goto' = [goto EXCEPT ![t] = r]
       /\ \/ UNCHANGED jar
          \/ \E s \in SessionIds : jar' = [jar EXCEPT ![t] = s]
          \/ pc[t] = "drop" /\ label = "done" /\ NoTouch /\ jar' = [jar EXCEPT ![t] = "clear"]
  BY DEF Authenticates
<1>2. pc' \in [Tabs -> PortalPCs]
  BY <1>1 DEF PortalShape, PortalTypeOK, Await, PortalPCs, LinkingPCs
<1>3. ses' \in [Tabs -> LinkingSessions] /\ dirty' \in [Tabs -> BOOLEAN]
  BY <1>1, EmptySessionTyped DEF PortalShape, PortalTypeOK, Touch, NoTouch
<1>4. /\ goto' \in [Tabs -> PortalRequests \cup {Nowhere}]
      /\ jar' \in [Tabs -> {"keep", "clear"} \cup SessionIds]
  BY <1>1, PortalRequestsClosed DEF PortalShape, PortalTypeOK
<1>5. page' \in [Tabs -> LinkingPages]
  BY PagesTyped DEF PortalShape, PortalTypeOK, Authenticates
<1>6. PortalTypeOK'
  BY <1>2, <1>3, <1>4, <1>5 DEF PortalShape, PortalTypeOK, Authenticates, HandlerFrame, gateVars
<1>7. pc[t] \notin Unserved /\ req' = req /\ goto[t] = Nowhere /\ jar[t] # "clear"
  BY DEF Authenticates, HandlerFrame, Unserved, PortalShape, PortalServed
<1>8. \A s \in SessionIds : s # "clear"
  BY SessionIdsAssumption
<1>9. ASSUME NEW u \in Tabs, u # t
      PROVE  /\ pc'[u] = pc[u] /\ goto'[u] = goto[u] /\ jar'[u] = jar[u]
             /\ ses'[u] = ses[u] /\ dirty'[u] = dirty[u]
  BY <1>1, <1>9 DEF PortalShape, PortalTypeOK, Await, Touch, NoTouch
<1>10. /\ pc'[t] = label
       /\ goto'[t] # Nowhere => label = "done"
       /\ label = "drop" => ses'[t] = EmptySession /\ dirty'[t]
       /\ jar'[t] = "clear" => pc[t] = "drop" /\ label = "done" /\ ses'[t] = ses[t] /\ dirty'[t] = dirty[t]
  BY <1>1, <1>7, <1>8 DEF PortalShape, PortalTypeOK, Await, Touch, NoTouch
<1>11. PortalServed'
  BY <1>1, <1>7, <1>9, <1>10 DEF PortalShape, PortalServed, AuthPCs
<1> QED  BY <1>6, <1>11 DEF PortalShape

LEMMA ServesShape ==
  ASSUME PortalShape, NEW t \in Tabs, Serves(t)
  PROVE  PortalShape'
<1>1. PICK label \in {"handler", "status", "url", "test", "reconnect", "complete", "done"} :
        /\ Await(t, label)
        /\ label = "complete" => req[t].route = "callback"
        /\ UNCHANGED goto \/ (label = "done" /\ \E r \in LinkingRequests : goto' = [goto EXCEPT ![t] = r])
  <2>1. /\ ses[t] \in LinkingSessions /\ page[t] \in LinkingPages
        /\ page[t].required \in LinkingRequests \cup {Nowhere} /\ LinkingPage \in LinkingRequests
    BY RequestsClosed DEF PortalShape, PortalTypeOK, LinkingPages
  <2>2. CASE GoesOn(t)
    BY <2>2 DEF GoesOn
  <2>3. CASE ShowsHeld(t)
    BY <2>3 DEF ShowsHeld
  <2>4. CASE ReturnsTab(t)
    <3>1. PICK r \in {page[t].required, ses[t].muralLinkRequired} \ {Nowhere} : Redirect(t, r)
      BY <2>4 DEF ReturnsTab
    <3>2. r \in LinkingRequests
      BY <2>1, SessionFields
    <3> QED  BY <3>1, <3>2 DEF Redirect
  <2>5. CASE Flashes(t) \/ TurnsBack(t)
    BY <2>1, <2>5 DEF Flashes, TurnsBack, Redirect
  <2> QED  BY <2>2, <2>3, <2>4, <2>5 DEF Serves
<1>2. ses' \in [Tabs -> LinkingSessions] /\ dirty' \in [Tabs -> BOOLEAN]
  <2>1. ses[t] \in LinkingSessions
    BY DEF PortalShape, PortalTypeOK
  <2>2. NoTouch \/ \E s \in LinkingSessions : Touch(t, s)
    <3>1. TurnsBack(t) => StashReturn(ses[t], req[t]) \in LinkingSessions
      BY <2>1, SessionsClosed DEF TurnsBack, PortalShape, PortalServed
    <3> QED  BY <2>1, <3>1, SessionsClosed
        DEF Serves, GoesOn, ShowsHeld, ReturnsTab, Flashes, TurnsBack
  <2> QED  BY <2>2 DEF PortalShape, PortalTypeOK, NoTouch, Touch
<1>3. page' \in [Tabs -> LinkingPages]
  <2>1. page' = page \/ \E p \in LinkingPages : page' = [page EXCEPT ![t] = p]
    BY DEF Serves, GoesOn, ShowsHeld, ReturnsTab, Flashes, TurnsBack, Redirect
  <2> QED  BY <2>1 DEF PortalShape, PortalTypeOK
<1>4. pc' \in [Tabs -> PortalPCs]
  BY <1>1 DEF PortalShape, PortalTypeOK, Await, PortalPCs, LinkingPCs
<1>5. goto' \in [Tabs -> PortalRequests \cup {Nowhere}]
  BY <1>1, PortalRequestsClosed DEF PortalShape, PortalTypeOK
<1>6. UNCHANGED <<storage, stored, req, aborts, jar>> /\ link' \in Links
  BY DEF Serves, HandlerFrame, sessionVars
<1>7. PortalTypeOK'
  BY <1>2, <1>3, <1>4, <1>5, <1>6 DEF PortalShape, PortalTypeOK
<1>8. goto[t] = Nowhere /\ jar[t] # "clear" /\ pc'[t] = label
  BY <1>1 DEF Serves, LinkingAwaits, PortalShape, PortalTypeOK, PortalServed, Await
<1>9. ASSUME NEW u \in Tabs, u # t
      PROVE  /\ pc'[u] = pc[u] /\ goto'[u] = goto[u]
             /\ ses'[u] = ses[u] /\ dirty'[u] = dirty[u]
  <2>1. NoTouch \/ \E s : Touch(t, s)
    BY DEF Serves, GoesOn, ShowsHeld, ReturnsTab, Flashes, TurnsBack
  <2> QED  BY <1>1, <1>9, <2>1 DEF PortalShape, PortalTypeOK, Await, Touch, NoTouch
<1>10. PortalServed'
  BY <1>1, <1>6, <1>8, <1>9 DEF PortalShape, PortalTypeOK, PortalServed
<1> QED  BY <1>7, <1>10 DEF PortalShape

-----------------------------------------------------------------------------
(* The steps there are.                                                    *)

TabSteps(t) ==
  \/ /\ pc[t] \in {"rest", "redirected"}
     /\ \E r \in PortalRequests \cup {Nowhere} : Enter(t, r)
     /\ UNCHANGED gateVars
  \/ Respond(t) /\ UNCHANGED <<gateVars, sessionVars>>
  \/ (Receive(t) \/ Lose(t)) /\ UNCHANGED gateVars
  \/ Authenticates(t)
  \/ Serves(t)

NobodySteps == UNCHANGED <<requestVars, jar>> /\ link' \in Links

LEMMA TabsStep ==
  ASSUME PortalShape, NEW t \in Tabs,
         \/ PortalUser(t) \/ PortalServes(t)
         \/ RefreshAnswered(t) /\ UNCHANGED gateVars
  PROVE  TabSteps(t)
<1>1. CASE PortalUser(t)
  BY <1>1 DEF PortalUser, OpenPage, TabSteps
<1>2. CASE RefreshAnswered(t) /\ UNCHANGED gateVars
  BY <1>2, LoginAuthenticates DEF TabSteps
<1>3. CASE PortalServes(t)
  <2>1. CASE LinkingServes(t)
    BY <2>1, LinkingServed DEF TabSteps
  <2>2. CASE AuthHandler(t) /\ UNCHANGED gateVars
    BY <2>2, LoginAuthenticates DEF TabSteps
  <2>3. CASE FollowRedirect(t) /\ UNCHANGED gateVars
    BY <2>3 DEF FollowRedirect, TabSteps, PortalShape, PortalTypeOK
  <2> QED  BY <1>3, <2>1, <2>2, <2>3 DEF PortalServes, AuthServes, TabSteps
<1> QED  BY <1>1, <1>2, <1>3

LEMMA PortalSteps ==
  ASSUME PortalShape, PortalNext
  PROVE  NobodySteps \/ \E t \in Tabs : TabSteps(t)
<1>1. ASSUME NEW l \in Links, LinkChanges(l), UNCHANGED sessionVars  PROVE NobodySteps
  BY <1>1 DEF LinkChanges, NobodySteps, sessionVars
<1>2. ASSUME AuthTime, UNCHANGED gateVars  PROVE NobodySteps
  BY <1>2 DEF AuthTime, TokenExpires, SessionLapses, CookieLapses, NobodySteps, gateVars,
              PortalShape, PortalTypeOK
<1> QED  BY <1>1, <1>2, TabsStep DEF PortalNext, Outside

LEMMA StepsKeepShape ==
  ASSUME PortalShape, NobodySteps \/ \E t \in Tabs : TabSteps(t)
  PROVE  PortalShape'
<1>1. CASE NobodySteps
  BY <1>1 DEF NobodySteps, requestVars, PortalShape, PortalTypeOK, PortalServed
<1>2. ASSUME NEW t \in Tabs, TabSteps(t)  PROVE PortalShape'
  BY <1>2, EnterShape, RespondShape, ReceiveShape, AuthShape, ServesShape DEF TabSteps
<1> QED  BY <1>1, <1>2

LEMMA PortalShapeInvariant == PortalSpec => []PortalShape
<1>1. PortalInit => PortalShape
  <2> SUFFICES ASSUME PortalInit  PROVE PortalShape
    OBVIOUS
  <2>1. /\ storage \in Storages /\ stored = EmptySession /\ aborts = 0 /\ link \in Links
        /\ pc = [t \in Tabs |-> "rest"] /\ req = [t \in Tabs |-> Nowhere]
        /\ ses = [t \in Tabs |-> EmptySession] /\ dirty = [t \in Tabs |-> FALSE]
        /\ page = [t \in Tabs |-> BlankPage] /\ goto = [t \in Tabs |-> Nowhere]
        /\ jar = [t \in Tabs |-> "keep"]
    BY DEF PortalInit, LinkingInit, GateInit, RequestInit, SessionInit
  <2>2. EmptySession \in LinkingSessions /\ BlankPage \in LinkingPages
    BY EmptySessionTyped, PagesTyped
  <2>3. PortalTypeOK
    BY <2>1, <2>2 DEF PortalTypeOK, PortalPCs, AuthPCs
  <2>4. PortalServed
    BY <2>1 DEF PortalServed
  <2> QED  BY <2>3, <2>4 DEF PortalShape
<1>2. PortalShape /\ [PortalNext]_portalVars => PortalShape'
  <2> SUFFICES ASSUME PortalShape, [PortalNext]_portalVars  PROVE PortalShape'
    OBVIOUS
  <2>1. CASE UNCHANGED portalVars
    BY <2>1 DEF portalVars, linkingVars, requestVars, gateVars, sessionVars, PortalShape,
                PortalTypeOK, PortalServed
  <2> QED  BY <2>1, PortalSteps, StepsKeepShape
<1> QED  BY <1>1, <1>2, PTL DEF PortalSpec

-----------------------------------------------------------------------------
(* What is observed of them.                                               *)

\* A tab that another tab's step leaves alone.
Idle(u) ==
  pc'[u] = pc[u] /\ ses'[u] = ses[u] /\ page'[u] = page[u] /\ goto'[u] = goto[u]

LEMMA OthersIdle ==
  ASSUME PortalShape, NEW t \in Tabs, TabSteps(t), NEW u \in Tabs, u # t
  PROVE  Idle(u)
<1> USE DEF PortalShape, PortalTypeOK, Idle
<1>1. CASE \E r \in PortalRequests \cup {Nowhere} : Enter(t, r)
  BY <1>1 DEF Enter, Load
<1>2. CASE Respond(t)
  BY <1>2 DEF Respond
<1>3. CASE Receive(t) \/ Lose(t)
  BY <1>3 DEF Receive, Lose, Deliver, GiveUp, Release
<1>4. CASE Authenticates(t)
  BY <1>4 DEF Authenticates, Await, Touch, NoTouch
<1>5. CASE Serves(t)
  BY <1>5 DEF Serves, GoesOn, ShowsHeld, ReturnsTab, Flashes, TurnsBack, Redirect, Await, Touch, NoTouch
<1> QED  BY <1>1, <1>2, <1>3, <1>4, <1>5 DEF TabSteps

\* Who leaves "sent" but by giving up has received the response.
LEMMA SignOutsReceived ==
  ASSUME PortalShape, NEW t \in Tabs, TabSteps(t), NEW u \in Tabs, SignedOut(u)
  PROVE  u = t /\ Receive(t)
<1>1. u = t
  BY OthersIdle DEF SignedOut, Idle
<1>2. aborts \in Nat /\ pc[t] = "sent" /\ aborts' = aborts
  BY <1>1 DEF SignedOut, PortalShape, PortalTypeOK
<1>3. ~Lose(t)
  BY <1>2 DEF Lose, GiveUp
<1> QED  BY <1>1, <1>2, <1>3 DEF TabSteps, Respond, Authenticates, Serves, Unserved, LinkingAwaits

LEMMA HistoryGrows ==
  ASSUME ObservePortal, \A u \in Tabs : ~SignedOut(u)
  PROVE  /\ ownPages' = ownPages \cup RefusedAt
         /\ ownOutcomes' = ownOutcomes \cup Flashed
  BY DEF ObservePortal

LEMMA HistoryStartsAgain ==
  ASSUME PortalShape, ObservePortal, NEW t \in Tabs, TabSteps(t), Receive(t), jar[t] = "clear",
         NEW u \in Tabs, u # t
  PROVE  /\ {ses[u].muralLinkRequired, page[u].required, goto[u]} \subseteq ownPages'
         /\ Range(ses[u].linkingOutcome) \cup {page[u].message} \subseteq ownOutcomes'
<1> DEFINE others == { v \in Tabs : ~SignedOut(v) }
           pages(v) == {ses[v].muralLinkRequired, page[v].required, goto[v]}
           outcomes(v) == Range(ses[v].linkingOutcome) \cup {page[v].message}
<1>1. SignedOut(t)
  BY DEF Receive, Deliver, SignedOut, PortalShape, PortalTypeOK
<1>2. u \in others
  BY SignOutsReceived
<1>3. /\ ownPages' = UNION { pages(v) : v \in others }
      /\ ownOutcomes' = UNION { outcomes(v) : v \in others }
  BY <1>1 DEF ObservePortal
<1>4. pages(u) \subseteq ownPages' /\ outcomes(u) \subseteq ownOutcomes'
  <2> HIDE DEF others, pages, outcomes
  <2> QED  BY <1>2, <1>3
<1> QED  BY <1>4

-----------------------------------------------------------------------------
(* What the portal holds is the present user's.                            *)

LEMMA HeldGrows ==
  ASSUME ownPages \subseteq ownPages', ownOutcomes \subseteq ownOutcomes', NEW u \in Tabs,
         HeldBy(u), Idle(u)
  PROVE  HeldBy(u)'
  BY DEF HeldBy, Own, Idle

LEMMA NothingFlashed == Range(<<>>) = {}
  BY DEF Range


LEMMA RequestHolds ==
  ASSUME PortalShape, OwnHeld, NEW t \in Tabs,
         ownPages \subseteq ownPages', ownOutcomes \subseteq ownOutcomes',
         \/ \E r : Enter(t, r)
         \/ Respond(t) \/ Receive(t) \/ Lose(t)
  PROVE  HeldBy(t)'
<1>1. /\ ses'[t] \in {ses[t], stored, EmptySession}
      /\ page'[t] \in {page[t], BlankPage}
      /\ pc'[t] # "done"
  BY DEF PortalShape, PortalTypeOK, Enter, Load, Respond, Receive, Deliver, Lose, GiveUp, Release
<1> QED  BY <1>1, EmptyFields, NothingFlashed DEF OwnHeld, HeldBy, Own

LEMMA AuthHolds ==
  ASSUME PortalShape, OwnHeld, NEW t \in Tabs,
         ownPages \subseteq ownPages', ownOutcomes \subseteq ownOutcomes', Authenticates(t)
  PROVE  HeldBy(t)'
<1>1. /\ ses'[t] \in {ses[t], EmptySession}
      /\ page'[t] \in {page[t], BlankPage}
      /\ goto'[t] \in {goto[t], Home, Dashboard}
  BY DEF PortalShape, PortalTypeOK, Authenticates, Touch, NoTouch
<1>2. goto[t] = Nowhere
  BY DEF PortalShape, PortalServed, Authenticates, Unserved
<1>3. goto'[t].route \notin {"newToken", "newBoard"}
  BY <1>1, <1>2, PortalRequestsClosed
<1> QED  BY <1>1, <1>3, EmptyFields, NothingFlashed DEF OwnHeld, HeldBy, Own

LEMMA ServesHolds ==
  ASSUME PortalShape, OwnHeld, NEW t \in Tabs, Serves(t),
         ownPages' = ownPages \cup RefusedAt, ownOutcomes' = ownOutcomes \cup Flashed
  PROVE  HeldBy(t)'
<1>1. /\ ses \in [Tabs -> LinkingSessions] /\ ses[t] \in LinkingSessions
      /\ pc \in [Tabs -> PortalPCs] /\ dirty \in [Tabs -> BOOLEAN]
      /\ page \in [Tabs -> LinkingPages] /\ goto \in [Tabs -> PortalRequests \cup {Nowhere}]
  BY DEF PortalShape, PortalTypeOK
<1>2. goto[t] = Nowhere /\ pc[t] # "done"
  BY DEF PortalShape, PortalServed, Serves, LinkingAwaits
<1>3. HeldBy(t)
  BY DEF OwnHeld
<1>4. ownPages \subseteq ownPages' /\ ownOutcomes \subseteq ownOutcomes'
  OBVIOUS
<1>5. Nowhere.route \notin {"newToken", "newBoard"} /\ LinkingPage.route \notin {"newToken", "newBoard"}
  BY PortalRequestsClosed
<1>6. CASE GoesOn(t)
  <2>1. /\ ses'[t] = ses[t] /\ goto'[t] = Nowhere
        /\ page'[t].required \in {page[t].required, Nowhere}
        /\ page'[t].message \in {page[t].message, "none"}
    BY <1>1, <1>2, <1>6 DEF GoesOn, NoTouch
  <2> QED  BY <1>3, <1>4, <1>5, <2>1 DEF HeldBy, Own
<1>7. CASE ShowsHeld(t)
  <2>1. /\ ses'[t] = TakeOutcomes(ses[t]) /\ goto'[t] = Nowhere
        /\ page'[t].required = ses[t].muralLinkRequired
        /\ page'[t].message = OldestOutcome(ses[t])
    BY <1>1, <1>2, <1>7 DEF ShowsHeld, Touch
  <2>2. OldestOutcome(ses[t]) \in Range(ses[t].linkingOutcome) \cup {"none"}
    BY <1>1, SessionFields, RangeOf DEF OldestOutcome
  <2>3. Range(TakeOutcomes(ses[t]).linkingOutcome) = {}
    BY <1>1, SessionFields, NothingFlashed
  <2> QED  BY <1>1, <1>3, <1>4, <1>5, <2>1, <2>2, <2>3, SessionFields DEF HeldBy, Own
<1>8. CASE ReturnsTab(t)
  <2>1. PICK r \in {page[t].required, ses[t].muralLinkRequired} \ {Nowhere} : Redirect(t, r)
    BY <1>8 DEF ReturnsTab
  <2>2. ses'[t] = ClearRequired(ses[t]) /\ goto'[t] = r /\ page' = page
    BY <1>1, <1>8, <2>1 DEF ReturnsTab, Touch, Redirect
  <2>3. r \in ownPages
    BY <1>3 DEF HeldBy, Own
  <2> QED  BY <1>1, <1>3, <1>4, <2>2, <2>3, SessionFields DEF HeldBy, Own
<1>9. CASE Flashes(t)
  <2>1. PICK outcome \in Outcomes : Touch(t, FlashOutcome(ses[t], outcome))
    BY <1>9 DEF Flashes
  <2> DEFINE flash == ses[t].linkingOutcome
  <2>2. /\ ses'[t] = FlashOutcome(ses[t], outcome) /\ goto'[t] = LinkingPage /\ page' = page
        /\ pc'[t] = "done" /\ req[t].route = "callback"
    BY <1>1, <1>9, <2>1 DEF Flashes, Touch, Redirect, Await
  <2>3. flash \in Seq(Outcomes) /\ ses'[t].linkingOutcome = Append(flash, outcome)
    BY <1>1, <2>2, SessionFields
  <2>4. outcome \in Flashed
    <3>1. Flashing(t)
      BY <1>2, <2>2 DEF Flashing
    <3>2. ses'[t].linkingOutcome[Len(ses'[t].linkingOutcome)] = outcome
      BY <2>3
    <3> QED  BY <3>1, <3>2 DEF Flashed
  <2>5. Range(ses'[t].linkingOutcome) = Range(flash) \cup {outcome}
    BY <2>3, RangeOf
  <2>6. Range(ses'[t].linkingOutcome) \subseteq ownOutcomes'
    BY <1>3, <2>4, <2>5 DEF HeldBy, Own
  <2> QED  BY <1>1, <1>3, <1>4, <1>5, <2>2, <2>6, SessionFields DEF HeldBy, Own
<1>10. CASE TurnsBack(t)
  <2>1. /\ ses'[t] = StashReturn(ses[t], req[t]) /\ goto'[t] = LinkingPage /\ page' = page
        /\ pc'[t] = "done" /\ pc[t] = "gate"
    BY <1>1, <1>10 DEF TurnsBack, Touch, Redirect, Await
  <2>2. AsGet(req[t]) \in RefusedAt
    BY <2>1 DEF RefusedAt
  <2> QED  BY <1>1, <1>3, <1>4, <1>5, <2>1, <2>2, SessionFields DEF HeldBy, Own
<1> QED  BY <1>6, <1>7, <1>8, <1>9, <1>10 DEF Serves

\* The session at rest is replaced by the copy of a response that is received.
LEMMA StoredReplaced ==
  ASSUME KeptInCookie, PortalShape, NEW t \in Tabs, TabSteps(t)
  PROVE  \/ stored' = stored
         \/ Receive(t) /\ stored' = ses[t]
<1>1. storage = "cookie"
  BY DEF KeptInCookie, PortalShape, PortalTypeOK
<1> QED  BY <1>1 DEF TabSteps, Enter, Load, Respond, Receive, Deliver, Commit, Lose, GiveUp,
                     Authenticates, Serves, HandlerFrame

LEMMA SignOutsHold ==
  ASSUME KeptInCookie, PortalShape, OwnHeld, ObservePortal, NEW t \in Tabs, TabSteps(t),
         Receive(t), jar[t] = "clear"
  PROVE  OwnHeld'
<1>1. storage = "cookie" /\ ses[t] = EmptySession /\ dirty[t]
  BY DEF KeptInCookie, PortalShape, PortalTypeOK, PortalServed
<1>2. stored' = EmptySession
  BY <1>1 DEF Receive, Deliver, Commit
<1>3. HeldBy(t)'
  <2>1. ses'[t] = EmptySession /\ page'[t] = BlankPage /\ pc'[t] # "done"
    BY DEF PortalShape, PortalTypeOK, Receive, Deliver, Release
  <2> QED  BY <2>1, EmptyFields, NothingFlashed DEF HeldBy, Own
<1>4. ASSUME NEW u \in Tabs, u # t  PROVE HeldBy(u)'
  <2>1. Idle(u)
    BY <1>4, OthersIdle
  <2>2. /\ {ses[u].muralLinkRequired, page[u].required, goto[u]} \subseteq ownPages'
        /\ Range(ses[u].linkingOutcome) \cup {page[u].message} \subseteq ownOutcomes'
    BY <1>4, HistoryStartsAgain
  <2> QED  BY <2>1, <2>2 DEF HeldBy, Own, Idle
<1> QED  BY <1>2, <1>3, <1>4, EmptyFields, NothingFlashed DEF OwnHeld, Own

LEMMA TabsHold ==
  ASSUME KeptInCookie, PortalShape, OwnHeld, ObservePortal, NEW t \in Tabs, TabSteps(t)
  PROVE  OwnHeld'
<1>1. CASE Receive(t) /\ jar[t] = "clear"
  BY <1>1, SignOutsHold
<1>2. CASE ~(Receive(t) /\ jar[t] = "clear")
  <2>1. \A u \in Tabs : ~SignedOut(u)
    BY <1>2, SignOutsReceived DEF SignedOut
  <2>2. ownPages' = ownPages \cup RefusedAt /\ ownOutcomes' = ownOutcomes \cup Flashed
    BY <2>1, HistoryGrows
  <2>3. HeldBy(t)'
    BY <2>2, RequestHolds, AuthHolds, ServesHolds DEF TabSteps
  <2>4. ASSUME NEW u \in Tabs, u # t  PROVE HeldBy(u)'
    BY <2>2, <2>4, OthersIdle, HeldGrows DEF OwnHeld
  <2>5. Own(stored)'
    BY <2>2, StoredReplaced DEF OwnHeld, HeldBy, Own
  <2> QED  BY <2>3, <2>4, <2>5 DEF OwnHeld
<1> QED  BY <1>1, <1>2

LEMMA NobodyHolds ==
  ASSUME OwnHeld, ObservePortal, NobodySteps
  PROVE  OwnHeld'
<1>1. UNCHANGED requestVars
  BY DEF NobodySteps
<1>2. \A u \in Tabs : ~SignedOut(u)
  BY <1>1 DEF SignedOut, requestVars
<1>3. ownPages \subseteq ownPages' /\ ownOutcomes \subseteq ownOutcomes'
  BY <1>2, HistoryGrows
<1> QED  BY <1>1, <1>3 DEF OwnHeld, HeldBy, Own, requestVars

LEMMA OwnHeldInvariant ==
  ASSUME KeptInCookie
  PROVE  PortalSpec => []OwnHeld
<1>1. PortalInit => OwnHeld
  <2> SUFFICES ASSUME PortalInit  PROVE OwnHeld
    OBVIOUS
  <2>1. /\ stored = EmptySession
        /\ \A t \in Tabs : ses[t] = EmptySession /\ page[t] = BlankPage /\ pc[t] = "rest"
    BY DEF PortalInit, LinkingInit, GateInit, RequestInit
  <2> QED  BY <2>1, EmptyFields, NothingFlashed DEF OwnHeld, HeldBy, Own
<1>2. PortalShape /\ OwnHeld /\ [PortalNext]_portalVars => OwnHeld'
  <2> SUFFICES ASSUME PortalShape, OwnHeld, [PortalNext]_portalVars  PROVE OwnHeld'
    OBVIOUS
  <2>1. CASE UNCHANGED portalVars
    BY <2>1 DEF portalVars, linkingVars, requestVars, OwnHeld, HeldBy, Own
  <2>2. CASE PortalNext
    BY <2>2, PortalSteps, TabsHold, NobodyHolds DEF PortalNext
  <2> QED  BY <2>1, <2>2
<1> QED  BY <1>1, <1>2, PortalShapeInvariant, PTL DEF PortalSpec

\* Between requests a tab holds nothing.
RestsEmpty == \A t \in Tabs : pc[t] = "rest" => ses[t] = EmptySession /\ page[t] = BlankPage

LEMMA RestsEmptyInvariant == PortalSpec => []RestsEmpty
<1>1. PortalInit => RestsEmpty
  BY DEF PortalInit, LinkingInit, GateInit, RequestInit, RestsEmpty
<1>2. PortalShape /\ RestsEmpty /\ [PortalNext]_portalVars => RestsEmpty'
  <2> SUFFICES ASSUME PortalShape, RestsEmpty, [PortalNext]_portalVars  PROVE RestsEmpty'
    OBVIOUS
  <2>1. CASE UNCHANGED requestVars
    BY <2>1 DEF requestVars, RestsEmpty
  <2>2. ASSUME NEW t \in Tabs, TabSteps(t)  PROVE RestsEmpty'
    <3>1. pc'[t] = "rest" => Receive(t) \/ Lose(t)
      BY <2>2 DEF TabSteps, PortalShape, PortalTypeOK, Enter, Load, Respond, Authenticates, Serves,
           GoesOn, ShowsHeld, ReturnsTab, Flashes, TurnsBack, Redirect, Await
    <3>2. Receive(t) \/ Lose(t) => ses'[t] = EmptySession /\ page'[t] = BlankPage
      BY DEF Receive, Deliver, Lose, GiveUp, Release, PortalShape, PortalTypeOK
    <3>3. \A u \in Tabs : u # t => Idle(u)
      BY <2>2, OthersIdle
    <3> QED  BY <3>1, <3>2, <3>3 DEF RestsEmpty, Idle
  <2> QED  BY <2>1, <2>2, PortalSteps DEF NobodySteps, portalVars, linkingVars
<1> QED  BY <1>1, <1>2, PortalShapeInvariant, PTL DEF PortalSpec

\* A sign-out that reaches the browser while no other request is under way leaves
\* the user before nothing to be told of, and an empty session.
LEMMA SignOutsLeaveNothing ==
  ASSUME KeptInCookie, PortalShape, RestsEmpty, PortalNext, NEW t \in Tabs, SignedOut(t),
         \A u \in Tabs \ {t} : pc[u] = "rest"
  PROVE  stored' = EmptySession /\ ownPages' \subseteq {Nowhere} /\ ownOutcomes' \subseteq {"none"}
<1> DEFINE others == { v \in Tabs : ~SignedOut(v) }
           pages(v) == {ses[v].muralLinkRequired, page[v].required, goto[v]}
           outcomes(v) == Range(ses[v].linkingOutcome) \cup {page[v].message}
<1>1. Receive(t)
  <2>1. ~NobodySteps
    BY DEF NobodySteps, requestVars, SignedOut
  <2> QED  BY <2>1, PortalSteps, SignOutsReceived
<1>2. stored' = EmptySession
  <2>1. storage = "cookie" /\ ses[t] = EmptySession /\ dirty[t]
    BY DEF KeptInCookie, PortalShape, PortalTypeOK, PortalServed, SignedOut
  <2> QED  BY <1>1, <2>1 DEF Receive, Deliver, Commit
<1>3. ASSUME NEW u \in others  PROVE pages(u) = {Nowhere} /\ outcomes(u) = {"none"}
  <2>1. ses[u] = EmptySession /\ page[u] = BlankPage /\ goto[u] = Nowhere
    BY <1>3 DEF RestsEmpty, PortalShape, PortalServed
  <2> QED  BY <2>1, EmptyFields, NothingFlashed
<1>4. /\ ownPages' = UNION { pages(v) : v \in others }
      /\ ownOutcomes' = UNION { outcomes(v) : v \in others }
  BY DEF ObservePortal, PortalNext
<1>5. ownPages' \subseteq {Nowhere} /\ ownOutcomes' \subseteq {"none"}
  <2> HIDE DEF others, pages, outcomes
  <2> QED  BY <1>3, <1>4
<1> QED  BY <1>2, <1>5

\* Whoever uses the portal is told of nothing, and sent nowhere, but by what has
\* happened since the last sign-out reached the browser or, when other tabs had a
\* request under way then, by what those held; a sign-out with none under way
\* leaves no such remainder, however many tabs there are (login/controller.js:71,
\* with linking/controller.js:29-33 and callback/controller.js:32-39).
THEOREM UsersAreToldTheirOwn ==
  ASSUME KeptInCookie
  PROVE  PortalSpec =>
           /\ []ToldTheirOwn
           /\ [][\A t \in Tabs :
                   SignedOut(t) /\ (\A u \in Tabs \ {t} : pc[u] = "rest") =>
                     /\ stored' = EmptySession
                     /\ ownPages' \subseteq {Nowhere}
                     /\ ownOutcomes' \subseteq {"none"}]_portalVars
<1> DEFINE LeavesNothing ==
             \A t \in Tabs :
               SignedOut(t) /\ (\A u \in Tabs \ {t} : pc[u] = "rest") =>
                 /\ stored' = EmptySession
                 /\ ownPages' \subseteq {Nowhere}
                 /\ ownOutcomes' \subseteq {"none"}
<1>1. OwnHeld => ToldTheirOwn
  BY DEF OwnHeld, HeldBy, ToldTheirOwn
<1>2. PortalSpec => []ToldTheirOwn
  BY <1>1, OwnHeldInvariant, PTL
<1>3. PortalShape /\ RestsEmpty /\ [PortalNext]_portalVars => [LeavesNothing]_portalVars
  BY SignOutsLeaveNothing
<1>4. PortalSpec => [][LeavesNothing]_portalVars
  BY <1>3, PortalShapeInvariant, RestsEmptyInvariant, PTL DEF PortalSpec
<1> QED  BY <1>2, <1>4 DEF LeavesNothing

-----------------------------------------------------------------------------
(* The sign-in keeps its promises where its requests go on to other pages. *)

\* A step of the linking flow leaves the sign-in alone, and takes a request from
\* one of its own awaits to another, or to its answer.
LEMMA LinkingMoves ==
  ASSUME NEW t \in Tabs, Serves(t)
  PROVE  /\ UNCHANGED sessionVars
         /\ pc[t] \in LinkingAwaits
         /\ \E label \in LinkingAwaits \cup {"done"} : label # "gate" /\ pc' = [pc EXCEPT ![t] = label]
<1>1. \E label \in (LinkingAwaits \ {"gate"}) \cup {"done"} : Await(t, label)
  BY DEF Serves, GoesOn, ShowsHeld, ReturnsTab, Flashes, TurnsBack, Redirect, LinkingAwaits
<1> QED  BY <1>1 DEF Serves, Await, LinkingAwaits

\* Every step is one of the sign-in's, one of the linking flow's, or takes place
\* elsewhere.
LEMMA PortalParts ==
  ASSUME PortalShape, PortalNext
  PROVE  \/ \E t \in Tabs : SignInSteps(t) \/ Serves(t)
         \/ AuthTime
         \/ UNCHANGED <<requestVars, sessionVars>>
<1>1. ASSUME NEW t \in Tabs, PortalUser(t) \/ PortalServes(t)
      PROVE  SignInSteps(t) \/ Serves(t)
  <2>1. CASE LinkingServes(t)
    BY <2>1, LinkingServed
  <2>2. CASE PortalUser(t) \/ AuthServes(t) \/ (Respond(t) /\ UNCHANGED sessionVars)
    BY <2>2 DEF PortalUser, OpenPage, AuthServes, FollowRedirect, SignInSteps
  <2> QED  BY <1>1, <2>1, <2>2 DEF PortalServes
<1>2. \A t \in Tabs : RefreshAnswered(t) => SignInSteps(t)
  BY DEF SignInSteps
<1>3. \A l \in Links : LinkChanges(l) /\ UNCHANGED sessionVars
                         => UNCHANGED <<requestVars, sessionVars>>
  BY DEF LinkChanges
<1> QED  BY <1>1, <1>2, <1>3 DEF PortalNext, Outside

\* The inductive invariant of the sign-in.
SignInKept == SessionsTyped /\ CookieNamesStored /\ SidsMatter

LEMMA PortalSignIns ==
  ASSUME PortalShape, SessionsTyped
  PROVE  SignInTyped
<1>1. pc = [t \in Tabs |-> pc[t]]
  BY DEF PortalShape, PortalTypeOK
<1>2. \A t \in Tabs : EntryPoint(req[t]) \in {"handler", "gate"}
  BY PortalRequestsClosed DEF PortalShape, PortalTypeOK
<1> QED  BY <1>1, <1>2 DEF SignInTyped

LEMMA SignInStepsKeep ==
  ASSUME SignInTyped, SignInKept, NEW t \in Tabs, SignInSteps(t)
  PROVE  SignInKept' /\ LifeStep
<1>1. SessionsTyped'
  BY HandlersSessionsTyped, BrowserSessionsTyped DEF SignInSteps, SignInKept
<1>2. CookieNamesStored'
  BY HandlersKeepNames, BrowserKeepsNames DEF SignInSteps, SignInKept
<1>3. SidsMatter'
  BY HandlersKeepSids, BrowserKeepsSids DEF SignInSteps, SignInKept
<1>4. LifeStep
  BY RefreshLives, SaveLives, PagesLive, BrowserLives DEF SignInSteps, SignInKept, AuthHandler
<1> QED  BY <1>1, <1>2, <1>3, <1>4 DEF SignInKept

LEMMA LinkingKeeps ==
  ASSUME SignInTyped, SignInKept, NEW t \in Tabs, Serves(t)
  PROVE  SignInKept' /\ LifeStep
<1>1. PICK label \in LinkingAwaits \cup {"done"} : pc' = [pc EXCEPT ![t] = label]
  BY LinkingMoves
<1>2. UNCHANGED sessionVars /\ pc[t] \in LinkingAwaits
  BY LinkingMoves
<1>3. SessionsTyped' /\ CookieNamesStored'
  BY <1>2, BrowserSessionsTyped, TimeKeepsNames DEF SignInKept
<1>4. SidsMatter'
  BY <1>1, <1>2 DEF SignInKept, SidsMatter, SignInTyped, sessionVars, configVars, LinkingAwaits
<1>5. LifeStep
  <2>1. UNCHANGED <<cache, used, sid>>
    BY <1>2 DEF sessionVars
  <2>2. /\ \A u \in Tabs \ {t} : pc'[u] = pc[u] /\ sid'[u] = sid[u]
        /\ pc[t] \notin RefreshPCs /\ pc'[t] \notin RefreshPCs
    BY <1>1, <1>2, <2>1 DEF SignInTyped, LinkingAwaits, RefreshPCs
  <2> QED  BY <2>1, <2>2, LivesFramed, RefreshingFramed, LifeStutters
<1> QED  BY <1>3, <1>4, <1>5 DEF SignInKept

LEMMA ElsewhereKeeps ==
  ASSUME SignInTyped, SignInKept, AuthTime \/ UNCHANGED <<requestVars, sessionVars>>
  PROVE  SignInKept' /\ LifeStep
<1>1. SessionsTyped'
  <2>1. CASE UNCHANGED <<requestVars, sessionVars>>
    BY <2>1 DEF SignInKept, SessionsTyped, Sids, sessionVars
  <2> QED  BY <2>1, TimeSessionsTyped DEF SignInKept
<1>2. CookieNamesStored' /\ SidsMatter'
  BY TimeKeepsNames, TimeKeepsSids DEF SignInKept
<1>3. LifeStep
  <2>1. CASE UNCHANGED <<requestVars, sessionVars>>
    <3>1. Lives' = Lives /\ Refreshing' = Refreshing
      BY <2>1 DEF requestVars, sessionVars, Lives, LifeOf, Refreshing
    <3> QED  BY <3>1, LifeStutters
  <2> QED  BY <2>1, TimeLives
<1> QED  BY <1>1, <1>2, <1>3 DEF SignInKept

LEMMA PortalStepsKeep ==
  ASSUME PortalShape, SignInKept, [PortalNext]_portalVars
  PROVE  SignInKept' /\ LifeStep
<1>1. SignInTyped
  BY PortalSignIns DEF SignInKept
<1>2. CASE UNCHANGED portalVars
  BY <1>1, <1>2, ElsewhereKeeps DEF portalVars, linkingVars
<1>3. CASE PortalNext
  BY <1>1, <1>3, PortalParts, SignInStepsKeep, LinkingKeeps, ElsewhereKeeps
<1> QED  BY <1>2, <1>3

LEMMA SignInInvariant == PortalSpec => []SignInKept
<1>1. PortalInit => SignInKept
  <2> SUFFICES ASSUME PortalInit  PROVE SignInKept
    OBVIOUS
  <2>1. SessionInit /\ pc = [t \in Tabs |-> "rest"]
    BY DEF PortalInit, LinkingInit, GateInit, RequestInit
  <2>2. SessionsTyped
    BY <2>1, EntriesTyped, MaxFaultsAssumption DEF SessionInit, SessionsTyped, Sids
  <2>3. CookieNamesStored /\ SidsMatter
    BY <2>1 DEF SessionInit, CookieNamesStored, SidsMatter
  <2> QED  BY <2>2, <2>3 DEF SignInKept
<1>2. PortalShape /\ SignInKept /\ [PortalNext]_portalVars => SignInKept'
  BY PortalStepsKeep
<1> QED  BY <1>1, <1>2, PortalShapeInvariant, PTL DEF PortalSpec

\* In the whole portal, with the gate, the linking flow and a sign-out that resets
\* what they keep, no browser, request or response has the id of a session that was
\* never stored (login/controller.js:52-56).
THEOREM PortalCookiesNameStored == PortalSpec => []CookieNamesStored
<1>1. SignInKept => CookieNamesStored
  BY DEF SignInKept
<1> QED  BY <1>1, SignInInvariant, PTL

\* The composed portal implements SessionLife: whatever page a request goes on to,
\* a session that is out comes back only by a refresh that was under way when it
\* went out (auth.js:226-259).
THEOREM PortalImplementsLife == PortalSpec => ImplementsSessionLife
<1>1. PortalInit => Life!LifeInit
  BY DEF PortalInit, LinkingInit, GateInit, RequestInit, SessionInit, Life!LifeInit, Lives, LifeOf,
         Refreshing
<1>2. PortalShape /\ SignInKept /\ [PortalNext]_portalVars => LifeStep
  BY PortalStepsKeep
<1>3. PortalSpec => [][Life!LifeNext]_<<Lives, Refreshing>>
  BY <1>2, PortalShapeInvariant, SignInInvariant, PTL DEF PortalSpec, LifeStep
<1> QED  BY <1>1, <1>3, PTL
  DEF PortalSpec, ImplementsSessionLife, Life!LifeSpec, Life!lifeVars

\* No request of the whole portal ends a usable session but the sign-out of that
\* session, and one to which Entra granted nothing (auth.js:246-255,
\* login/controller.js:67-77).
THEOREM PortalOnlySignOutEnds == PortalSpec => OnlySignOutEnds
<1> DEFINE Ends == \A t \in Tabs, s \in SessionIds :
                     pc'[t] # pc[t] /\ Usable(cache[s]) /\ ~Usable(cache'[s]) => EndsOwn(t, s)
<1>1. PortalShape /\ SignInKept /\ [PortalNext]_portalVars => [Ends]_authVars
  <2> SUFFICES ASSUME PortalShape, SignInKept, [PortalNext]_portalVars,
                      NEW t \in Tabs, NEW s \in SessionIds,
                      pc'[t] # pc[t], Usable(cache[s]), ~Usable(cache'[s])
               PROVE  EndsOwn(t, s)
    OBVIOUS
  <2>1. SignInTyped
    BY PortalSignIns DEF SignInKept
  <2>2. ASSUME NEW u \in Tabs, SignInSteps(u)  PROVE EndsOwn(t, s)
    <3>1. (SaveRefreshed(u) \/ DropSession(u)) /\ EndsOwn(u, s)
      BY <2>1, <2>2, CacheWrites DEF SignInKept
    <3>2. t = u
      BY <2>1, <3>1, OneTabServed
    <3> QED  BY <3>1, <3>2
  <2>3. ~AuthTime
    BY DEF AuthTime, TokenExpires, SessionLapses, CookieLapses, requestVars
  <2>4. ~UNCHANGED <<requestVars, sessionVars>> /\ ~UNCHANGED portalVars
    BY DEF requestVars, portalVars, linkingVars
  <2>5. \A u \in Tabs : ~Serves(u)
    <3>1. cache' # cache \/ refreshes' # refreshes
      BY DEF Usable
    <3> QED  BY <3>1 DEF Serves, sessionVars, configVars
  <2> QED  BY <2>2, <2>3, <2>4, <2>5, PortalParts
<1>2. PortalSpec => [][Ends]_authVars
  BY <1>1, PortalShapeInvariant, SignInInvariant, PTL DEF PortalSpec
<1> QED  BY <1>2 DEF OnlySignOutEnds, Ends, EndsOwn

\* In the whole portal, too, the handler of a gated page runs only when mural-mcp had
\* the link when it answered the gate: authentication lets a request in to the gate
\* and never past it (mural-connection.js:41-47, auth.js:226-259).
THEOREM PortalPagesAreGuarded == PortalSpec => GateFailsClosed
<1> DEFINE Guarded == \A t \in Tabs : pc[t] = "gate" /\ pc'[t] = "handler" => link # "none"
<1>1. PortalShape /\ SignInKept /\ [PortalNext]_portalVars => [Guarded]_linkingVars
  <2> SUFFICES ASSUME PortalShape, SignInKept, [PortalNext]_portalVars,
                      NEW t \in Tabs, pc[t] = "gate", pc'[t] = "handler"
               PROVE  link # "none"
    OBVIOUS
  <2>1. pc = [u \in Tabs |-> pc[u]]
    BY DEF PortalShape, PortalTypeOK
  <2>2. ASSUME NEW u \in Tabs, SignInSteps(u)  PROVE FALSE
    <3>1. u = t
      <4>1. \E x : pc' = [pc EXCEPT ![u] = x]
        <5>1. CASE AuthHandler(u) \/ ServeDashboard(u) \/ RefreshAnswered(u)
          BY <5>1, HandlersMove
        <5>2. CASE Respond(u) \/ Receive(u) \/ Lose(u) \/ \E r : Enter(u, r)
          BY <5>2 DEF Respond, Receive, Deliver, Lose, GiveUp, Enter, Load
        <5> QED  BY <2>2, <5>1, <5>2 DEF SignInSteps
      <4> QED  BY <2>1, <4>1
    <3> QED  BY <2>2, <3>1
      DEF SignInSteps, AuthHandler, ServeDashboard, RefreshAnswered, Authenticate, RefreshTimesOut,
          SaveRefreshed, ServeHome, StartLogin, VerifyLogin, StoreSession, SkipLogout,
          ResetSession, DropSession, Respond, Receive, Deliver, Lose, GiveUp
  <2>3. ASSUME NEW u \in Tabs, Serves(u)  PROVE link # "none"
    <3>1. u = t
      BY <2>1, <2>3, LinkingMoves
    <3>2. ~TurnsBack(t)
      BY <2>1 DEF TurnsBack, Redirect, Await
    <3> QED  BY <2>3, <3>1, <3>2 DEF Serves
  <2>4. ~UNCHANGED requestVars /\ ~AuthTime
    BY DEF AuthTime, TokenExpires, SessionLapses, CookieLapses, requestVars
  <2> QED  BY <2>2, <2>3, <2>4, PortalParts DEF portalVars, linkingVars
<1>2. PortalSpec => [][Guarded]_linkingVars
  BY <1>1, PortalShapeInvariant, SignInInvariant, PTL DEF PortalSpec
<1> QED  BY <1>2 DEF GateFailsClosed, Guarded
=============================================================================
