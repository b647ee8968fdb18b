---------------------------- MODULE MuralLinking ----------------------------
(***************************************************************************)
(* Connecting a Mural account: the linking page (pages/linking), the OAuth *)
(* callback (pages/linking/callback), the dashboard's connection card, and *)
(* two gated form pages that touch no session, from which the gate sends a *)
(* user here and to which a successful link sends the user back.           *)
(***************************************************************************)
EXTENDS MuralGate

CONSTANTS
  Visited,   \* bound: the routes the user opens of their own accord
  MaxFlash   \* bound: callbacks whose outcome no page has shown yet

ASSUME MaxFlashAssumption == MaxFlash \in Nat

linkingVars == <<requestVars, gateVars>>

LinkingRoutes == { "linking", "dashboard", "callback", "newToken", "newBoard" }

\* The callback's query: an authorization code, or error or no code at all.
LinkingRequests ==
  { LinkingPage, Page("dashboard"), Get("callback", "code"), Get("callback", "error"),
    Page("newToken"), Page("newBoard") }

-----------------------------------------------------------------------------
(* What mural-mcp can answer. *)

UrlReplies == Answers({Reply(200, "url")}, Failures)

TestFailures == Failures \cup { Reply(404, Null), Reply(502, Null) }

TestReplies ==
  Answers(IF link = "working" THEN {Reply(200, "success")}
          ELSE {Reply(401, Null), Reply(200, "unproven")}, TestFailures)

\* The code is exchanged and the link stored, or is stale and refused; when
\* the reply is lost or a 500, either may have happened.  No body is read.
CallbackFailures == { NetworkError, Reply(500, Null) }

CallbackReplies == { Reply(200, Null), Reply(400, Null) } \cup CallbackFailures

CallbackReply(reply, l) ==
  \/ reply = Reply(200, Null) /\ l = "working"
  \/ reply = Reply(400, Null) /\ l = link
  \/ reply \in CallbackFailures /\ upsets < MaxUpsets /\ l \in {link, "working"}

-----------------------------------------------------------------------------
(* The session keys of the linking flow. *)

FlashOutcome(s, outcome) == [s EXCEPT !.linkingOutcome = Append(@, outcome)]

\* request.yar.flash(key)[0]: all are taken, the first is used.
OldestOutcome(s) ==
  IF s.linkingOutcome = <<>> THEN "none" ELSE Head(s.linkingOutcome)

\* Mutant: yar.get for yar.flash, which does not clear.
TakeOutcomes_Get(s) == s

TakeOutcomes(s) == [s EXCEPT !.linkingOutcome = <<>>]

\* Mutant: the clearing is forgotten.
ClearRequired_Forgotten(s) == s

ClearRequired(s) == [s EXCEPT !.muralLinkRequired = Nowhere]

-----------------------------------------------------------------------------
(* GET /account/mural-linking, and GET /dashboard, which asks the same of  *)
(* mural-mcp and keeps nothing in the session.                             *)

StartLinkingPage(t) ==
  /\ pc[t] = "handler"
  /\ req[t].route = "linking"
  /\ Touch(t, TakeOutcomes(ses[t]))
  /\ Continue(t, "status", [BlankPage EXCEPT !.message = OldestOutcome(ses[t]),
                                             !.required = ses[t].muralLinkRequired])
  /\ HandlerFrame
  /\ UNCHANGED gateVars

StartDashboard(t) ==
  /\ pc[t] = "handler"
  /\ req[t].route = "dashboard"
  /\ Continue(t, "status", BlankPage)
  /\ NoTouch
  /\ HandlerFrame
  /\ UNCHANGED gateVars

Asked(t, status) == [page[t] EXCEPT !.status = status]

\* The status is an error or not linked, or the dashboard has all it needs.
StatusSettled(t, status) ==
  /\ IF status = "notLinked" THEN Continue(t, "url", Asked(t, status))
     ELSE Render(t, Asked(t, status))
  /\ status # "linked" \/ req[t].route = "dashboard"
  /\ NoTouch

\* if (required && linked): back to the page the user was stopped at.
ReturnFromPage(t, status) ==
  /\ status = "linked"
  /\ req[t].route = "linking"
  /\ page[t].required # Nowhere
  /\ Touch(t, ClearRequired(ses[t]))
  /\ Redirect(t, page[t].required)

GoOnToTest(t, status) ==
  /\ status = "linked"
  /\ req[t].route = "linking"
  /\ page[t].required = Nowhere
  /\ Continue(t, "test", Asked(t, status))
  /\ NoTouch

StatusAnswered(t) ==
  /\ pc[t] = "status"
  /\ \E reply \in Answers({StatusReply(link)}, Failures) :
       /\ Tally(reply, Failures)
       /\ \/ StatusSettled(t, LinkingStatus(reply))
          \/ ReturnFromPage(t, LinkingStatus(reply))
          \/ GoOnToTest(t, LinkingStatus(reply))
  /\ HandlerFrame
  /\ UNCHANGED link

\* Mutant: a page without a URL is shown all the same.
Offered_Regardless(p, url) == [p EXCEPT !.url = url]

\* The second request of getLinkingStatus: without a way to connect the page
\* has nothing to offer, so a failure here is a statusError too.
Offered(p, url) ==
  IF url = "none" THEN [p EXCEPT !.status = "statusError"] ELSE [p EXCEPT !.url = url]

UrlAnswered(t) ==
  /\ pc[t] = "url"
  /\ \E reply \in UrlReplies :
       /\ Tally(reply, Failures)
       /\ Render(t, Offered(page[t], AuthorizationUrl(reply)))
  /\ NoTouch
  /\ HandlerFrame
  /\ UNCHANGED link

\* verifyConnection; only a FAILED check asks for a URL to reconnect with.
TestAnswered(t) ==
  /\ pc[t] = "test"
  /\ \E reply \in TestReplies :
       LET check == VerifyConnection(reply)
           shown == [page[t] EXCEPT !.check = check]
       IN  /\ Tally(reply, TestFailures)
           /\ IF check.state = "failed" THEN Continue(t, "reconnect", shown)
              ELSE Render(t, shown)
  /\ NoTouch
  /\ HandlerFrame
  /\ UNCHANGED link

\* getAuthorizationUrl: fails soft, the page does without the URL.
ReconnectAnswered(t) ==
  /\ pc[t] = "reconnect"
  /\ \E reply \in UrlReplies :
       /\ Tally(reply, Failures)
       /\ Render(t, [page[t] EXCEPT !.url = AuthorizationUrl(reply)])
  /\ NoTouch
  /\ HandlerFrame
  /\ UNCHANGED link

-----------------------------------------------------------------------------
(* What the linking page shows of what it knows: steps 2 and 3 of its list, *)
(* and the one action it offers.                                            *)

ConnectionStep(p) ==
  IF p.status = "statusError" THEN "issue"
  ELSE IF p.status = "linked" THEN "linked" ELSE "not-checked"

CheckStep(p) ==
  IF p.status # "linked" THEN "not-checked"
  ELSE IF p.check.state = "verified" THEN "working"
  ELSE IF p.check.state = "failed" THEN "issue" ELSE "not-checked"

NeedsReconnect(p) == p.status = "linked" /\ p.check.state = "failed"

Offer(p) ==
  IF p.status = "statusError" THEN "check again"
  ELSE IF p.url = "none" THEN "none"
  ELSE IF NeedsReconnect(p) THEN "reconnect" ELSE "connect"

-----------------------------------------------------------------------------
(* The OAuth callback. *)

\* if (error || !code): the user cancelled.
CallbackCancelled(t) ==
  /\ pc[t] = "handler"
  /\ req[t] = Get("callback", "error")
  /\ Touch(t, FlashOutcome(ses[t], "cancelled"))
  /\ Redirect(t, LinkingPage)
  /\ HandlerFrame
  /\ UNCHANGED gateVars

CallbackExchanges(t) ==
  /\ pc[t] = "handler"
  /\ req[t] = Get("callback", "code")
  /\ Await(t, "complete")
  /\ NoTouch
  /\ HandlerFrame
  /\ UNCHANGED <<page, goto, gateVars>>

\* A success sends a user the gate had stopped straight back; every other
\* outcome, and a success nobody was waiting for, is flashed.
FinishCallback(t, outcome) ==
  LET required == ses[t].muralLinkRequired
  IN  IF outcome = "success" /\ required # Nowhere
      THEN Touch(t, ClearRequired(ses[t])) /\ Redirect(t, required)
      ELSE Touch(t, FlashOutcome(ses[t], outcome)) /\ Redirect(t, LinkingPage)

CallbackAnswered(t) ==
  /\ pc[t] = "complete"
  /\ \E reply \in CallbackReplies, l \in Links :
       /\ CallbackReply(reply, l)
       /\ link' = l
       /\ Tally(reply, CallbackFailures)
       /\ FinishCallback(t, CompleteLinking(reply))
  /\ HandlerFrame

-----------------------------------------------------------------------------

LinkingHandler(t) ==
  \/ StartLinkingPage(t)
  \/ StartDashboard(t)
  \/ StatusAnswered(t)
  \/ UrlAnswered(t)
  \/ TestAnswered(t)
  \/ ReconnectAnswered(t)
  \/ CallbackCancelled(t)
  \/ CallbackExchanges(t)
  \/ CallbackAnswered(t)
  \/ ServeForm(t)

\* What the user does; the bounds keep the flash finite and the pages few.
OpenLinking(t, r) ==
  /\ r.route \in Visited
  /\ Begin(t, r)
  /\ r.route = "callback" => Len(stored.linkingOutcome) < MaxFlash
  /\ UNCHANGED gateVars

LinkingUser(t) ==
  \/ \E r \in LinkingRequests : OpenLinking(t, r)
  \/ GiveUp(t) /\ UNCHANGED gateVars

\* What the portal, its network and the browser do by themselves.
LinkingPortal(t) ==
  \/ LinkingHandler(t)
  \/ Gate(t)
  \/ (Respond(t) \/ Deliver(t) \/ Follow(t, LinkingRoutes)) /\ UNCHANGED gateVars

LinkingNext ==
  \/ \E t \in Tabs : LinkingUser(t) \/ LinkingPortal(t)
  \/ \E l \in Links : LinkChanges(l)

LinkingInit == GateInit

\* Every request is served to its end: Node resumes a handler once its reply
\* is there, and undici gives a fetch up after its default timeouts.  Nothing
\* obliges the user, the network's losses or the account to act.
LinkingSpec ==
  /\ LinkingInit
  /\ [][LinkingNext]_linkingVars
  /\ \A t \in Tabs : WF_linkingVars(LinkingPortal(t))

-----------------------------------------------------------------------------
(* What a step did, for the properties and for the histories of the modules *)
(* that observe this one.                                                   *)

Leaves(t, label) == pc[t] = label /\ pc'[t] # label

\* The gate turned the tab away.
Refuses(t) == Leaves(t, "gate") /\ pc'[t] = "done"

\* A handler sent the tab back to where the gate had stopped the user.
SendsBack(t) ==
  pc[t] \in {"status", "complete"} /\ pc'[t] = "done" /\ goto'[t] \notin {Nowhere, LinkingPage}

-----------------------------------------------------------------------------
(* Properties. *)

LinkingSessions ==
  [ muralLinkRequired    : LinkingRequests \cup {Nowhere},
    linkingOutcome       : Seq(Outcomes),
    newPersonalToken     : {<<>>},
    revokedPersonalToken : {<<>>},
    boardRequest         : {"none"} ]

LinkingPages ==
  [ message  : Outcomes \cup {"none"},
    required : LinkingRequests \cup {Nowhere},
    status   : {"none", "linked", "notLinked", "statusError"},
    check    : [state : CheckStates \cup {"none"}, reason : FailureReasons],
    url      : {"none", "url"},
    secret   : {"none"},
    revoked  : {"none"},
    revocable : {{}},
    request  : {"none"} ]

LinkingPCs == { "rest", "gate", "handler", "status", "url", "test", "reconnect",
                "complete", "done", "sent", "redirected" }

\* Type invariant of the linking flow.
LinkingTypeOK ==
  /\ storage \in Storages
  /\ stored \in LinkingSessions
  /\ pc \in [Tabs -> LinkingPCs]
  /\ req \in [Tabs -> LinkingRequests \cup {Nowhere}]
  /\ ses \in [Tabs -> LinkingSessions]
  /\ dirty \in [Tabs -> BOOLEAN]
  /\ page \in [Tabs -> LinkingPages]
  /\ goto \in [Tabs -> LinkingRequests \cup {Nowhere}]
  /\ aborts \in 0..MaxAborts
  /\ link \in Links
  /\ upsets \in 0..MaxUpsets

-----------------------------------------------------------------------------

\* Safety: the handler of a gated page runs only when mural-mcp had the link
\* at the moment it answered the gate (mural-connection.js:41-47: a check that
\* fails is a user who is not connected).
GateFailsClosed ==
  [][\A t \in Tabs : pc[t] = "gate" /\ pc'[t] = "handler" => link # "none"]_linkingVars

\* Liveness: every request ends in a page, through however many redirects: the
\* gate and the linking page never send a user round between them
\* (mural-connection.js:54 against linking/controller.js:32).
RequestsEnd == \A t \in Tabs : pc[t] # "rest" ~> pc[t] = "rest"

=============================================================================
