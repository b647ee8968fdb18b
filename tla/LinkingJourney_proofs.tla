----------------------- MODULE LinkingJourney_proofs -----------------------
(***************************************************************************)
(* Proofs about what the linking flow tells its user, for every set of     *)
(* tabs and every bound; the last ones are of a user with one tab.         *)
(***************************************************************************)
EXTENDS LinkingJourney, LinkingStash, MuralLinking_proofs

-----------------------------------------------------------------------------
(* Observing MuralLinking changes nothing in it.  Of its own steps each     *)
(* history module tells its own story; they are proved about together here *)
(* because they rest on the same facts about MuralLinking.                 *)

LEMMA JourneyIsLinking == JourneySpec => LinkingSpec
<1>1. JourneyInit => LinkingInit
  BY DEF JourneyInit
<1>2. [JourneyNext]_journeyVars => [LinkingNext]_linkingVars
  BY DEF JourneyNext, journeyVars
<1> QED  BY <1>1, <1>2, PTL DEF JourneySpec, LinkingSpec

-----------------------------------------------------------------------------
(* What a page says while it is being made: each await of the handler      *)
(* knows what the replies before it have told, and what the replies told   *)
(* was so at some moment of the request's service.                         *)

Staged(label, p) ==
  /\ label \in {"rest", "redirected", "gate", "handler", "complete"} => p = BlankPage
  /\ label = "status" => p.status = "none"
  /\ label = "url" => p.status = "notLinked"
  /\ label \in {"test", "reconnect"} => p.status = "linked"
  /\ label \in {"status", "url", "test"} => p.check = NoCheck
  /\ label = "reconnect" => p.check.state = "failed"
  /\ p.url = "url" => /\ label \in {"done", "sent"}
                      /\ p.status = "notLinked" \/ (p.status = "linked" /\ p.check.state = "failed")
  /\ label \in {"done", "sent"} /\ p.status = "notLinked" => p.url = "url"

Grounded(p, links) ==
  /\ p.status = "linked" => links \cap {"working", "refused"} # {}
  /\ p.status = "notLinked" => "none" \in links
  /\ p.check.state = "verified" => "working" \in links
  /\ p.check.state = "failed" /\ p.check.reason # "mural_api_error" =>
       links \cap {"none", "refused"} # {}

PagesStaged == \A t \in Tabs : Staged(pc[t], page[t])

PagesGrounded ==
  \A t \in Tabs :
    /\ Staged(pc[t], page[t])
    /\ Grounded(page[t], seen[t])
    /\ pc[t] \notin {"rest", "redirected"} => link \in seen[t]

LEMMA PageFields ==
  ASSUME NEW p \in LinkingPages
  PROVE  /\ \A x : LET q == [p EXCEPT !.status = x]
                   IN  /\ q.status = x /\ q.check = p.check /\ q.url = p.url
                       /\ q.message = p.message /\ q.required = p.required
         /\ \A x : LET q == [p EXCEPT !.url = x]
                   IN  /\ q.status = p.status /\ q.check = p.check /\ q.url = x
                       /\ q.message = p.message /\ q.required = p.required
         /\ \A x : LET q == [p EXCEPT !.check = x]
                   IN  /\ q.status = p.status /\ q.check = x /\ q.url = p.url
                       /\ q.message = p.message /\ q.required = p.required
  BY DEF LinkingPages

LEMMA BlankFields ==
  /\ BlankPage.status = "none" /\ BlankPage.check = NoCheck /\ BlankPage.url = "none"
  /\ BlankPage.message = "none" /\ BlankPage.required = Nowhere
  /\ NoCheck.state = "none" /\ NoCheck.reason = "none"
  /\ \A m, r : LET q == [BlankPage EXCEPT !.message = m, !.required = r]
               IN  /\ q.status = "none" /\ q.check = NoCheck /\ q.url = "none"
                   /\ q.message = m /\ q.required = r
  BY DEF BlankPage, NoCheck, CheckResult

\* What each reply tells of the connection, which is l at that moment.
LEMMA RepliesTell ==
  ASSUME NEW l \in Links
  PROVE  /\ \A reply \in Failures \cup {StatusReply(l)} :
              /\ LinkingStatus(reply) = "linked" => l \in {"working", "refused"}
              /\ LinkingStatus(reply) = "notLinked" => l = "none"
         /\ \A reply \in TestFailures \cup (IF l = "working" THEN {Reply(200, "success")}
                                            ELSE {Reply(401, Null), Reply(200, "unproven")}) :
              /\ VerifyConnection(reply).state = "verified" => l = "working"
              /\ VerifyConnection(reply).state = "failed"
                   /\ VerifyConnection(reply).reason # "mural_api_error" => l \in {"none", "refused"}
  BY DEF Links, Failures, TestFailures, NetworkError, StatusReply, LinkingStatus, VerifyConnection,
         TestFailureReason, CheckResult, Request, Readable, ResponseOk, Reply, Null

LEMMA GroundedGrows ==
  ASSUME NEW p, NEW links, Grounded(p, links), NEW l
  PROVE  Grounded(p, links \cup {l})
  BY DEF Grounded

LEMMA BlankGrounded ==
  ASSUME NEW links
  PROVE  /\ Grounded(BlankPage, links)
         /\ \A label : label # "url" /\ label \notin {"test", "reconnect"} => Staged(label, BlankPage)
  BY BlankFields DEF Grounded, Staged

\* A handler adds to the page what its reply has told it.
LEMMA HandlersGround ==
  ASSUME LinkingTypeOK, NEW t \in Tabs, LinkingHandler(t), Staged(pc[t], page[t]),
         NEW links, Grounded(page[t], links), link \in links
  PROVE  Staged(pc'[t], page'[t]) /\ Grounded(page'[t], links)
<1>1. /\ pc \in [Tabs -> LinkingPCs] /\ page \in [Tabs -> LinkingPages]
      /\ page[t] \in LinkingPages /\ link \in Links
  BY DEF LinkingTypeOK
<1>2. \A label, p : Continue(t, label, p) => pc'[t] = label /\ page'[t] = p
  BY <1>1 DEF Continue, Await
<1>3. \A p : Render(t, p) => Continue(t, "done", p)
  BY DEF Render, Continue
<1>4. CASE StartLinkingPage(t)
  <2> DEFINE p == [BlankPage EXCEPT !.message = OldestOutcome(ses[t]),
                                    !.required = ses[t].muralLinkRequired]
  <2>1. page'[t] = p /\ pc'[t] = "status"
    BY <1>2, <1>4 DEF StartLinkingPage
  <2>2. p.status = "none" /\ p.check = NoCheck /\ p.url = "none"
    BY BlankFields
  <2> HIDE DEF p
  <2> QED  BY <2>1, <2>2, BlankFields DEF Staged, Grounded
<1>5. CASE StartDashboard(t) \/ ServeForm(t)
  BY <1>2, <1>3, <1>5, BlankGrounded DEF StartDashboard, ServeForm
<1>6. CASE StatusAnswered(t)
  <2>1. PICK reply \in Answers({StatusReply(link)}, Failures) :
          \/ StatusSettled(t, LinkingStatus(reply))
          \/ ReturnFromPage(t, LinkingStatus(reply))
          \/ GoOnToTest(t, LinkingStatus(reply))
    BY <1>6 DEF StatusAnswered
  <2> DEFINE status == LinkingStatus(reply)
  <2>2. /\ status \in {"linked", "notLinked", "statusError"}
        /\ status = "linked" => link \in {"working", "refused"}
        /\ status = "notLinked" => link = "none"
    BY <1>1, RepliesTell, StatusAnswers DEF Answers
  <2>3. pc[t] = "status"
    BY <1>6 DEF StatusAnswered
  <2> HIDE DEF status
  <2>4. /\ Asked(t, status).status = status /\ Asked(t, status).check = NoCheck
        /\ Asked(t, status).url # "url"
    BY <1>1, <2>3, PageFields DEF Asked, Staged
  <2>5. Grounded(Asked(t, status), links)
    BY <2>2, <2>4, BlankFields DEF Grounded
  <2>6. CASE StatusSettled(t, status)
    <3>1. /\ page'[t] = Asked(t, status)
          /\ pc'[t] = IF status = "notLinked" THEN "url" ELSE "done"
      BY <1>2, <1>3, <2>6 DEF StatusSettled
    <3> QED  BY <2>2, <2>4, <2>5, <3>1 DEF Staged
  <2>7. CASE ReturnFromPage(t, status)
    BY <1>1, <2>3, <2>7 DEF ReturnFromPage, Redirect, Await, Staged
  <2>8. CASE GoOnToTest(t, status)
    <3>1. page'[t] = Asked(t, status) /\ pc'[t] = "test" /\ status = "linked"
      BY <1>2, <2>8 DEF GoOnToTest
    <3> QED  BY <2>4, <2>5, <3>1 DEF Staged
  <2> QED  BY <2>1, <2>6, <2>7, <2>8 DEF status
<1>7. CASE UrlAnswered(t)
  <2>1. PICK url \in {"url", "none"} : Render(t, Offered(page[t], url))
    BY <1>7, UrlAnswers DEF UrlAnswered, UrlReplies, Answers
  <2>2. page'[t] = Offered(page[t], url) /\ pc'[t] = "done" /\ pc[t] = "url"
    BY <1>2, <1>3, <1>7, <2>1 DEF UrlAnswered
  <2>3. CASE url = "none"
    BY <1>1, <2>2, <2>3, PageFields DEF Offered, Staged, Grounded
  <2>4. CASE url = "url"
    BY <1>1, <2>2, <2>4, PageFields DEF Offered, Staged, Grounded
  <2> QED  BY <2>3, <2>4
<1>8. CASE TestAnswered(t)
  <2>1. PICK reply \in TestReplies :
          IF VerifyConnection(reply).state = "failed"
          THEN Continue(t, "reconnect", [page[t] EXCEPT !.check = VerifyConnection(reply)])
          ELSE Render(t, [page[t] EXCEPT !.check = VerifyConnection(reply)])
    BY <1>8 DEF TestAnswered
  <2> DEFINE check == VerifyConnection(reply)
  <2>2. /\ check.state = "verified" => link = "working"
        /\ check.state = "failed" /\ check.reason # "mural_api_error" => link \in {"none", "refused"}
    BY <1>1, RepliesTell DEF TestReplies, Answers
  <2>3. /\ page'[t] = [page[t] EXCEPT !.check = check]
        /\ pc'[t] = IF check.state = "failed" THEN "reconnect" ELSE "done"
    BY <1>2, <1>3, <2>1
  <2>4. pc[t] = "test"
    BY <1>8 DEF TestAnswered
  <2> HIDE DEF check
  <2>5. page'[t].status = "linked" /\ page'[t].check = check /\ page'[t].url # "url"
    BY <1>1, <2>3, <2>4, PageFields DEF Staged
  <2>6. Grounded(page'[t], links)
    BY <2>2, <2>4, <2>5 DEF Grounded, Staged
  <2> QED  BY <2>3, <2>5, <2>6 DEF Staged
<1>9. CASE ReconnectAnswered(t)
  <2>1. PICK url : Render(t, [page[t] EXCEPT !.url = url])
    BY <1>9 DEF ReconnectAnswered
  <2>2. page'[t] = [page[t] EXCEPT !.url = url] /\ pc'[t] = "done" /\ pc[t] = "reconnect"
    BY <1>2, <1>3, <1>9, <2>1 DEF ReconnectAnswered
  <2> QED  BY <1>1, <2>2, PageFields DEF Staged, Grounded
<1>10. CASE CallbackCancelled(t) \/ CallbackExchanges(t) \/ CallbackAnswered(t)
  <2>1. page' = page /\ pc'[t] \in {"complete", "done"} /\ pc[t] \in {"handler", "complete"}
    BY <1>1, <1>10
    DEF CallbackCancelled, CallbackExchanges, CallbackAnswered, FinishCallback, Redirect, Await
  <2> QED  BY <2>1, BlankGrounded DEF Staged
<1> QED  BY <1>4, <1>5, <1>6, <1>7, <1>8, <1>9, <1>10 DEF LinkingHandler

\* What a step of a tab does to its page.
LEMMA TabsGround ==
  ASSUME LinkingTypeOK, NEW t \in Tabs, LinkingUser(t) \/ LinkingPortal(t), Staged(pc[t], page[t]),
         NEW links, Grounded(page[t], links), pc[t] \notin {"rest", "redirected"} => link \in links
  PROVE  /\ Staged(pc'[t], page'[t]) /\ Grounded(page'[t], links)
         /\ pc'[t] \in {"rest", "redirected"} => page'[t] = BlankPage
<1>1. pc \in [Tabs -> LinkingPCs] /\ page \in [Tabs -> LinkingPages]
  BY DEF LinkingTypeOK
<1>2. CASE \E r \in LinkingRequests : Arrive(t, r) /\ pc[t] \in {"rest", "redirected"}
  <2>1. page' = page /\ pc'[t] \in {"gate", "handler"} /\ page[t] = BlankPage
    BY <1>1, <1>2, RequestsClosed DEF Arrive, Load, Staged
  <2> QED  BY <2>1, BlankGrounded
<1>3. CASE GiveUp(t) \/ Deliver(t)
  <2>1. page'[t] = BlankPage /\ pc'[t] \in {"rest", "redirected"}
    BY <1>1, <1>3 DEF GiveUp, Deliver, Release
  <2> QED  BY <2>1, BlankGrounded
<1>4. CASE Respond(t)
  BY <1>1, <1>4 DEF Respond, Staged
<1>5. CASE LinkingHandler(t)
  <2>1. pc[t] \notin {"rest", "redirected"}
    BY <1>5 DEF LinkingHandler, StartLinkingPage, StartDashboard, StatusAnswered, UrlAnswered,
         TestAnswered, ReconnectAnswered, CallbackCancelled, CallbackExchanges, CallbackAnswered,
         ServeForm
  <2>2. pc'[t] \notin {"rest", "redirected"}
    BY <1>1, <1>5 DEF LinkingHandler, StartLinkingPage, StartDashboard, StatusAnswered,
         StatusSettled, ReturnFromPage, GoOnToTest, UrlAnswered,
         TestAnswered, ReconnectAnswered, CallbackCancelled, CallbackExchanges, CallbackAnswered,
         FinishCallback, ServeForm, Continue, Render, Redirect, Await
  <2> QED  BY <1>5, <2>1, <2>2, HandlersGround
<1>6. CASE Gate(t)
  <2>1. page' = page /\ pc'[t] \in {"handler", "done"} /\ page[t] = BlankPage
    BY <1>1, <1>6 DEF Gate, GatePasses, GateRefuses, Redirect, Await, Staged
  <2> QED  BY <2>1, BlankGrounded
<1>7. CASE Follow(t, LinkingRoutes)
  <2>1. goto[t] \in LinkingRequests
    BY <1>7, RequestsClosed DEF Follow, LinkingTypeOK
  <2> QED  BY <1>2, <1>7, <2>1 DEF Follow
<1> QED  BY <1>2, <1>3, <1>4, <1>5, <1>6, <1>7
  DEF LinkingUser, LinkingPortal, OpenLinking, Begin

\* A step of one tab leaves the requests and the pages of the others alone.
LEMMA OthersIdle ==
  ASSUME NEW t \in Tabs, LinkingUser(t) \/ LinkingPortal(t), NEW u \in Tabs, u # t, LinkingTypeOK
  PROVE  /\ pc'[u] = pc[u] /\ page'[u] = page[u]
         /\ req'[u] = req[u] /\ goto'[u] = goto[u]
<1> USE DEF LinkingTypeOK
<1>1. CASE LinkingUser(t)
  BY <1>1 DEF LinkingUser, OpenLinking, Begin, Arrive, Load, GiveUp, Release
<1>2. CASE LinkingHandler(t)
  BY <1>2 DEF LinkingHandler, StartLinkingPage, StartDashboard, StatusAnswered,
       StatusSettled, ReturnFromPage, GoOnToTest, UrlAnswered,
       TestAnswered, ReconnectAnswered, CallbackCancelled, CallbackExchanges, CallbackAnswered,
       FinishCallback, ServeForm, Continue, Render, Redirect, Await, HandlerFrame
<1>3. CASE Gate(t)
  BY <1>3 DEF Gate, GatePasses, GateRefuses, Redirect, Await, HandlerFrame
<1>4. CASE Respond(t) \/ Deliver(t) \/ Follow(t, LinkingRoutes)
  BY <1>4 DEF Respond, Deliver, Follow, Arrive, Load, Release
<1> QED  BY <1>1, <1>2, <1>3, <1>4 DEF LinkingPortal

LEMMA PagesStayGrounded ==
  ASSUME LinkingTypeOK, PagesGrounded, [JourneyNext]_journeyVars
  PROVE  PagesGrounded'
<1>1. CASE UNCHANGED journeyVars
  BY <1>1 DEF journeyVars, linkingVars, requestVars, gateVars, PagesGrounded
<1>2. CASE JourneyNext
  <2> SUFFICES ASSUME NEW u \in Tabs
               PROVE  /\ Staged(pc'[u], page'[u])
                      /\ Grounded(page'[u], seen'[u])
                      /\ pc'[u] \notin {"rest", "redirected"} => link' \in seen'[u]
    BY DEF PagesGrounded
  <2>1. seen'[u] = IF pc'[u] \in {"rest", "redirected"} THEN {} ELSE seen[u] \cup {link'}
    BY <1>2 DEF JourneyNext, Observe
  <2>2. /\ Staged(pc[u], page[u]) /\ Grounded(page[u], seen[u])
        /\ pc[u] \notin {"rest", "redirected"} => link \in seen[u]
    BY DEF PagesGrounded
  <2>3. /\ Staged(pc'[u], page'[u]) /\ Grounded(page'[u], seen[u])
        /\ pc'[u] \in {"rest", "redirected"} => page'[u] = BlankPage
    <3>1. CASE pc'[u] = pc[u] /\ page'[u] = page[u]
      BY <2>2, <3>1 DEF Staged
    <3>2. CASE LinkingUser(u) \/ LinkingPortal(u)
      BY <2>2, <3>2, TabsGround
    <3>3. ASSUME NEW t \in Tabs, LinkingUser(t) \/ LinkingPortal(t), t # u
          PROVE  pc'[u] = pc[u] /\ page'[u] = page[u]
      BY <3>3, OthersIdle
    <3>4. ASSUME NEW l \in Links, LinkChanges(l)  PROVE pc'[u] = pc[u] /\ page'[u] = page[u]
      BY <3>4 DEF LinkChanges, requestVars
    <3> QED  BY <1>2, <3>1, <3>2, <3>3, <3>4 DEF JourneyNext, LinkingNext
  <2>4. CASE pc'[u] \in {"rest", "redirected"}
    <3>1. seen'[u] = {} /\ page'[u] = BlankPage
      BY <2>1, <2>3, <2>4
    <3> QED  BY <2>3, <2>4, <3>1, BlankGrounded
  <2>5. CASE pc'[u] \notin {"rest", "redirected"}
    <3>1. seen'[u] = seen[u] \cup {link'}
      BY <2>1, <2>5
    <3>2. Grounded(page'[u], seen[u] \cup {link'})
      BY <2>3, GroundedGrows
    <3> QED  BY <2>3, <2>5, <3>1, <3>2
  <2> QED  BY <2>4, <2>5
<1> QED  BY <1>1, <1>2

LEMMA PagesGroundedInvariant == JourneySpec => []PagesGrounded
<1>1. JourneyInit => PagesGrounded
  <2>1. JourneyInit => \A t \in Tabs : pc[t] = "rest" /\ page[t] = BlankPage /\ seen[t] = {}
    BY DEF JourneyInit, LinkingInit, GateInit, RequestInit
  <2> QED  BY <2>1, BlankGrounded DEF PagesGrounded
<1>2. LinkingTypeOK /\ PagesGrounded /\ [JourneyNext]_journeyVars => PagesGrounded'
  BY PagesStayGrounded
<1> QED  BY <1>1, <1>2, JourneyIsLinking, LinkingTypeCorrect, PTL DEF JourneySpec

\* Whatever happens to the account while a page is being made, what the page says
\* of the connection was so at some moment of the request; "not working" too,
\* unless the page says with it that Mural is not responding.
THEOREM PagesAreTrue == JourneySpec => []PagesAreTruthful
<1>1. PagesGrounded => PagesAreTruthful
  <2> SUFFICES ASSUME PagesGrounded, NEW t \in Tabs
               PROVE  /\ ConnectionStep(page[t]) = "linked" => seen[t] \cap {"working", "refused"} # {}
                      /\ page[t].status = "notLinked" => "none" \in seen[t]
                      /\ CheckStep(page[t]) = "working" => "working" \in seen[t]
                      /\ CheckStep(page[t]) = "issue" /\ page[t].check.reason # "mural_api_error" =>
                           seen[t] \cap {"refused", "none"} # {}
    BY DEF PagesAreTruthful
  <2>1. Grounded(page[t], seen[t])
    BY DEF PagesGrounded
  <2>2. ConnectionStep(page[t]) = "linked" => page[t].status = "linked"
    BY DEF ConnectionStep
  <2>3. /\ CheckStep(page[t]) = "working" => page[t].check.state = "verified"
        /\ CheckStep(page[t]) = "issue" => page[t].check.state = "failed"
    BY DEF CheckStep
  <2> QED  BY <2>1, <2>2, <2>3 DEF Grounded
<1> QED  BY <1>1, PagesGroundedInvariant, PTL

\* The stages need no history: any reply could have told what the page says.
LEMMA PagesStagedInvariant == LinkingSpec => []PagesStaged
<1>1. LinkingInit => PagesStaged
  BY BlankGrounded DEF LinkingInit, GateInit, RequestInit, PagesStaged
<1>2. LinkingTypeOK /\ PagesStaged /\ [LinkingNext]_linkingVars => PagesStaged'
  <2> SUFFICES ASSUME LinkingTypeOK, PagesStaged, [LinkingNext]_linkingVars, NEW u \in Tabs
               PROVE  Staged(pc'[u], page'[u])
    BY DEF PagesStaged
  <2>1. Staged(pc[u], page[u]) /\ link \in Links
    BY DEF PagesStaged, LinkingTypeOK
  <2>2. Grounded(page[u], Links)
    BY DEF Grounded, Links
  <2>3. CASE pc'[u] = pc[u] /\ page'[u] = page[u]
    BY <2>1, <2>3
  <2>4. CASE LinkingUser(u) \/ LinkingPortal(u)
    BY <2>1, <2>2, <2>4, TabsGround
  <2>5. ASSUME NEW t \in Tabs, LinkingUser(t) \/ LinkingPortal(t), t # u
        PROVE  pc'[u] = pc[u] /\ page'[u] = page[u]
    BY <2>5, OthersIdle
  <2> QED  BY <2>3, <2>4, <2>5 DEF LinkingNext, LinkChanges, linkingVars, requestVars
<1> QED  BY <1>1, <1>2, LinkingTypeCorrect, PTL DEF LinkingSpec

-----------------------------------------------------------------------------
(* Which requests are in service where, and what the gate may have stashed. *)

Forms == {Page("newToken"), Page("newBoard")}

RequestsServed ==
  /\ stored.muralLinkRequired \in Forms \cup {Nowhere}
  /\ \A t \in Tabs :
       /\ ses[t].muralLinkRequired \in Forms \cup {Nowhere}
       /\ page[t].required \in Forms \cup {Nowhere}
       /\ goto[t] \in Forms \cup {Nowhere, LinkingPage}
       /\ goto[t] # Nowhere => pc[t] \in {"done", "sent", "redirected"}
       /\ pc[t] = "redirected" => goto[t] # Nowhere
       /\ pc[t] = "gate" => req[t] \in Forms
       /\ pc[t] = "complete" => req[t].route = "callback"
       /\ pc[t] \in {"status", "url", "test", "reconnect"} => req[t].route \in {"linking", "dashboard"}

\* What a handler or the gate does, as far as the session goes: it waits for the
\* next reply or shows its page, opens the linking page, sends the user back to
\* a stashed page, flashes an outcome, or turns the user away.
Waits(t) ==
  \E label, p :
    /\ Continue(t, label, p) /\ NoTouch /\ HandlerFrame
    /\ p.message = page[t].message /\ p.required = page[t].required
    /\ pc[t] \in {"gate", "handler", "status", "url", "test", "reconnect"}
    /\ label \in {"handler", "status", "url", "test", "reconnect", "complete", "done"}
    /\ label = "handler" <=> pc[t] = "gate"
    /\ label = "complete" => req[t].route = "callback"
    /\ label \in {"status", "url", "test", "reconnect"} => req[t].route \in {"linking", "dashboard"}
    /\ pc[t] = "handler" => req[t] # LinkingPage

Opens(t) == StartLinkingPage(t)

Sends(t) ==
  \E r \in Forms :
    /\ pc[t] \in {"status", "complete"}
    /\ r = IF pc[t] = "status" THEN page[t].required ELSE ses[t].muralLinkRequired
    /\ pc[t] = "status" => req[t] = LinkingPage
    /\ Touch(t, ClearRequired(ses[t])) /\ Redirect(t, r) /\ HandlerFrame

Flags(t) ==
  \E outcome \in Outcomes :
    /\ pc[t] \in {"handler", "complete"} /\ req[t].route = "callback"
    /\ Touch(t, FlashOutcome(ses[t], outcome)) /\ Redirect(t, LinkingPage) /\ HandlerFrame

TurnsAway(t) ==
  /\ pc[t] = "gate"
  /\ Touch(t, StashReturn(ses[t], req[t])) /\ Redirect(t, LinkingPage) /\ HandlerFrame

LEMMA FormsClosed ==
  /\ Forms \subseteq LinkingRequests
  /\ Nowhere \notin Forms /\ LinkingPage \notin Forms /\ Nowhere # LinkingPage
  /\ \A r \in Forms : AsGet(r) = r /\ r.route # "callback" /\ r.route \notin {"linking", "dashboard"}
  /\ \A r \in LinkingRequests : EntryPoint(r) = IF r \in Forms THEN "gate" ELSE "handler"
  /\ \A r \in LinkingRequests : r.route = "linking" <=> r = LinkingPage
  /\ LinkingPage.route = "linking" /\ LinkingPage \in LinkingRequests
  BY DEF Forms, LinkingRequests, Nowhere, LinkingPage, Page, Get, AsGet, EntryPoint, GatedRoutes

LEMMA HandlersWait ==
  ASSUME LinkingTypeOK, RequestsServed, PagesStaged, NEW t \in Tabs,
         LinkingHandler(t), pc[t] # "complete", ~StartLinkingPage(t), ~CallbackCancelled(t)
  PROVE  Waits(t) \/ Sends(t)
<1>1. /\ page \in [Tabs -> LinkingPages] /\ page[t] \in LinkingPages
      /\ Staged(pc[t], page[t])
  BY DEF LinkingTypeOK, PagesStaged
<1>2. \A p : Render(t, p) => Continue(t, "done", p)
  BY DEF Render, Continue
<1>3. /\ req[t] \in LinkingRequests \cup {Nowhere}
      /\ pc[t] \in {"status", "url", "test", "reconnect"} => req[t].route \in {"linking", "dashboard"}
  BY DEF LinkingTypeOK, RequestsServed
<1>4. CASE StartDashboard(t) \/ ServeForm(t)
  <2>1. pc[t] = "handler" /\ page[t] = BlankPage /\ req[t] # LinkingPage /\ NoTouch /\ HandlerFrame
    BY <1>1, <1>4, FormsClosed DEF StartDashboard, ServeForm, Staged
  <2>2. \/ Continue(t, "status", BlankPage) /\ req[t].route = "dashboard"
        \/ Continue(t, "done", BlankPage)
    BY <1>2, <1>4 DEF StartDashboard, ServeForm
  <2> QED  BY <2>1, <2>2 DEF Waits
<1>5. CASE CallbackExchanges(t)
  <2>1. Continue(t, "complete", page[t]) /\ NoTouch /\ HandlerFrame
    BY <1>1, <1>5 DEF CallbackExchanges, Continue
  <2>2. pc[t] = "handler" /\ req[t].route = "callback"
    BY <1>5 DEF CallbackExchanges, Get
  <2> QED  BY <2>1, <2>2, FormsClosed DEF Waits
<1>6. CASE StatusAnswered(t)
  <2>1. PICK status : StatusSettled(t, status) \/ ReturnFromPage(t, status) \/ GoOnToTest(t, status)
    BY <1>6 DEF StatusAnswered
  <2>2. pc[t] = "status" /\ HandlerFrame
    BY <1>6 DEF StatusAnswered
  <2>3. /\ Asked(t, status).message = page[t].message
        /\ Asked(t, status).required = page[t].required
    BY <1>1, PageFields DEF Asked
  <2>4. CASE StatusSettled(t, status)
    <3>1. NoTouch /\ \E label \in {"url", "done"} : Continue(t, label, Asked(t, status))
      BY <1>2, <2>4 DEF StatusSettled
    <3> QED  BY <1>3, <2>2, <2>3, <3>1 DEF Waits
  <2>5. CASE GoOnToTest(t, status)
    <3>1. NoTouch /\ Continue(t, "test", Asked(t, status))
      BY <2>5 DEF GoOnToTest
    <3> QED  BY <1>3, <2>2, <2>3, <3>1 DEF Waits
  <2>6. CASE ReturnFromPage(t, status)
    <3>1. page[t].required \in Forms /\ req[t] = LinkingPage
      <4>1. req[t].route = "linking" /\ page[t].required \in Forms
        BY <2>6 DEF ReturnFromPage, RequestsServed
      <4> QED  BY <1>3, <4>1, FormsClosed DEF Nowhere, Page, Get
    <3>2. Touch(t, ClearRequired(ses[t])) /\ Redirect(t, page[t].required)
      BY <2>6 DEF ReturnFromPage
    <3> QED  BY <2>2, <3>1, <3>2 DEF Sends
  <2> QED  BY <2>1, <2>4, <2>5, <2>6
<1>7. CASE UrlAnswered(t) \/ ReconnectAnswered(t)
  <2>1. PICK p : Continue(t, "done", p) /\ p.message = page[t].message /\ p.required = page[t].required
    <3>1. CASE UrlAnswered(t)
      <4>1. PICK url : Render(t, Offered(page[t], url))
        BY <3>1 DEF UrlAnswered
      <4> DEFINE p == Offered(page[t], url)
      <4>2. Continue(t, "done", p)
        BY <1>2, <4>1
      <4>3. p.message = page[t].message /\ p.required = page[t].required
        BY <1>1, PageFields DEF Offered
      <4> QED  BY <4>2, <4>3
    <3>2. CASE ReconnectAnswered(t)
      <4>1. PICK url : Render(t, [page[t] EXCEPT !.url = url])
        BY <3>2 DEF ReconnectAnswered
      <4> DEFINE p == [page[t] EXCEPT !.url = url]
      <4>2. Continue(t, "done", p)
        BY <1>2, <4>1
      <4>3. p.message = page[t].message /\ p.required = page[t].required
        BY <1>1, PageFields
      <4> QED  BY <4>2, <4>3
    <3> QED  BY <1>7, <3>1, <3>2
  <2>2. pc[t] \in {"url", "reconnect"} /\ NoTouch /\ HandlerFrame
    BY <1>7 DEF UrlAnswered, ReconnectAnswered
  <2> QED  BY <2>1, <2>2 DEF Waits
<1>8. CASE TestAnswered(t)
  <2>1. PICK check : \/ Continue(t, "reconnect", [page[t] EXCEPT !.check = check])
                     \/ Render(t, [page[t] EXCEPT !.check = check])
    BY <1>8 DEF TestAnswered
  <2>2. pc[t] = "test" /\ NoTouch /\ HandlerFrame
    BY <1>8 DEF TestAnswered
  <2> DEFINE p == [page[t] EXCEPT !.check = check]
  <2>3. p.message = page[t].message /\ p.required = page[t].required
    BY <1>1, PageFields
  <2>4. Continue(t, "reconnect", p) \/ Continue(t, "done", p)
    BY <1>2, <2>1
  <2> HIDE DEF p
  <2> QED  BY <1>3, <2>2, <2>3, <2>4 DEF Waits
<1> QED  BY <1>4, <1>5, <1>6, <1>7, <1>8 DEF LinkingHandler, CallbackAnswered

LEMMA CallbacksFinish ==
  ASSUME LinkingTypeOK, RequestsServed, NEW t \in Tabs, CallbackCancelled(t) \/ CallbackAnswered(t)
  PROVE  Flags(t) \/ Sends(t)
<1>1. CASE CallbackCancelled(t)
  <2>1. req[t].route = "callback" /\ "cancelled" \in Outcomes
    BY <1>1 DEF CallbackCancelled, Get, Outcomes
  <2> QED  BY <1>1, <2>1 DEF CallbackCancelled, Flags
<1>2. CASE CallbackAnswered(t)
  <2>1. PICK outcome \in Outcomes : FinishCallback(t, outcome)
    BY <1>2, CallbackAnswers DEF CallbackAnswered
  <2>2. pc[t] = "complete" /\ req[t].route = "callback" /\ HandlerFrame
    BY <1>2 DEF CallbackAnswered, RequestsServed
  <2>3. ses[t].muralLinkRequired \in Forms \cup {Nowhere}
    BY DEF RequestsServed
  <2> QED  BY <2>1, <2>2, <2>3 DEF FinishCallback, Flags, Sends
<1> QED  BY <1>1, <1>2

LEMMA PortalWorks ==
  ASSUME LinkingTypeOK, RequestsServed, PagesStaged, NEW t \in Tabs,
         LinkingHandler(t) \/ Gate(t)
  PROVE  Waits(t) \/ Opens(t) \/ Sends(t) \/ Flags(t) \/ TurnsAway(t)
<1>1. CASE LinkingHandler(t)
  <2>1. pc[t] = "complete" => CallbackAnswered(t)
    BY <1>1 DEF LinkingHandler, StartLinkingPage, StartDashboard, StatusAnswered, UrlAnswered,
         TestAnswered, ReconnectAnswered, CallbackCancelled, CallbackExchanges, ServeForm
  <2> QED  BY <1>1, <2>1, HandlersWait, CallbacksFinish DEF Opens
<1>2. CASE GatePasses(t)
  <2>1. Continue(t, "handler", page[t]) /\ NoTouch /\ HandlerFrame /\ pc[t] = "gate"
    BY <1>2 DEF GatePasses, Continue, LinkingTypeOK
  <2> QED  BY <2>1 DEF Waits
<1>3. CASE GateRefuses(t)
  BY <1>3 DEF GateRefuses, TurnsAway
<1> QED  BY <1>1, <1>2, <1>3 DEF Gate

LEMMA ServedThroughLife ==
  ASSUME LinkingTypeOK, RequestsServed, NEW t \in Tabs,
         \/ pc[t] \in {"rest", "redirected"} /\ \E r \in LinkingRequests : Arrive(t, r)
         \/ Respond(t) \/ Deliver(t) \/ GiveUp(t)
  PROVE  RequestsServed'
<1>1. EmptySession.muralLinkRequired = Nowhere
  BY DEF EmptySession
<1>2. CASE pc[t] \in {"rest", "redirected"} /\ \E r \in LinkingRequests : Arrive(t, r)
  BY <1>2, FormsClosed DEF RequestsServed, LinkingTypeOK, Arrive, Load
<1>3. CASE Respond(t)
  BY <1>3 DEF RequestsServed, LinkingTypeOK, Respond, Commit
<1>4. CASE Deliver(t)
  BY <1>1, <1>4, BlankFields DEF RequestsServed, LinkingTypeOK, Deliver, Commit, Release
<1>5. CASE GiveUp(t)
  BY <1>1, <1>5, BlankFields DEF RequestsServed, LinkingTypeOK, GiveUp, Release
<1> QED  BY <1>2, <1>3, <1>4, <1>5

LEMMA ServedThroughWork ==
  ASSUME LinkingTypeOK, RequestsServed, NEW t \in Tabs,
         Waits(t) \/ Opens(t) \/ Sends(t) \/ Flags(t) \/ TurnsAway(t)
  PROVE  RequestsServed'
<1> USE DEF HandlerFrame
<1>1. /\ pc \in [Tabs -> LinkingPCs] /\ page \in [Tabs -> LinkingPages]
      /\ ses \in [Tabs -> LinkingSessions] /\ ses[t] \in LinkingSessions
      /\ goto \in [Tabs -> LinkingRequests \cup {Nowhere}]
      /\ ses[t].muralLinkRequired \in Forms \cup {Nowhere}
      /\ page[t].required \in Forms \cup {Nowhere}
  BY DEF LinkingTypeOK, RequestsServed
<1>2. CASE Waits(t)
  <2>1. PICK label, p :
          /\ Continue(t, label, p) /\ NoTouch /\ HandlerFrame
          /\ p.required = page[t].required
          /\ pc[t] \in {"gate", "handler", "status", "url", "test", "reconnect"}
          /\ label \in {"handler", "status", "url", "test", "reconnect", "complete", "done"}
          /\ label = "complete" => req[t].route = "callback"
          /\ label \in {"status", "url", "test", "reconnect"} => req[t].route \in {"linking", "dashboard"}
    BY <1>2 DEF Waits
  <2>2. /\ pc' = [pc EXCEPT ![t] = label] /\ page' = [page EXCEPT ![t] = p]
        /\ UNCHANGED <<goto, ses, stored, req>>
    BY <2>1 DEF Continue, Await, NoTouch
  <2> QED  BY <1>1, <2>1, <2>2 DEF RequestsServed
<1>3. CASE Opens(t)
  <2> DEFINE p == [BlankPage EXCEPT !.message = OldestOutcome(ses[t]),
                                    !.required = ses[t].muralLinkRequired]
  <2>1. /\ pc' = [pc EXCEPT ![t] = "status"] /\ page' = [page EXCEPT ![t] = p]
        /\ ses' = [ses EXCEPT ![t] = TakeOutcomes(ses[t])]
        /\ UNCHANGED <<goto, stored, req>> /\ pc[t] = "handler" /\ req[t].route = "linking"
    BY <1>3 DEF Opens, StartLinkingPage, Continue, Await, Touch
  <2>2. p.required = ses[t].muralLinkRequired
    BY BlankFields
  <2>3. TakeOutcomes(ses[t]).muralLinkRequired = ses[t].muralLinkRequired
    BY <1>1, StashKept
  <2> HIDE DEF p
  <2> QED  BY <1>1, <2>1, <2>2, <2>3 DEF RequestsServed
<1>4. CASE Sends(t) \/ Flags(t) \/ TurnsAway(t)
  <2>1. PICK s, r :
          /\ Touch(t, s) /\ Redirect(t, r)
          /\ s.muralLinkRequired \in Forms \cup {Nowhere}
          /\ r \in Forms \cup {LinkingPage}
    <3>1. CASE Sends(t)
      BY <1>1, <3>1, StashKept DEF Sends
    <3>2. CASE Flags(t)
      BY <1>1, <3>2, StashKept DEF Flags
    <3>3. CASE TurnsAway(t)
      <4>1. req[t] \in Forms
        BY <3>3 DEF TurnsAway, RequestsServed
      <4> QED  BY <1>1, <3>3, <4>1, StashKept, FormsClosed DEF TurnsAway
    <3> QED  BY <1>4, <3>1, <3>2, <3>3
  <2>2. /\ pc' = [pc EXCEPT ![t] = "done"] /\ ses' = [ses EXCEPT ![t] = s]
        /\ goto' = [goto EXCEPT ![t] = r] /\ UNCHANGED <<page, stored, req>>
    BY <1>4, <2>1 DEF Touch, Redirect, Await, Sends, Flags, TurnsAway
  <2> QED  BY <1>1, <2>1, <2>2 DEF RequestsServed
<1> QED  BY <1>2, <1>3, <1>4

\* What a tab may do in a step.
TabLives(t) ==
  \/ pc[t] \in {"rest", "redirected"}
     /\ \E r \in LinkingRequests : Arrive(t, r) /\ (pc[t] = "redirected" => r = goto[t])
  \/ Respond(t) \/ Deliver(t) \/ GiveUp(t)

TabWorks(t) == Waits(t) \/ Opens(t) \/ Sends(t) \/ Flags(t) \/ TurnsAway(t)

LEMMA TabsLiveOrWork ==
  ASSUME LinkingTypeOK, RequestsServed, PagesStaged, NEW t \in Tabs,
         LinkingUser(t) \/ LinkingPortal(t)
  PROVE  TabLives(t) \/ TabWorks(t)
<1>1. CASE LinkingUser(t)
  BY <1>1 DEF LinkingUser, OpenLinking, Begin, TabLives
<1>2. CASE LinkingHandler(t) \/ Gate(t)
  BY <1>2, PortalWorks DEF TabWorks
<1>3. CASE Follow(t, LinkingRoutes)
  <2>1. goto[t] \in LinkingRequests
    BY <1>3, RequestsClosed DEF Follow, LinkingTypeOK
  <2> QED  BY <1>3, <2>1 DEF Follow, TabLives
<1> QED  BY <1>1, <1>2, <1>3 DEF LinkingPortal, TabLives

LEMMA RequestsServedInvariant == LinkingSpec => []RequestsServed
<1>1. LinkingInit => RequestsServed
  <2>1. LinkingInit =>
          /\ stored = EmptySession
          /\ \A t \in Tabs : /\ pc[t] = "rest" /\ page[t] = BlankPage
                             /\ ses[t] = EmptySession /\ goto[t] = Nowhere
    BY DEF LinkingInit, GateInit, RequestInit
  <2>2. EmptySession.muralLinkRequired = Nowhere
    BY DEF EmptySession
  <2> QED  BY <2>1, <2>2, BlankFields DEF RequestsServed
<1>2. LinkingTypeOK /\ PagesStaged /\ RequestsServed /\ [LinkingNext]_linkingVars => RequestsServed'
  <2> SUFFICES ASSUME LinkingTypeOK, PagesStaged, RequestsServed, [LinkingNext]_linkingVars
               PROVE  RequestsServed'
    OBVIOUS
  <2>1. ASSUME UNCHANGED requestVars  PROVE RequestsServed'
    BY <2>1 DEF requestVars, RequestsServed
  <2>2. ASSUME NEW t \in Tabs, LinkingUser(t) \/ LinkingPortal(t)  PROVE RequestsServed'
    BY <2>2, TabsLiveOrWork, ServedThroughLife, ServedThroughWork DEF TabLives, TabWorks
  <2> QED  BY <2>1, <2>2 DEF LinkingNext, LinkChanges, linkingVars
<1> QED  BY <1>1, <1>2, PagesStagedInvariant, LinkingTypeCorrect, PTL DEF LinkingSpec

-----------------------------------------------------------------------------
(* What the linking page offers.  Staged says which page comes with a URL; *)
(* why a page comes without one is known when its last call is answered.   *)

\* A linking page made without a URL is of an account that is linked, or could
\* not be asked about; with a failed check, the call for the URL has failed.
WithoutUrl(t) ==
  Answered(t, "linking") =>
    /\ page[t].status # "none"
    /\ page[t].check.state = "failed" /\ page[t].url = "none" => failed[t]

\* The replies that have a page do without its URL are the failures.
LEMMA UrlReplyTold ==
  ASSUME NEW reply \in UrlReplies, AuthorizationUrl(reply) # "url"
  PROVE  reply \in Failures
  BY DEF UrlReplies, Answers, AuthorizationUrl, Readable, Request, ResponseOk, Reply, Null

LEMMA WorkedWithoutUrl ==
  ASSUME LinkingTypeOK, PagesStaged, RequestsServed, NEW t \in Tabs, LinkingHandler(t) \/ Gate(t),
         pc'[t] # pc[t] => failed'[t] = (upsets' # upsets)
  PROVE  WithoutUrl(t)'
<1>1. /\ pc \in [Tabs -> LinkingPCs] /\ page \in [Tabs -> LinkingPages]
      /\ goto \in [Tabs -> LinkingRequests \cup {Nowhere}]
      /\ page[t] \in LinkingPages /\ Staged(pc[t], page[t]) /\ upsets \in Nat
  BY MaxUpsetsAssumption DEF LinkingTypeOK, PagesStaged
<1>2. /\ \A label, p : Continue(t, label, p) => pc'[t] = label /\ page'[t] = p
      /\ \A p : Render(t, p) => pc'[t] = "done" /\ page'[t] = p
      /\ \A r : Redirect(t, r) => pc'[t] = "done" /\ goto'[t] = r
  BY <1>1 DEF Continue, Render, Redirect, Await
<1>3. HandlerFrame => req'[t] = req[t]
  BY DEF HandlerFrame
<1>4. CASE StartLinkingPage(t) \/ StartDashboard(t) \/ CallbackExchanges(t) \/ GatePasses(t)
  <2>1. pc'[t] # "done"
    BY <1>1, <1>2, <1>4 DEF StartLinkingPage, StartDashboard, CallbackExchanges, GatePasses, Await
  <2> QED  BY <2>1 DEF WithoutUrl, Answered
<1>5. CASE GateRefuses(t) \/ CallbackCancelled(t) \/ CallbackAnswered(t)
  <2>1. goto'[t] # Nowhere
    <3>1. CASE GateRefuses(t) \/ CallbackCancelled(t)
      BY <1>2, <3>1, FormsClosed DEF GateRefuses, CallbackCancelled
    <3>2. CASE CallbackAnswered(t)
      BY <1>2, <3>2, FormsClosed DEF CallbackAnswered, FinishCallback
    <3> QED  BY <1>5, <3>1, <3>2
  <2> QED  BY <2>1 DEF WithoutUrl, Answered
<1>6. CASE ServeForm(t)
  <2>1. req'[t].route # "linking"
    BY <1>3, <1>6 DEF ServeForm
  <2> QED  BY <2>1 DEF WithoutUrl, Answered
<1>7. CASE StatusAnswered(t)
  <2>1. PICK reply \in Answers({StatusReply(link)}, Failures) :
          \/ StatusSettled(t, LinkingStatus(reply))
          \/ ReturnFromPage(t, LinkingStatus(reply))
          \/ GoOnToTest(t, LinkingStatus(reply))
    BY <1>7 DEF StatusAnswered
  <2> DEFINE status == LinkingStatus(reply)
  <2>2. status \in {"linked", "notLinked", "statusError"} /\ pc[t] = "status" /\ HandlerFrame
    BY <1>7, <2>1, StatusAnswers DEF StatusAnswered, Answers, LinkingTypeOK
  <2> HIDE DEF status
  <2>3. CASE ReturnFromPage(t, status)
    BY <1>2, <2>3 DEF ReturnFromPage, WithoutUrl, Answered
  <2>4. CASE GoOnToTest(t, status)
    BY <1>2, <2>4 DEF GoOnToTest, WithoutUrl, Answered
  <2>5. CASE StatusSettled(t, status)
    <3>1. page'[t] = Asked(t, status)
      BY <1>2, <2>5 DEF StatusSettled
    <3>2. page'[t].status = status /\ page'[t].check = NoCheck
      BY <1>1, <2>2, <3>1, PageFields DEF Asked, Staged
    <3> QED  BY <2>2, <3>2, BlankFields DEF WithoutUrl, Answered
  <2> QED  BY <2>1, <2>3, <2>4, <2>5 DEF status
<1>8. CASE UrlAnswered(t)
  <2>1. PICK url \in {"url", "none"} : page'[t] = Offered(page[t], url)
    BY <1>2, <1>8, UrlAnswers DEF UrlAnswered, UrlReplies, Answers
  <2>2. Staged("url", page[t])
    BY <1>1, <1>8 DEF UrlAnswered
  <2>3. page'[t].status \in {"notLinked", "statusError"} /\ page'[t].check = NoCheck
    BY <1>1, <2>1, <2>2, PageFields DEF Offered, Staged
  <2> QED  BY <2>3, BlankFields DEF WithoutUrl, Answered
<1>9. CASE TestAnswered(t)
  <2>1. PICK check : LET shown == [page[t] EXCEPT !.check = check]
                     IN  IF check.state = "failed" THEN Continue(t, "reconnect", shown)
                         ELSE Render(t, shown)
    BY <1>9 DEF TestAnswered
  <2>2. Staged("test", page[t])
    BY <1>1, <1>9 DEF TestAnswered
  <2>3. CASE check.state = "failed"
    BY <1>2, <2>1, <2>3 DEF WithoutUrl, Answered
  <2>4. CASE check.state # "failed"
    <3>1. page'[t] = [page[t] EXCEPT !.check = check]
      BY <1>2, <2>1, <2>4
    <3>2. page'[t].status = "linked" /\ page'[t].check = check
      BY <1>1, <2>2, <3>1, PageFields DEF Staged
    <3> QED  BY <2>4, <3>2 DEF WithoutUrl, Answered
  <2> QED  BY <2>3, <2>4
<1>10. CASE ReconnectAnswered(t)
  <2>1. PICK reply \in UrlReplies :
          /\ Tally(reply, Failures)
          /\ Render(t, [page[t] EXCEPT !.url = AuthorizationUrl(reply)])
    BY <1>10 DEF ReconnectAnswered
  <2>2. Staged("reconnect", page[t]) /\ pc[t] = "reconnect"
    BY <1>1, <1>10 DEF ReconnectAnswered
  <2>3. page'[t] = [page[t] EXCEPT !.url = AuthorizationUrl(reply)] /\ pc'[t] = "done"
    BY <1>2, <2>1
  <2>4. page'[t].status = "linked" /\ page'[t].url = AuthorizationUrl(reply)
    BY <1>1, <2>2, <2>3, PageFields DEF Staged
  <2>5. page'[t].url = "none" => failed'[t]
    <3>1. page'[t].url = "none" => reply \in Failures
      BY <2>4, UrlReplyTold
    <3>2. reply \in Failures => upsets' # upsets
      BY <1>1, <2>1 DEF Tally
    <3> QED  BY <2>2, <2>3, <3>1, <3>2
  <2> QED  BY <2>4, <2>5 DEF WithoutUrl, Answered
<1> QED  BY <1>4, <1>5, <1>6, <1>7, <1>8, <1>9, <1>10 DEF LinkingHandler, Gate

LEMMA WithoutUrlInvariant == JourneySpec => [](\A t \in Tabs : WithoutUrl(t))
<1>1. JourneyInit => \A t \in Tabs : WithoutUrl(t)
  BY DEF JourneyInit, LinkingInit, GateInit, RequestInit, WithoutUrl, Answered
<1>2. /\ LinkingTypeOK /\ PagesStaged /\ RequestsServed
      /\ (\A t \in Tabs : WithoutUrl(t)) /\ [JourneyNext]_journeyVars
      => (\A t \in Tabs : WithoutUrl(t))'
  <2> SUFFICES ASSUME LinkingTypeOK, PagesStaged, RequestsServed,
                      \A t \in Tabs : WithoutUrl(t), [JourneyNext]_journeyVars, NEW u \in Tabs
               PROVE  WithoutUrl(u)'
    OBVIOUS
  <2>1. CASE UNCHANGED journeyVars
    BY <2>1 DEF journeyVars, linkingVars, requestVars, WithoutUrl, Answered
  <2>2. CASE JourneyNext
    <3>1. failed'[u] = IF pc'[u] = pc[u] THEN failed[u] ELSE upsets' # upsets
      BY <2>2 DEF JourneyNext, Observe
    <3>2. ASSUME pc'[u] = pc[u], page'[u] = page[u], req'[u] = req[u], goto'[u] = goto[u]
          PROVE  WithoutUrl(u)'
      BY <3>1, <3>2 DEF WithoutUrl, Answered
    <3>3. ASSUME NEW l \in Links, LinkChanges(l)  PROVE WithoutUrl(u)'
      BY <3>2, <3>3 DEF LinkChanges, requestVars
    <3>4. ASSUME NEW t \in Tabs, t # u, LinkingUser(t) \/ LinkingPortal(t)
          PROVE  WithoutUrl(u)'
      BY <3>2, <3>4, OthersIdle
    <3>5. ASSUME TabLives(u)  PROVE WithoutUrl(u)'
      <4>1. pc'[u] # "done"
        BY <3>5 DEF TabLives, Arrive, Load, Respond, Deliver, GiveUp, Release, LinkingTypeOK,
             EntryPoint
      <4> QED  BY <4>1 DEF WithoutUrl, Answered
    <3>6. ASSUME LinkingUser(u) \/ LinkingPortal(u)  PROVE WithoutUrl(u)'
      <4>1. CASE LinkingHandler(u) \/ Gate(u)
        BY <3>1, <4>1, WorkedWithoutUrl
      <4>2. CASE ~(LinkingHandler(u) \/ Gate(u))
        <5>1. CASE LinkingUser(u)
          BY <3>5, <5>1 DEF LinkingUser, OpenLinking, Begin, TabLives
        <5>2. CASE Follow(u, LinkingRoutes)
          <6>1. goto[u] \in LinkingRequests
            BY <5>2, RequestsClosed DEF Follow, LinkingTypeOK
          <6> QED  BY <3>5, <5>2, <6>1 DEF Follow, TabLives
        <5> QED  BY <3>5, <3>6, <4>2, <5>1, <5>2 DEF LinkingPortal, TabLives
      <4> QED  BY <4>1, <4>2
    <3> QED  BY <2>2, <3>3, <3>4, <3>6 DEF JourneyNext, LinkingNext
  <2> QED  BY <2>1, <2>2
<1> QED  BY <1>1, <1>2, RequestsServedInvariant, PagesStagedInvariant, JourneyIsLinking,
             LinkingTypeCorrect, PTL DEF JourneySpec

\* The linking page asks exactly those it says are not connected to connect, and
\* only those whose check has failed to reconnect; it offers nothing only where
\* it says the account is linked, and beside a failed check only when the call
\* for the URL to reconnect with has itself failed.
THEOREM OffersFitTheStatus == JourneySpec => []OffersFit
<1>1. LinkingTypeOK /\ PagesStaged /\ (\A t \in Tabs : WithoutUrl(t)) => OffersFit
  <2> SUFFICES ASSUME LinkingTypeOK, PagesStaged, \A t \in Tabs : WithoutUrl(t),
                      NEW t \in Tabs, Answered(t, "linking")
               PROVE  /\ Offer(page[t]) = "connect" <=> page[t].status = "notLinked"
                      /\ Offer(page[t]) = "reconnect" => CheckStep(page[t]) = "issue"
                      /\ Offer(page[t]) = "none" =>
                           /\ ConnectionStep(page[t]) = "linked"
                           /\ CheckStep(page[t]) = "issue" => failed[t]
    BY DEF OffersFit
  <2>1. /\ page[t].url = "url" =>
             page[t].status = "notLinked" \/ (page[t].status = "linked" /\ page[t].check.state = "failed")
        /\ page[t].status = "notLinked" => page[t].url = "url"
    BY DEF PagesStaged, Staged, Answered
  <2>2. /\ page[t].status # "none"
        /\ page[t].check.state = "failed" /\ page[t].url = "none" => failed[t]
    BY DEF WithoutUrl
  <2>3. /\ page[t].url \in {"none", "url"}
        /\ page[t].status \in {"none", "linked", "notLinked", "statusError"}
    BY DEF LinkingTypeOK, LinkingPages
  <2> QED  BY <2>1, <2>2, <2>3 DEF Offer, NeedsReconnect, ConnectionStep, CheckStep
<1> QED  BY <1>1, WithoutUrlInvariant, PagesStagedInvariant, JourneyIsLinking,
             LinkingTypeCorrect, PTL

-----------------------------------------------------------------------------
(* A user with one tab.  Every request then loads the session its          *)
(* predecessor has left, unless the response that carried it is lost.      *)

OneTab == \E t : Tabs = {t}

\* The session as the user's last response leaves it.
Session(t) == IF pc[t] \in {"rest", "redirected"} THEN stored ELSE ses[t]

CopyCurrent(t) ==
  \/ pc[t] \in {"rest", "redirected"}
  \/ dirty[t] /\ ~(pc[t] = "sent" /\ storage = "server")
  \/ ses[t] = stored

\* What the linking page will tell a user the gate has sent there.
RefusalKept(t) ==
  /\ CopyCurrent(t)
  /\ cause[t] # Nowhere /\ pc[t] # "rest" => Session(t).muralLinkRequired = cause[t]
  /\ req[t] = LinkingPage /\ pc[t] \in {"status", "url", "test", "reconnect", "done", "sent"} =>
       IF goto[t] = Nowhere THEN page[t].required = ses[t].muralLinkRequired
       ELSE cause[t] = Nowhere

\* The stash is the page owed.
OwedStashed(t) == Session(t).muralLinkRequired = owed

\* An outcome is in the session only on the way from its callback to the page.
OutcomeFresh(t) ==
  /\ \/ Session(t).linkingOutcome = <<>>
     \/ /\ Session(t).linkingOutcome = <<latest>>
        /\ goto[t] = LinkingPage \/ (pc[t] = "handler" /\ req[t] = LinkingPage)
  /\ page[t].message \in {"none", latest}

LEMMA OneObserved ==
  ASSUME NEW t, Tabs = {t}, Observe
  PROVE  /\ latest' = IF Flashes(t) THEN Newest(ses'[t]) ELSE latest
         /\ owed' = IF Refuses(t) THEN AsGet(req[t])
                    ELSE IF SendsBack(t) THEN Nowhere ELSE owed
         /\ cause'[t] = IF Refuses(t) THEN AsGet(req[t])
                        ELSE IF Leaves(t, "rest") \/ SendsBack(t) THEN Nowhere ELSE cause[t]
<1>1. Flashes(t) => (CHOOSE u \in Tabs : Flashes(u)) = t
  OBVIOUS
<1>2. Refuses(t) => (CHOOSE u \in Tabs : Refuses(u)) = t
  OBVIOUS
<1>3. /\ (\E u \in Tabs : Flashes(u)) <=> Flashes(t)
      /\ (\E u \in Tabs : Refuses(u)) <=> Refuses(t)
      /\ (\E u \in Tabs : SendsBack(u)) <=> SendsBack(t)
  OBVIOUS
<1>4. latest' = IF Flashes(t) THEN Newest(ses'[t]) ELSE latest
  BY <1>1, <1>3 DEF Observe
<1>5. owed' = IF Refuses(t) THEN AsGet(req[t]) ELSE IF SendsBack(t) THEN Nowhere ELSE owed
  BY <1>2, <1>3 DEF Observe
<1>6. cause'[t] = IF Refuses(t) THEN AsGet(req[t])
                  ELSE IF Leaves(t, "rest") \/ SendsBack(t) THEN Nowhere ELSE cause[t]
  BY DEF Observe
<1> QED  BY <1>4, <1>5, <1>6

\* Which of the tab's steps the histories record.
LEMMA LifeUnobserved ==
  ASSUME LinkingTypeOK, NEW t \in Tabs, TabLives(t)
  PROVE  /\ ~Flashes(t) /\ ~Refuses(t) /\ ~SendsBack(t)
         /\ pc[t] = "rest" => Leaves(t, "rest")
<1>1. CASE \E r \in LinkingRequests : Arrive(t, r) /\ pc[t] \in {"rest", "redirected"}
  BY <1>1, RequestsClosed DEF LinkingTypeOK, Arrive, Load, Flashes, Refuses, SendsBack, Leaves
<1>2. CASE Respond(t) \/ Deliver(t) \/ GiveUp(t)
  BY <1>2 DEF LinkingTypeOK, Respond, Deliver, GiveUp, Flashes, Refuses, SendsBack, Leaves
<1> QED  BY <1>1, <1>2 DEF TabLives

LEMMA WorkObserved ==
  ASSUME LinkingTypeOK, RequestsServed, NEW t \in Tabs
  PROVE  /\ Waits(t) \/ Opens(t) => ~Flashes(t) /\ ~Refuses(t) /\ ~SendsBack(t)
         /\ Sends(t) => ~Flashes(t) /\ ~Refuses(t) /\ SendsBack(t)
         /\ Flags(t) => Flashes(t) /\ ~Refuses(t) /\ ~SendsBack(t)
         /\ TurnsAway(t) => ~Flashes(t) /\ Refuses(t) /\ ~SendsBack(t)
         /\ TabWorks(t) => ~Leaves(t, "rest") /\ pc[t] \notin {"rest", "done", "sent", "redirected"}
<1> USE FormsClosed DEF LinkingTypeOK, Flashes, Refuses, SendsBack, Leaves
<1>1. CASE Waits(t)
  <2>1. PICK label :
          /\ pc' = [pc EXCEPT ![t] = label] /\ goto' = goto
          /\ pc[t] \in {"gate", "handler", "status", "url", "test", "reconnect"}
          /\ label = "handler" <=> pc[t] = "gate"
    BY <1>1 DEF Waits, Continue, Await
  <2>2. goto'[t] = Nowhere
    BY <2>1 DEF RequestsServed
  <2>3. ~Flashes(t) /\ ~Refuses(t) /\ ~SendsBack(t)
    BY <2>1, <2>2
  <2> QED  BY <2>1, <2>3 DEF TabWorks, Opens, StartLinkingPage, Sends, Flags, TurnsAway, Touch,
           Redirect, Continue, Await
<1>2. CASE Opens(t)
  BY <1>2 DEF TabWorks, Waits, Opens, StartLinkingPage, Sends, Flags, TurnsAway, Touch,
     Redirect, Continue, Await
<1>3. Sends(t) => ~Flashes(t) /\ ~Refuses(t) /\ SendsBack(t)
  BY DEF Sends, Redirect, Await
<1>4. Flags(t) => Flashes(t) /\ ~Refuses(t) /\ ~SendsBack(t)
  BY DEF Flags, Redirect, Await
<1>5. TurnsAway(t) => ~Flashes(t) /\ Refuses(t) /\ ~SendsBack(t)
  BY DEF TurnsAway, Redirect, Await, RequestsServed
<1>6. TabWorks(t) => ~Leaves(t, "rest") /\ pc[t] \notin {"rest", "done", "sent", "redirected"}
  BY DEF TabWorks, Waits, Opens, StartLinkingPage, Sends, Flags, TurnsAway
<1> QED  BY <1>1, <1>2, <1>3, <1>4, <1>5, <1>6

LEMMA LifeKeepsSession ==
  ASSUME LinkingTypeOK, NEW t \in Tabs, CopyCurrent(t), TabLives(t)
  PROVE  /\ CopyCurrent(t)'
         /\ GiveUp(t) => pc'[t] = "rest"
         /\ ~GiveUp(t) \/ storage = "server" => Session(t)' = Session(t)
<1> USE DEF LinkingTypeOK, CopyCurrent, Session
<1>1. CASE \E r \in LinkingRequests : Arrive(t, r) /\ pc[t] \in {"rest", "redirected"}
  <2>1. pc'[t] \in {"gate", "handler"} /\ ses'[t] = stored /\ stored' = stored
    BY <1>1, RequestsClosed DEF Arrive, Load
  <2> QED  BY <1>1, <2>1 DEF GiveUp, Arrive, Load
<1>2. CASE Respond(t)
  BY <1>2 DEF Respond, Commit, GiveUp
<1>3. CASE Deliver(t)
  <2>1. pc'[t] \in {"rest", "redirected"} /\ pc[t] = "sent" /\ stored' = ses[t]
    BY <1>3, StoragesAssumption DEF Deliver, Commit
  <2> QED  BY <2>1 DEF GiveUp
<1>4. CASE GiveUp(t)
  BY <1>4 DEF GiveUp, Release
<1> QED  BY <1>1, <1>2, <1>3, <1>4 DEF TabLives

LEMMA WorkKeepsCopy ==
  ASSUME LinkingTypeOK, RequestsServed, NEW t \in Tabs, CopyCurrent(t), TabWorks(t)
  PROVE  CopyCurrent(t)' /\ Session(t) = ses[t] /\ Session(t)' = ses'[t]
<1> USE DEF LinkingTypeOK, CopyCurrent, Session
<1>1. pc[t] \notin {"rest", "done", "sent", "redirected"}
  BY WorkObserved
<1>2. pc'[t] \in {"handler", "status", "url", "test", "reconnect", "complete", "done"}
  BY DEF TabWorks, Waits, Opens, StartLinkingPage, Sends, Flags, TurnsAway, Redirect, Continue, Await
<1>3. stored' = stored /\ (dirty'[t] \/ (dirty' = dirty /\ ses' = ses))
  BY DEF TabWorks, Waits, Opens, StartLinkingPage, Sends, Flags, TurnsAway, Touch, NoTouch, HandlerFrame
<1> QED  BY <1>1, <1>2, <1>3

-----------------------------------------------------------------------------
(* Who has been refused is told, or sent back.                             *)

\* What a step of work does to the stash, the page and the redirect.
LEMMA WorkOnStash ==
  ASSUME LinkingTypeOK, RequestsServed, NEW t \in Tabs, TabWorks(t)
  PROVE  /\ req' = req
         /\ Waits(t) => /\ ses'[t] = ses[t] /\ goto'[t] = Nowhere /\ goto[t] = Nowhere
                        /\ page'[t].required = page[t].required
                        /\ pc'[t] \in {"status", "url", "test", "reconnect", "done", "sent"}
                             /\ req[t] = LinkingPage
                             => pc[t] \in {"status", "url", "test", "reconnect"}
         /\ Opens(t) => /\ ses'[t].muralLinkRequired = ses[t].muralLinkRequired
                        /\ goto'[t] = Nowhere
                        /\ page'[t].required = ses[t].muralLinkRequired
         /\ Sends(t) => /\ ses'[t].muralLinkRequired = Nowhere
                        /\ goto'[t] \in Forms
                        /\ goto'[t] = IF pc[t] = "status" THEN page[t].required
                                      ELSE ses[t].muralLinkRequired
                        /\ pc[t] = "status" => req[t] = LinkingPage
         /\ Flags(t) => /\ ses'[t].muralLinkRequired = ses[t].muralLinkRequired
                        /\ req[t] # LinkingPage
         /\ TurnsAway(t) => /\ ses'[t].muralLinkRequired = AsGet(req[t])
                            /\ req[t] # LinkingPage
<1>1. /\ page \in [Tabs -> LinkingPages] /\ ses \in [Tabs -> LinkingSessions]
      /\ ses[t] \in LinkingSessions /\ pc \in [Tabs -> LinkingPCs]
      /\ goto \in [Tabs -> LinkingRequests \cup {Nowhere}]
      /\ pc[t] \notin {"done", "sent", "redirected"} => goto[t] = Nowhere
      /\ pc[t] = "gate" => req[t] \in Forms
  BY DEF LinkingTypeOK, RequestsServed
<1>2. req' = req /\ pc[t] \notin {"rest", "done", "sent", "redirected"} /\ goto[t] = Nowhere
  <2>1. pc[t] \notin {"rest", "done", "sent", "redirected"}
    BY WorkObserved
  <2> QED  BY <1>1, <2>1 DEF TabWorks, Waits, Opens, StartLinkingPage, Sends, Flags, TurnsAway, HandlerFrame
<1>3. ASSUME Waits(t)
      PROVE  /\ ses'[t] = ses[t] /\ goto'[t] = Nowhere
             /\ page'[t].required = page[t].required
             /\ pc'[t] \in {"status", "url", "test", "reconnect", "done", "sent"}
                  /\ req[t] = LinkingPage
                  => pc[t] \in {"status", "url", "test", "reconnect"}
  BY <1>1, <1>2, <1>3 DEF Waits, Continue, Await, NoTouch
<1>4. ASSUME Opens(t)
      PROVE  /\ ses'[t].muralLinkRequired = ses[t].muralLinkRequired
             /\ goto'[t] = Nowhere
             /\ page'[t].required = ses[t].muralLinkRequired
  <2>1. page'[t] = [BlankPage EXCEPT !.message = OldestOutcome(ses[t]),
                                     !.required = ses[t].muralLinkRequired]
    BY <1>1, <1>4 DEF Opens, StartLinkingPage, Continue
  <2>2. ses'[t] = TakeOutcomes(ses[t]) /\ goto' = goto
    BY <1>1, <1>4 DEF Opens, StartLinkingPage, Continue, Touch
  <2> QED  BY <1>1, <1>2, <2>1, <2>2, BlankFields, StashKept
<1>5. ASSUME Sends(t)
      PROVE  /\ ses'[t].muralLinkRequired = Nowhere
             /\ goto'[t] \in Forms
             /\ goto'[t] = IF pc[t] = "status" THEN page[t].required ELSE ses[t].muralLinkRequired
             /\ pc[t] = "status" => req[t] = LinkingPage
  BY <1>1, <1>5, StashKept DEF Sends, Touch, Redirect
<1>6. ASSUME Flags(t)
      PROVE  ses'[t].muralLinkRequired = ses[t].muralLinkRequired /\ req[t] # LinkingPage
  BY <1>1, <1>6, StashKept, FormsClosed DEF Flags, Touch
<1>7. ASSUME TurnsAway(t)
      PROVE  ses'[t].muralLinkRequired = AsGet(req[t]) /\ req[t] # LinkingPage
  BY <1>1, <1>7, StashKept, FormsClosed DEF TurnsAway, Touch
<1> QED  BY <1>2, <1>3, <1>4, <1>5, <1>6, <1>7

LEMMA RefusalsStayKept ==
  ASSUME LinkingTypeOK, RequestsServed, NEW t, Tabs = {t}, RefusalKept(t), Observe,
         TabLives(t) \/ TabWorks(t)
  PROVE  RefusalKept(t)'
<1>1. t \in Tabs /\ CopyCurrent(t)
  BY DEF RefusalKept
<1>2. cause'[t] = IF Refuses(t) THEN AsGet(req[t])
                  ELSE IF Leaves(t, "rest") \/ SendsBack(t) THEN Nowhere ELSE cause[t]
  BY OneObserved
<1>3. CASE TabLives(t)
  <2>1. /\ CopyCurrent(t)'
        /\ GiveUp(t) => pc'[t] = "rest"
        /\ ~GiveUp(t) => Session(t)' = Session(t)
    BY <1>1, <1>3, LifeKeepsSession
  <2>2. cause'[t] = IF pc[t] = "rest" THEN Nowhere ELSE cause[t]
    BY <1>1, <1>2, <1>3, LifeUnobserved DEF Leaves
  <2>3. \/ pc'[t] \in {"rest", "redirected", "gate", "handler"}
        \/ /\ pc[t] = "done" /\ pc'[t] = "sent"
           /\ UNCHANGED <<req, ses, page, goto>>
    BY <1>1, <1>3, RequestsClosed
    DEF LinkingTypeOK, TabLives, Arrive, Load, Respond, Deliver, GiveUp
  <2>4. cause'[t] # Nowhere /\ pc'[t] # "rest" => Session(t)'.muralLinkRequired = cause'[t]
    BY <2>1, <2>2 DEF RefusalKept
  <2>5. req'[t] = LinkingPage /\ pc'[t] \in {"status", "url", "test", "reconnect", "done", "sent"} =>
          IF goto'[t] = Nowhere THEN page'[t].required = ses'[t].muralLinkRequired
          ELSE cause'[t] = Nowhere
    BY <2>2, <2>3 DEF RefusalKept
  <2> QED  BY <2>1, <2>4, <2>5 DEF RefusalKept
<1>4. CASE TabWorks(t)
  <2>1. CopyCurrent(t)' /\ Session(t) = ses[t] /\ Session(t)' = ses'[t]
    BY <1>1, <1>4, WorkKeepsCopy
  <2>2. /\ ~Leaves(t, "rest") /\ pc[t] # "rest"
        /\ Waits(t) \/ Opens(t) \/ Flags(t) => cause'[t] = cause[t]
        /\ Sends(t) => cause'[t] = Nowhere
        /\ TurnsAway(t) => cause'[t] = AsGet(req[t])
    BY <1>1, <1>2, <1>4, WorkObserved
  <2>3. cause'[t] # Nowhere /\ pc'[t] # "rest" => Session(t)'.muralLinkRequired = cause'[t]
    BY <1>1, <1>4, <2>1, <2>2, WorkOnStash DEF RefusalKept, TabWorks
  <2>4. req'[t] = LinkingPage /\ pc'[t] \in {"status", "url", "test", "reconnect", "done", "sent"} =>
          IF goto'[t] = Nowhere THEN page'[t].required = ses'[t].muralLinkRequired
          ELSE cause'[t] = Nowhere
    BY <1>1, <1>4, <2>2, WorkOnStash, FormsClosed DEF RefusalKept, TabWorks
  <2> QED  BY <2>1, <2>3, <2>4 DEF RefusalKept
<1> QED  BY <1>3, <1>4

\* What a step that no tab takes leaves alone.
LEMMA NobodyMoves ==
  ASSUME UNCHANGED requestVars, Observe
  PROVE  UNCHANGED <<latest, owed>> /\ \A t \in Tabs : cause'[t] = cause[t]
<1>1. \A t \in Tabs : ~Flashes(t) /\ ~Refuses(t) /\ ~SendsBack(t) /\ ~Leaves(t, "rest")
  BY DEF requestVars, Flashes, Refuses, SendsBack, Leaves
<1>2. latest' = latest /\ owed' = owed
  BY <1>1 DEF Observe
<1> QED  BY <1>1, <1>2 DEF Observe

LEMMA RefusalKeptInvariant ==
  ASSUME OneTab
  PROVE  JourneySpec => [](\A t \in Tabs : RefusalKept(t))
<1>1. JourneyInit => \A t \in Tabs : RefusalKept(t)
  BY FormsClosed
  DEF JourneyInit, LinkingInit, GateInit, RequestInit, RefusalKept, CopyCurrent
<1>2. /\ LinkingTypeOK /\ PagesStaged /\ RequestsServed /\ (\A t \in Tabs : RefusalKept(t))
      /\ [JourneyNext]_journeyVars
      => (\A t \in Tabs : RefusalKept(t))'
  <2> SUFFICES ASSUME LinkingTypeOK, PagesStaged, RequestsServed,
                      \A t \in Tabs : RefusalKept(t), [JourneyNext]_journeyVars, NEW t \in Tabs
               PROVE  RefusalKept(t)'
    OBVIOUS
  <2>1. Tabs = {t}
    BY DEF OneTab
  <2>2. ASSUME UNCHANGED requestVars, cause'[t] = cause[t]  PROVE RefusalKept(t)'
    BY <2>2 DEF requestVars, RefusalKept, CopyCurrent, Session
  <2>3. ASSUME Observe, NEW u \in Tabs, LinkingUser(u) \/ LinkingPortal(u)
        PROVE  RefusalKept(t)'
    <3>1. u = t
      BY <2>1
    <3>2. TabLives(t) \/ TabWorks(t)
      BY <2>3, <3>1, TabsLiveOrWork
    <3> QED  BY <2>1, <2>3, <3>2, RefusalsStayKept
  <2>4. ASSUME Observe, NEW l \in Links, LinkChanges(l)  PROVE RefusalKept(t)'
    BY <2>2, <2>4, NobodyMoves DEF LinkChanges
  <2> QED  BY <2>2, <2>3, <2>4 DEF JourneyNext, LinkingNext, journeyVars, linkingVars
<1> QED  BY <1>1, <1>2, RequestsServedInvariant, PagesStagedInvariant, JourneyIsLinking,
             LinkingTypeCorrect, PTL DEF JourneySpec

\* A user with one tab whom the gate has sent to the linking page is told there
\* what they were stopped from, or sent back to it, whatever response is lost.
THEOREM RefusalsAreExplained ==
  ASSUME OneTab
  PROVE  JourneySpec => []RefusalExplained
<1>1. (\A t \in Tabs : RefusalKept(t)) => RefusalExplained
  BY DEF RefusalKept, RefusalExplained, Session
<1> QED  BY <1>1, RefusalKeptInvariant, PTL

-----------------------------------------------------------------------------
(* The stash is used once: it is the page owed unless a response is lost   *)
(* on its way, which a session kept in the server's cache does not mind.   *)

NoStashLost == MaxAborts = 0 \/ "cookie" \notin Storages

LEMMA StashStaysOwed ==
  ASSUME LinkingTypeOK, RequestsServed, NEW t, Tabs = {t}, RefusalKept(t), Observe,
         TabLives(t) \/ TabWorks(t), NoStashLost, OwedStashed(t)
  PROVE  OwedStashed(t)'
<1>1. t \in Tabs /\ CopyCurrent(t)
  BY DEF RefusalKept
<1>2. owed' = IF Refuses(t) THEN AsGet(req[t]) ELSE IF SendsBack(t) THEN Nowhere ELSE owed
  BY OneObserved
<1>3. CASE TabLives(t)
  <2>1. owed' = owed
    BY <1>1, <1>2, <1>3, LifeUnobserved
  <2>2. ~GiveUp(t) \/ storage = "server"
    <3>1. GiveUp(t) => MaxAborts # 0
      BY DEF GiveUp, LinkingTypeOK
    <3>2. "cookie" \notin Storages => storage = "server"
      BY StoragesAssumption DEF LinkingTypeOK
    <3> QED  BY <3>1, <3>2 DEF NoStashLost
  <2>3. Session(t)' = Session(t)
    BY <1>1, <1>3, <2>2, LifeKeepsSession
  <2> QED  BY <2>1, <2>3 DEF OwedStashed
<1>4. CASE TabWorks(t)
  <2>1. Session(t) = ses[t] /\ Session(t)' = ses'[t]
    BY <1>1, <1>4, WorkKeepsCopy
  <2>2. /\ Waits(t) \/ Opens(t) \/ Flags(t) => owed' = owed
        /\ Sends(t) => owed' = Nowhere
        /\ TurnsAway(t) => owed' = AsGet(req[t])
    BY <1>1, <1>2, WorkObserved
  <2>3. ses'[t].muralLinkRequired = owed'
    BY <1>1, <1>4, <2>1, <2>2, WorkOnStash DEF OwedStashed, TabWorks
  <2> QED  BY <2>1, <2>3 DEF OwedStashed
<1> QED  BY <1>3, <1>4

LEMMA ReturnsUseTheStash ==
  ASSUME LinkingTypeOK, RequestsServed, PagesStaged, NEW t, Tabs = {t}, RefusalKept(t),
         OwedStashed(t), LinkingUser(t) \/ LinkingPortal(t), SendsBack(t)
  PROVE  goto'[t] = owed
<1>1. t \in Tabs
  OBVIOUS
<1>2. Sends(t)
  <2>1. TabLives(t) \/ TabWorks(t)
    BY <1>1, TabsLiveOrWork
  <2> QED  BY <1>1, <2>1, LifeUnobserved, WorkObserved DEF TabWorks
<1>3. Session(t) = ses[t] /\ goto[t] = Nowhere
  BY <1>1, <1>2 DEF Session, Sends, RequestsServed
<1>4. /\ goto'[t] = IF pc[t] = "status" THEN page[t].required ELSE ses[t].muralLinkRequired
      /\ pc[t] = "status" => req[t] = LinkingPage
  BY <1>1, <1>2, WorkOnStash DEF TabWorks
<1> QED  BY <1>3, <1>4 DEF RefusalKept, OwedStashed

\* A user with one tab is sent back once for each refusal, and to the page of
\* the last one.
THEOREM ReturnsAreOwed ==
  ASSUME OneTab, NoStashLost
  PROVE  JourneySpec => SentBackOnce
<1> DEFINE Owing == \A t \in Tabs : RefusalKept(t) /\ OwedStashed(t)
           Owed == \A t \in Tabs : SendsBack(t) => goto'[t] = owed
<1>1. JourneyInit => \A t \in Tabs : OwedStashed(t)
  <2>1. EmptySession.muralLinkRequired = Nowhere
    BY DEF EmptySession
  <2> QED  BY <2>1 DEF JourneyInit, LinkingInit, GateInit, RequestInit, OwedStashed, Session
<1>2. /\ LinkingTypeOK /\ PagesStaged /\ RequestsServed /\ (\A t \in Tabs : RefusalKept(t))
      /\ (\A t \in Tabs : OwedStashed(t)) /\ [JourneyNext]_journeyVars
      => (\A t \in Tabs : OwedStashed(t))' /\ [Owed]_journeyVars
  <2> SUFFICES ASSUME LinkingTypeOK, PagesStaged, RequestsServed,
                      \A t \in Tabs : RefusalKept(t),
                      \A t \in Tabs : OwedStashed(t), [JourneyNext]_journeyVars, NEW t \in Tabs
               PROVE  OwedStashed(t)' /\ (SendsBack(t) => goto'[t] = owed)
    OBVIOUS
  <2>1. Tabs = {t}
    BY DEF OneTab
  <2>2. ASSUME UNCHANGED <<requestVars, owed>>
        PROVE  OwedStashed(t)' /\ (SendsBack(t) => goto'[t] = owed)
    BY <2>2 DEF requestVars, OwedStashed, Session, SendsBack
  <2>3. ASSUME Observe, NEW u \in Tabs, LinkingUser(u) \/ LinkingPortal(u)
        PROVE  OwedStashed(t)' /\ (SendsBack(t) => goto'[t] = owed)
    <3>1. LinkingUser(t) \/ LinkingPortal(t)
      BY <2>1, <2>3
    <3>2. TabLives(t) \/ TabWorks(t)
      BY <3>1, TabsLiveOrWork
    <3>3. OwedStashed(t)'
      BY <2>1, <2>3, <3>2, StashStaysOwed
    <3>4. SendsBack(t) => goto'[t] = owed
      BY <2>1, <3>1, ReturnsUseTheStash
    <3> QED  BY <3>3, <3>4
  <2>4. ASSUME Observe, NEW l \in Links, LinkChanges(l)
        PROVE  OwedStashed(t)' /\ (SendsBack(t) => goto'[t] = owed)
    BY <2>2, <2>4, NobodyMoves DEF LinkChanges
  <2> QED  BY <2>2, <2>3, <2>4 DEF JourneyNext, LinkingNext, journeyVars, linkingVars
<1>3. JourneySpec => [][Owed]_journeyVars
  BY <1>1, <1>2, RefusalKeptInvariant, RequestsServedInvariant, PagesStagedInvariant,
     JourneyIsLinking, LinkingTypeCorrect, PTL DEF JourneySpec
<1> QED  BY <1>3 DEF SentBackOnce, Owed

-----------------------------------------------------------------------------
(* What the linking page tells of the last round trip.                     *)

LEMMA SessionOutcomes ==
  ASSUME NEW s \in LinkingSessions
  PROVE  /\ TakeOutcomes(s).linkingOutcome = <<>>
         /\ ClearRequired(s).linkingOutcome = s.linkingOutcome
         /\ \A r : StashReturn(s, r).linkingOutcome = s.linkingOutcome
         /\ \A o \in Outcomes :
              s.linkingOutcome = <<>> => /\ FlashOutcome(s, o).linkingOutcome = <<o>>
                                         /\ Newest(FlashOutcome(s, o)) = o
         /\ \A o : s.linkingOutcome = <<o>> => OldestOutcome(s) = o
         /\ s.linkingOutcome = <<>> => OldestOutcome(s) = "none"
<1>1. /\ TakeOutcomes(s).linkingOutcome = <<>>
      /\ ClearRequired(s).linkingOutcome = s.linkingOutcome
      /\ \A r : StashReturn(s, r).linkingOutcome = s.linkingOutcome
      /\ \A o : FlashOutcome(s, o).linkingOutcome = Append(s.linkingOutcome, o)
  BY DEF TakeOutcomes, ClearRequired, StashReturn, FlashOutcome, LinkingSessions
<1>2. ASSUME NEW o \in Outcomes, s.linkingOutcome = <<>>
      PROVE  FlashOutcome(s, o).linkingOutcome = <<o>> /\ Newest(FlashOutcome(s, o)) = o
  <2>1. FlashOutcome(s, o).linkingOutcome = <<o>>
    BY <1>1, <1>2
  <2> QED  BY <2>1 DEF Newest
<1>3. \A o : s.linkingOutcome = <<o>> => OldestOutcome(s) = o
  BY DEF OldestOutcome
<1>4. s.linkingOutcome = <<>> => OldestOutcome(s) = "none"
  BY DEF OldestOutcome
<1> QED  BY <1>1, <1>2, <1>3, <1>4

\* What a step of work does to the flashed outcomes and to the message.
LEMMA WorkOnOutcomes ==
  ASSUME LinkingTypeOK, RequestsServed, PagesStaged, NEW t \in Tabs, TabWorks(t)
  PROVE  /\ goto[t] = Nowhere
         /\ Waits(t) => /\ ses'[t] = ses[t] /\ page'[t].message = page[t].message
                        /\ ~(pc[t] = "handler" /\ req[t] = LinkingPage)
         /\ Opens(t) => /\ ses'[t].linkingOutcome = <<>>
                        /\ page'[t].message = OldestOutcome(ses[t])
         /\ Sends(t) \/ TurnsAway(t) =>
              /\ ses'[t].linkingOutcome = ses[t].linkingOutcome
              /\ page'[t].message = page[t].message /\ pc[t] # "handler"
         /\ Flags(t) => /\ \E o \in Outcomes : ses'[t] = FlashOutcome(ses[t], o)
                        /\ page'[t].message = "none" /\ req[t] # LinkingPage
                        /\ goto'[t] = LinkingPage
<1>1. /\ page \in [Tabs -> LinkingPages] /\ ses \in [Tabs -> LinkingSessions]
      /\ ses[t] \in LinkingSessions /\ goto \in [Tabs -> LinkingRequests \cup {Nowhere}]
  BY DEF LinkingTypeOK
<1>2. goto[t] = Nowhere
  BY WorkObserved DEF RequestsServed
<1>3. ASSUME Waits(t)
      PROVE  /\ ses'[t] = ses[t] /\ page'[t].message = page[t].message
             /\ ~(pc[t] = "handler" /\ req[t] = LinkingPage)
  BY <1>1, <1>3 DEF Waits, Continue, NoTouch
<1>4. ASSUME Opens(t)
      PROVE  /\ ses'[t].linkingOutcome = <<>>
             /\ page'[t].message = OldestOutcome(ses[t])
  <2>1. page'[t] = [BlankPage EXCEPT !.message = OldestOutcome(ses[t]),
                                     !.required = ses[t].muralLinkRequired]
    BY <1>1, <1>4 DEF Opens, StartLinkingPage, Continue
  <2>2. ses'[t] = TakeOutcomes(ses[t])
    BY <1>1, <1>4 DEF Opens, StartLinkingPage, Touch
  <2> QED  BY <1>1, <2>1, <2>2, BlankFields, SessionOutcomes
<1>5. ASSUME Sends(t) \/ TurnsAway(t)
      PROVE  /\ ses'[t].linkingOutcome = ses[t].linkingOutcome
             /\ page'[t].message = page[t].message /\ pc[t] # "handler"
  BY <1>1, <1>5, SessionOutcomes DEF Sends, TurnsAway, Touch, Redirect
<1>6. ASSUME Flags(t)
      PROVE  /\ \E o \in Outcomes : ses'[t] = FlashOutcome(ses[t], o)
             /\ page'[t].message = "none" /\ req[t] # LinkingPage /\ goto'[t] = LinkingPage
  <2>1. page' = page /\ page[t] = BlankPage
    BY <1>6 DEF Flags, Redirect, PagesStaged, Staged
  <2> QED  BY <1>1, <1>6, <2>1, BlankFields, FormsClosed DEF Flags, Touch, Redirect
<1> QED  BY <1>2, <1>3, <1>4, <1>5, <1>6

LEMMA OutcomesStayFresh ==
  ASSUME LinkingTypeOK, RequestsServed, PagesStaged, NEW t, Tabs = {t}, RefusalKept(t), Observe,
         TabLives(t) \/ TabWorks(t), MaxAborts = 0, OutcomeFresh(t)
  PROVE  OutcomeFresh(t)'
<1>1. t \in Tabs /\ CopyCurrent(t)
  BY DEF RefusalKept
<1>2. latest' = IF Flashes(t) THEN Newest(ses'[t]) ELSE latest
  BY OneObserved
<1>3. CASE TabLives(t)
  <2>1. latest' = latest
    BY <1>1, <1>2, <1>3, LifeUnobserved
  <2>2. ~GiveUp(t)
    BY DEF GiveUp, LinkingTypeOK
  <2>3. Session(t)' = Session(t)
    BY <1>1, <1>3, <2>2, LifeKeepsSession
  <2>4. page'[t].message \in {page[t].message, "none"}
    BY <1>1, <1>3, BlankFields
    DEF LinkingTypeOK, TabLives, Arrive, Load, Respond, Deliver, GiveUp, Release
  <2>5. /\ goto[t] = LinkingPage =>
             goto'[t] = LinkingPage \/ (pc'[t] = "handler" /\ req'[t] = LinkingPage)
        /\ pc[t] # "handler"
    <3>1. CASE \E r \in LinkingRequests : Arrive(t, r) /\ (pc[t] = "redirected" => r = goto[t])
      BY <1>1, <1>3, <3>1, FormsClosed
      DEF LinkingTypeOK, RequestsServed, TabLives, Arrive, Load, Respond, Deliver, GiveUp
    <3>2. CASE Respond(t) \/ Deliver(t)
      BY <3>2 DEF Respond, Deliver
    <3> QED  BY <1>3, <2>2, <3>1, <3>2 DEF TabLives
  <2> QED  BY <2>1, <2>3, <2>4, <2>5 DEF OutcomeFresh
<1>4. CASE TabWorks(t)
  <2>1. /\ Session(t) = ses[t] /\ Session(t)' = ses'[t] /\ ses[t] \in LinkingSessions
        /\ goto[t] = Nowhere /\ Nowhere # LinkingPage
    BY <1>1, <1>4, WorkKeepsCopy, WorkOnOutcomes, FormsClosed DEF LinkingTypeOK
  <2>2. ~Flags(t) => latest' = latest
    BY <1>1, <1>2, <1>4, WorkObserved DEF TabWorks
  <2>3. CASE Waits(t) \/ Sends(t) \/ TurnsAway(t)
    <3>1. ses[t].linkingOutcome = <<>>
      BY <1>1, <1>4, <2>1, <2>3, WorkOnOutcomes DEF OutcomeFresh
    <3>2. latest' = latest
      BY <1>1, <1>2, <2>3, WorkObserved
    <3>3. ses'[t].linkingOutcome = <<>> /\ page'[t].message = page[t].message
      BY <1>1, <1>4, <2>3, <3>1, WorkOnOutcomes
    <3> QED  BY <2>1, <3>2, <3>3 DEF OutcomeFresh
  <2>4. CASE Opens(t)
    <3>1. latest' = latest
      BY <1>1, <1>2, <2>4, WorkObserved
    <3>2. ses'[t].linkingOutcome = <<>> /\ page'[t].message = OldestOutcome(ses[t])
      BY <1>1, <1>4, <2>4, WorkOnOutcomes
    <3>3. OldestOutcome(ses[t]) \in {"none", latest}
      BY <2>1, SessionOutcomes DEF OutcomeFresh
    <3> QED  BY <2>1, <3>1, <3>2, <3>3 DEF OutcomeFresh
  <2>5. CASE Flags(t)
    <3>1. /\ ses[t].linkingOutcome = <<>> /\ page'[t].message = "none"
          /\ goto'[t] = LinkingPage
      BY <1>1, <1>4, <2>1, <2>5, WorkOnOutcomes DEF OutcomeFresh
    <3>2. PICK o \in Outcomes : ses'[t] = FlashOutcome(ses[t], o)
      BY <1>1, <1>4, <2>5, WorkOnOutcomes
    <3>3. ses'[t].linkingOutcome = <<o>> /\ Newest(ses'[t]) = o
      BY <2>1, <3>1, <3>2, SessionOutcomes
    <3>4. latest' = o
      BY <1>1, <1>2, <2>5, <3>3, WorkObserved
    <3> QED  BY <2>1, <3>1, <3>3, <3>4 DEF OutcomeFresh
  <2> QED  BY <1>4, <2>3, <2>4, <2>5 DEF TabWorks
<1> QED  BY <1>3, <1>4

\* A user with one tab, no response to whom is lost, is told on the linking page
\* the outcome of the round trip they have just made.
THEOREM LatestOutcomesAreShown ==
  ASSUME OneTab, MaxAborts = 0
  PROVE  JourneySpec => []LatestOutcomeShown
<1>1. JourneyInit => \A t \in Tabs : OutcomeFresh(t)
  <2>1. EmptySession.linkingOutcome = <<>>
    BY DEF EmptySession
  <2> QED  BY <2>1, BlankFields DEF JourneyInit, LinkingInit, GateInit, RequestInit, OutcomeFresh, Session
<1>2. /\ LinkingTypeOK /\ PagesStaged /\ RequestsServed /\ (\A t \in Tabs : RefusalKept(t))
      /\ (\A t \in Tabs : OutcomeFresh(t)) /\ [JourneyNext]_journeyVars
      => (\A t \in Tabs : OutcomeFresh(t))'
  <2> SUFFICES ASSUME LinkingTypeOK, PagesStaged, RequestsServed,
                      \A t \in Tabs : RefusalKept(t),
                      \A t \in Tabs : OutcomeFresh(t), [JourneyNext]_journeyVars, NEW t \in Tabs
               PROVE  OutcomeFresh(t)'
    OBVIOUS
  <2>1. Tabs = {t}
    BY DEF OneTab
  <2>2. ASSUME UNCHANGED <<requestVars, latest>>  PROVE OutcomeFresh(t)'
    BY <2>2 DEF requestVars, OutcomeFresh, Session
  <2>3. ASSUME Observe, NEW u \in Tabs, LinkingUser(u) \/ LinkingPortal(u)
        PROVE  OutcomeFresh(t)'
    <3>1. TabLives(t) \/ TabWorks(t)
      BY <2>1, <2>3, TabsLiveOrWork
    <3> QED  BY <2>1, <2>3, <3>1, OutcomesStayFresh
  <2>4. ASSUME Observe, NEW l \in Links, LinkChanges(l)  PROVE OutcomeFresh(t)'
    BY <2>2, <2>4, NobodyMoves DEF LinkChanges
  <2> QED  BY <2>2, <2>3, <2>4 DEF JourneyNext, LinkingNext, journeyVars, linkingVars
<1>3. (\A t \in Tabs : OutcomeFresh(t)) => LatestOutcomeShown
  BY DEF OutcomeFresh, LatestOutcomeShown
<1> QED  BY <1>1, <1>2, <1>3, RefusalKeptInvariant, RequestsServedInvariant, PagesStagedInvariant,
             JourneyIsLinking, LinkingTypeCorrect, PTL DEF JourneySpec

-----------------------------------------------------------------------------
(* The stash, when the requests of any number of tabs overlap.             *)

LEMMA StashIsLinking == StashSpec => LinkingSpec
<1>1. StashInit => LinkingInit
  BY DEF StashInit
<1>2. [StashNext]_stashVars => [LinkingNext]_linkingVars
  BY DEF StashNext, stashVars
<1> QED  BY <1>1, <1>2, PTL DEF StashSpec, LinkingSpec

\* Whatever is stashed, or a request may still write back or read, is
\* outstanding; a copy of the session about to be written back says what the
\* request has done to the stash.
TabOutstanding(t) ==
  /\ ses[t].muralLinkRequired \in outstanding \cup {Nowhere}
  /\ goto[t] = Nowhere => page[t].required \in outstanding \cup {Nowhere}
  /\ dirty[t] /\ MadeStash(t) => ses[t].muralLinkRequired = AsGet(req[t])
  /\ dirty[t] /\ UsedStash(t) => ses[t].muralLinkRequired = Nowhere

StashOutstanding ==
  /\ stored.muralLinkRequired \in outstanding \cup {Nowhere}
  /\ \A t \in Tabs : TabOutstanding(t)

\* The copies of the session the other tabs have are left alone.
LEMMA OthersKeepTheirCopy ==
  ASSUME LinkingTypeOK, NEW t \in Tabs, TabLives(t) \/ TabWorks(t), NEW u \in Tabs, u # t
  PROVE  /\ pc'[u] = pc[u] /\ req'[u] = req[u] /\ goto'[u] = goto[u] /\ page'[u] = page[u]
         /\ ses'[u] = ses[u] /\ dirty'[u] = dirty[u]
<1> USE DEF LinkingTypeOK
<1>1. CASE TabLives(t)
  BY <1>1 DEF TabLives, Arrive, Load, Respond, Deliver, GiveUp, Release
<1>2. CASE Waits(t) \/ Opens(t)
  BY <1>2 DEF Waits, Opens, StartLinkingPage, Continue, Await, Touch, NoTouch, HandlerFrame
<1>3. CASE Sends(t) \/ Flags(t) \/ TurnsAway(t)
  BY <1>3 DEF Sends, Flags, TurnsAway, Redirect, Await, Touch, HandlerFrame
<1> QED  BY <1>1, <1>2, <1>3 DEF TabWorks

\* While a request is served no refusal is settled, and a new one is added.
LEMMA WorkSettlesNothing ==
  ASSUME LinkingTypeOK, RequestsServed, NEW t \in Tabs, TabWorks(t), ObserveStash
  PROVE  /\ outstanding \subseteq outstanding'
         /\ TurnsAway(t) => AsGet(req[t]) \in outstanding'
<1>1. \A u \in Tabs : ~Settles(u)
  <2> SUFFICES ASSUME NEW u \in Tabs  PROVE ~Settles(u)
    OBVIOUS
  <2>1. CASE u = t
    BY <2>1, WorkObserved DEF Settles, Writes, Leaves
  <2>2. CASE u # t
    BY <2>2, OthersKeepTheirCopy DEF Settles, Writes, Leaves
  <2> QED  BY <2>1, <2>2
<1>2. outstanding' = outstanding \cup { AsGet(req[u]) : u \in {v \in Tabs : Refuses(v)} }
  BY <1>1 DEF ObserveStash
<1>3. TurnsAway(t) => Refuses(t)
  BY WorkObserved
<1> QED  BY <1>2, <1>3

\* When a response takes effect, what the other requests hold stays outstanding;
\* of what it carries itself, only a refusal it has made.
LEMMA LifeSettles ==
  ASSUME LinkingTypeOK, RequestsServed, NEW t \in Tabs, TabLives(t), ObserveStash
  PROVE  /\ ~Settles(t) => outstanding \subseteq outstanding'
         /\ Settles(t) => /\ Writes(t)
                          /\ MadeStash(t) => AsGet(req[t]) \in outstanding'
                          /\ MadeStash(t) \/ UsedStash(t)
                          /\ \A u \in Tabs : u # t => Holds(u) \subseteq outstanding'
<1>1. \A u \in Tabs : u # t => ~Settles(u)
  BY OthersKeepTheirCopy DEF Settles, Writes, Leaves
<1>2. CASE ~Settles(t)
  BY <1>1, <1>2 DEF ObserveStash
<1>3. CASE Settles(t)
  <2>1. outstanding' = UNION { IF ~Settles(u) THEN Holds(u)
                               ELSE IF MadeStash(u) THEN {AsGet(req[u])} ELSE {} : u \in Tabs }
    BY <1>3 DEF ObserveStash
  <2>2. \A u \in Tabs : u # t => Holds(u) \subseteq outstanding'
    BY <1>1, <2>1
  <2>3. MadeStash(t) => AsGet(req[t]) \in outstanding'
    BY <1>3, <2>1
  <2> QED  BY <1>3, <2>2, <2>3 DEF Settles
<1> QED  BY <1>2, <1>3

LEMMA LifeKeepsOutstanding ==
  ASSUME LinkingTypeOK, PagesStaged, RequestsServed, StashOutstanding, NEW t \in Tabs, TabLives(t),
         ObserveStash
  PROVE  StashOutstanding'
<1>1. /\ EmptySession.muralLinkRequired = Nowhere /\ BlankPage.required = Nowhere
      /\ TabOutstanding(t) /\ stored.muralLinkRequired \in outstanding \cup {Nowhere}
      /\ aborts \in Nat
  BY BlankFields, MaxAbortsAssumption DEF EmptySession, StashOutstanding, LinkingTypeOK
<1>2. stored' = IF Writes(t) THEN ses[t] ELSE stored
  <2> USE DEF LinkingTypeOK
  <2>1. CASE \E r \in LinkingRequests : Arrive(t, r) /\ pc[t] \in {"rest", "redirected"}
    BY <2>1 DEF Arrive, Load, Writes, Leaves
  <2>2. CASE Respond(t)
    BY <2>2 DEF Respond, Commit, Writes, Leaves
  <2>3. CASE Deliver(t)
    BY <2>3 DEF Deliver, Commit, Writes, Leaves
  <2>4. CASE GiveUp(t)
    BY <1>1, <2>4 DEF GiveUp, Writes, Leaves
  <2> QED  BY <2>1, <2>2, <2>3, <2>4 DEF TabLives
<1>3. /\ Settles(t) => ses[t].muralLinkRequired \in outstanding' \cup {Nowhere}
      /\ ~Settles(t) => outstanding \subseteq outstanding'
      /\ Settles(t) => Writes(t)
  BY <1>1, LifeSettles DEF TabOutstanding, Writes
<1>4. stored'.muralLinkRequired \in outstanding' \cup {Nowhere}
  BY <1>1, <1>2, <1>3 DEF TabOutstanding
<1>5. TabOutstanding(t)'
  <2> USE DEF LinkingTypeOK
  <2>1. CASE \E r \in LinkingRequests : Arrive(t, r) /\ pc[t] \in {"rest", "redirected"}
    <3>1. /\ ses'[t] = stored /\ goto'[t] = Nowhere /\ page'[t] = page[t]
          /\ dirty'[t] = FALSE /\ ~Settles(t)
      BY <2>1 DEF Arrive, Load, Settles, Writes, Leaves
    <3>2. page[t].required = Nowhere
      BY <2>1, BlankFields DEF PagesStaged, Staged
    <3> QED  BY <1>1, <1>3, <3>1, <3>2 DEF TabOutstanding
  <2>2. CASE Respond(t)
    <3>1. UNCHANGED <<req, ses, dirty, page, goto>>
      BY <2>2 DEF Respond
    <3>2. goto[t] = Nowhere => ~Settles(t)
      BY FormsClosed DEF Settles, MadeStash, UsedStash
    <3> QED  BY <1>1, <1>3, <3>1, <3>2 DEF TabOutstanding, MadeStash, UsedStash
  <2>3. CASE Deliver(t) \/ GiveUp(t)
    <3>1. ses'[t] = EmptySession /\ page'[t] = BlankPage /\ dirty'[t] = FALSE
      BY <2>3 DEF Deliver, GiveUp, Release
    <3> QED  BY <1>1, <3>1 DEF TabOutstanding
  <2> QED  BY <2>1, <2>2, <2>3 DEF TabLives
<1>6. ASSUME NEW u \in Tabs, u # t  PROVE TabOutstanding(u)'
  <2>1. /\ UNCHANGED <<req[u], goto[u], page[u], ses[u], dirty[u]>>
        /\ TabOutstanding(u)
    BY <1>6, OthersKeepTheirCopy DEF StashOutstanding
  <2>2. /\ ses[u].muralLinkRequired \in outstanding' \cup {Nowhere}
        /\ goto[u] = Nowhere => page[u].required \in outstanding' \cup {Nowhere}
    <3>1. CASE Settles(t)
      BY <1>6, <3>1, LifeSettles DEF Holds
    <3>2. CASE ~Settles(t)
      BY <1>3, <2>1, <3>2 DEF TabOutstanding
    <3> QED  BY <3>1, <3>2
  <2> QED  BY <2>1, <2>2 DEF TabOutstanding, MadeStash, UsedStash
<1> QED  BY <1>4, <1>5, <1>6 DEF StashOutstanding

LEMMA WorkKeepsOutstanding ==
  ASSUME LinkingTypeOK, RequestsServed, StashOutstanding, NEW t \in Tabs, TabWorks(t), ObserveStash
  PROVE  StashOutstanding'
<1>1. outstanding \subseteq outstanding' /\ (TurnsAway(t) => AsGet(req[t]) \in outstanding')
  BY WorkSettlesNothing
<1>2. stored' = stored /\ req' = req
  BY WorkOnStash DEF TabWorks, Waits, Opens, StartLinkingPage, Sends, Flags, TurnsAway, HandlerFrame
<1>3. TabOutstanding(t) /\ goto[t] = Nowhere
  BY WorkObserved DEF StashOutstanding, RequestsServed
<1>4. TabOutstanding(t)'
  <2>1. CASE Waits(t)
    BY <1>1, <1>2, <1>3, <2>1, WorkOnStash, FormsClosed DEF TabOutstanding, MadeStash, UsedStash
  <2>2. CASE Opens(t)
    BY <1>1, <1>2, <1>3, <2>2, WorkOnStash, FormsClosed DEF TabOutstanding, MadeStash, UsedStash
  <2>3. CASE Sends(t)
    BY <1>1, <1>2, <1>3, <2>3, WorkOnStash, FormsClosed DEF TabOutstanding, MadeStash
  <2>4. CASE Flags(t)
    <3>1. goto'[t] = LinkingPage /\ req[t].route = "callback"
      BY <2>4 DEF Flags, Redirect, LinkingTypeOK
    <3>2. ~MadeStash(t)' /\ ~UsedStash(t)'
      BY <1>2, <3>1 DEF MadeStash, UsedStash, GatedRoutes
    <3> QED  BY <1>1, <1>3, <2>4, <3>1, <3>2, WorkOnStash, FormsClosed DEF TabOutstanding
  <2>5. CASE TurnsAway(t)
    <3>1. goto'[t] = LinkingPage
      BY <2>5 DEF TurnsAway, Redirect, LinkingTypeOK
    <3> QED  BY <1>1, <1>2, <2>5, <3>1, WorkOnStash, FormsClosed DEF TabOutstanding, UsedStash
  <2> QED  BY <2>1, <2>2, <2>3, <2>4, <2>5 DEF TabWorks
<1>5. ASSUME NEW u \in Tabs, u # t  PROVE TabOutstanding(u)'
  <2>1. /\ UNCHANGED <<req[u], goto[u], page[u], ses[u], dirty[u]>>
        /\ TabOutstanding(u)
    BY <1>5, OthersKeepTheirCopy DEF StashOutstanding
  <2> QED  BY <1>1, <2>1 DEF TabOutstanding, MadeStash, UsedStash
<1> QED  BY <1>1, <1>2, <1>4, <1>5 DEF StashOutstanding

\* What a tab is sent back to, or told of, it has from a copy of the session.
LEMMA ReturnsAreHeld ==
  ASSUME LinkingTypeOK, RequestsServed, StashOutstanding, NEW t \in Tabs, TabLives(t) \/ TabWorks(t)
  PROVE  /\ SendsBack(t) => goto'[t] \in outstanding
         /\ page'[t].required \in outstanding \cup {page[t].required, Nowhere}
<1>1. TabOutstanding(t)
  BY DEF StashOutstanding
<1>2. CASE TabLives(t)
  <2>1. ~SendsBack(t)
    BY <1>2, LifeUnobserved
  <2>2. page'[t] \in {page[t], BlankPage}
    BY <1>2 DEF TabLives, Arrive, Load, Respond, Deliver, GiveUp, Release, LinkingTypeOK
  <2> QED  BY <2>1, <2>2, BlankFields
<1>3. CASE TabWorks(t)
  <2>1. goto[t] = Nowhere
    BY <1>3, WorkObserved DEF RequestsServed
  <2>2. SendsBack(t) => Sends(t)
    BY <1>3, WorkObserved DEF TabWorks
  <2>3. SendsBack(t) => goto'[t] \in outstanding
    BY <1>1, <1>3, <2>1, <2>2, WorkOnStash, FormsClosed DEF TabOutstanding
  <2>4. page'[t].required \in outstanding \cup {page[t].required, Nowhere}
    <3>1. Sends(t) \/ Flags(t) \/ TurnsAway(t) => page' = page
      BY DEF Sends, Flags, TurnsAway, Redirect
    <3> QED  BY <1>1, <1>3, <3>1, WorkOnStash DEF TabOutstanding, TabWorks
  <2> QED  BY <2>3, <2>4
<1> QED  BY <1>2, <1>3

\* However many tabs overwrite each other's session and whatever response is
\* lost, nobody is sent back to, or told of, a page but the one last refused, or
\* one another request held when that refusal, or a return, took effect.
THEOREM ReturnsAreOutstanding == StashSpec => OnlyOutstandingReturns
<1> DEFINE Returns(t) == /\ SendsBack(t) => goto'[t] \in outstanding
                         /\ page'[t].required \in outstanding \cup {page[t].required, Nowhere}
           Returned == \A t \in Tabs : Returns(t)
<1>1. StashInit => StashOutstanding
  BY BlankFields, FormsClosed
  DEF StashInit, LinkingInit, GateInit, RequestInit, EmptySession, StashOutstanding, TabOutstanding
<1>2. /\ LinkingTypeOK /\ PagesStaged /\ RequestsServed /\ StashOutstanding
      /\ [StashNext]_stashVars
      => StashOutstanding' /\ [Returned]_stashVars
  <2> SUFFICES ASSUME LinkingTypeOK, PagesStaged, RequestsServed, StashOutstanding,
                      [StashNext]_stashVars
               PROVE  StashOutstanding' /\ [Returned]_stashVars
    OBVIOUS
  <2>1. CASE UNCHANGED stashVars
    BY <2>1 DEF stashVars, linkingVars, requestVars, StashOutstanding, TabOutstanding,
       MadeStash, UsedStash
  <2>2. ASSUME ObserveStash, NEW t \in Tabs, LinkingUser(t) \/ LinkingPortal(t)
        PROVE  StashOutstanding' /\ Returned
    <3>1. TabLives(t) \/ TabWorks(t)
      BY <2>2, TabsLiveOrWork
    <3>2. StashOutstanding'
      BY <2>2, <3>1, LifeKeepsOutstanding, WorkKeepsOutstanding
    <3>3. ASSUME NEW u \in Tabs, u # t  PROVE Returns(u)
      BY <3>1, <3>3, OthersKeepTheirCopy DEF SendsBack
    <3>4. Returns(t)
      BY <3>1, ReturnsAreHeld
    <3> QED  BY <3>2, <3>3, <3>4
  <2>3. ASSUME ObserveStash, NEW l \in Links, LinkChanges(l)
        PROVE  StashOutstanding' /\ Returned
    <3>1. UNCHANGED requestVars
      BY <2>3 DEF LinkChanges
    <3>2. outstanding' = outstanding
      <4>1. \A t \in Tabs : ~Settles(t) /\ ~Refuses(t)
        BY <3>1 DEF requestVars, Settles, Writes, Refuses, Leaves
      <4> QED  BY <2>3, <4>1 DEF ObserveStash
    <3>3. StashOutstanding'
      BY <3>1, <3>2 DEF requestVars, StashOutstanding, TabOutstanding, MadeStash, UsedStash
    <3>4. Returned
      BY <3>1 DEF requestVars, SendsBack
    <3> QED  BY <3>3, <3>4
  <2> QED  BY <2>1, <2>2, <2>3 DEF StashNext, LinkingNext
<1>3. StashSpec => [][Returned]_stashVars
  BY <1>1, <1>2, StashIsLinking, RequestsServedInvariant, PagesStagedInvariant,
     LinkingTypeCorrect, PTL DEF StashSpec
<1> QED  BY <1>3 DEF OnlyOutstandingReturns, Returned, Returns

=============================================================================
