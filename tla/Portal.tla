------------------------------- MODULE Portal -------------------------------
(***************************************************************************)
(* The portal as a user goes through it: every request is authenticated    *)
(* first (AuthSessions), and one that is let in goes on to the gate and    *)
(* the pages of the linking flow (MuralLinking).  The two share the life   *)
(* of the request and the yar session, which a sign-out resets.            *)
(***************************************************************************)
EXTENDS MuralLinking, AuthSessions, Functions

VARIABLES
  ownPages,    \* history: the refusals the user may still be told of
  ownOutcomes  \* history: the outcomes of the OAuth round trip, likewise

portalVars == <<linkingVars, sessionVars, ownPages, ownOutcomes>>

PortalRequests == LinkingRequests \cup AuthRequests

-----------------------------------------------------------------------------
(* What a step gives the user to be told of.                               *)

\* The page the gate stopped them at.
RefusedAt == { AsGet(req[t]) : t \in {u \in Tabs : pc[u] = "gate" /\ pc'[u] = "done"} }

\* What the callback flashed.
Flashing(t) ==
  req[t].route = "callback" /\ pc[t] # "done" /\ pc'[t] = "done" /\ goto'[t] = LinkingPage

Flashed ==
  { ses'[t].linkingOutcome[Len(ses'[t].linkingOutcome)] : t \in {u \in Tabs : Flashing(u)} }

\* The browser has the answer to a sign-out: only what the other requests hold,
\* and may still write back, remains.
SignedOut(t) == pc[t] = "sent" /\ jar[t] = "clear" /\ aborts' = aborts /\ pc'[t] # "sent"

ObservePortal ==
  IF \E t \in Tabs : SignedOut(t)
  THEN LET others == { t \in Tabs : ~SignedOut(t) }
       IN  /\ ownPages' =
                UNION { {ses[t].muralLinkRequired, page[t].required, goto[t]} : t \in others }
           /\ ownOutcomes' =
                UNION { Range(ses[t].linkingOutcome) \cup {page[t].message} : t \in others }
  ELSE /\ ownPages' = ownPages \cup RefusedAt
       /\ ownOutcomes' = ownOutcomes \cup Flashed

-----------------------------------------------------------------------------

\* The linking flow sees none of the sign-in's state, and the reverse.
LinkingServes(t) == (LinkingHandler(t) \/ Gate(t)) /\ UNCHANGED sessionVars

AuthServes(t) ==
  (AuthHandler(t) \/ Receive(t) \/ FollowRedirect(t)) /\ UNCHANGED gateVars

PortalServes(t) ==
  \/ LinkingServes(t)
  \/ AuthServes(t)
  \/ Respond(t) /\ UNCHANGED <<gateVars, sessionVars>>

PortalUser(t) ==
  \/ \E r \in PortalRequests :
       /\ r.route \in Visited \cup AuthRoutes
       /\ r.route = "callback" => Len(stored.linkingOutcome) < MaxFlash
       /\ r.route = "login" => IdsLeft
       /\ OpenPage(t, r)
       /\ UNCHANGED gateVars
  \/ Lose(t) /\ UNCHANGED gateVars

\* Entra, mural-mcp's account, and time.
Outside ==
  \/ \E t \in Tabs : RefreshAnswered(t) /\ UNCHANGED gateVars
  \/ \E l \in Links : LinkChanges(l) /\ UNCHANGED sessionVars
  \/ AuthTime /\ UNCHANGED gateVars

PortalNext ==
  /\ Outside \/ \E t \in Tabs : PortalUser(t) \/ PortalServes(t)
  /\ ObservePortal

PortalInit == LinkingInit /\ SessionInit /\ ownPages = {} /\ ownOutcomes = {}

\* Observing takes no step of its own; the fairness is that of the two parts.
PortalSpec ==
  /\ PortalInit
  /\ [][PortalNext]_portalVars
  /\ \A t \in Tabs : WF_<<linkingVars, sessionVars>>(PortalServes(t))

-----------------------------------------------------------------------------
(* Properties. *)

\* Safety: once a sign-out has reached the browser nobody who signs in there is
\* told of the outcomes and refusals of the user before, or sent where they were
\* stopped (login/controller.js:71, with linking/controller.js:29-33).  Exempt is
\* what a request of another tab held when the sign-out reached the browser: its
\* response may write that copy of the session back, and with one tab, or with the
\* others at rest, there is none.  A session that lapses without a sign-out, or
\* one whose sign-out was skipped, is not spoken of.
ToldTheirOwn ==
  \A t \in Tabs :
    /\ page[t].required \in ownPages \cup {Nowhere}
    /\ page[t].message \in ownOutcomes \cup {"none"}
    /\ pc[t] = "done" /\ goto[t].route \in {"newToken", "newBoard"} => goto[t] \in ownPages

\* Liveness: every request ends in a page.  The dashboard and the gate send the
\* user to the sign-in page or the linking page, which send the user back; not
\* for ever, even when Entra's token endpoint never answers (auth.js:172-176, 212;
\* login/controller.js:23; mural-connection.js:54; linking/controller.js:32).
PortalRequestsEnd == \A t \in Tabs : pc[t] # "rest" ~> pc[t] = "rest"

=============================================================================
