--------------------------- MODULE LinkingJourney ---------------------------
(***************************************************************************)
(* What a user may believe of the linking flow.  MuralLinking, observed:   *)
(* the variables of this module are histories, set from what a step of     *)
(* MuralLinking did and read by the properties alone.                      *)
(***************************************************************************)
EXTENDS MuralLinking

VARIABLES
  latest,   \* the outcome of the OAuth round trip finished last, if flashed
  owed,     \* the page the user was last stopped at and not yet sent back to
  cause,    \* [Tabs -> request] the page whose refusal led this tab here
  seen,     \* [Tabs -> SUBSET Links] the links there were during the request
  failed    \* [Tabs -> BOOLEAN] whether the call it made last has failed

journeyVars == <<linkingVars, latest, owed, cause, seen, failed>>

-----------------------------------------------------------------------------
(* What a step did. *)

\* The callback flashed an outcome.
Flashes(t) ==
  req[t].route = "callback" /\ pc[t] # "done" /\ pc'[t] = "done" /\ goto'[t] = LinkingPage

Newest(s) == s.linkingOutcome[Len(s.linkingOutcome)]

Observe ==
  /\ latest' = IF \E t \in Tabs : Flashes(t)
               THEN Newest(ses'[CHOOSE t \in Tabs : Flashes(t)]) ELSE latest
  /\ owed' = IF \E t \in Tabs : Refuses(t)
             THEN AsGet(req[CHOOSE t \in Tabs : Refuses(t)])
             ELSE IF \E t \in Tabs : SendsBack(t) THEN Nowhere ELSE owed
  /\ cause' = [t \in Tabs |-> IF Refuses(t) THEN AsGet(req[t])
                              ELSE IF Leaves(t, "rest") \/ SendsBack(t) THEN Nowhere
                              ELSE cause[t]]
  /\ seen' = [t \in Tabs |-> IF pc'[t] \in {"rest", "redirected"} THEN {}
                             ELSE seen[t] \cup {link'}]
  /\ failed' = [t \in Tabs |-> IF pc'[t] = pc[t] THEN failed[t] ELSE upsets' # upsets]

JourneyInit ==
  /\ LinkingInit
  /\ latest = "none"
  /\ owed = Nowhere
  /\ cause = [t \in Tabs |-> Nowhere]
  /\ seen = [t \in Tabs |-> {}]
  /\ failed = [t \in Tabs |-> FALSE]

JourneyNext == LinkingNext /\ Observe

\* Observing takes no step of its own, so MuralLinking's fairness is kept as it is.
JourneySpec ==
  /\ JourneyInit
  /\ [][JourneyNext]_journeyVars
  /\ \A t \in Tabs : WF_linkingVars(LinkingPortal(t))

-----------------------------------------------------------------------------
(* Properties. *)

\* The tab is being answered with a page, of the given route.
Answered(t, route) == pc[t] = "done" /\ req[t].route = route /\ goto[t] = Nowhere

\* Safety: the message on the linking page is the outcome of the OAuth round
\* trip that has just been completed (linking/view-model.js:24-26).
LatestOutcomeShown ==
  \A t \in Tabs : Answered(t, "linking") => page[t].message \in {"none", latest}

\* Safety: a user is sent back once for each time the gate stopped them, and to
\* the page it stopped them at last; a stash is never used twice, so that a
\* connected user can reach the linking page (linking/controller.js:29-33).
SentBackOnce ==
  [][\A t \in Tabs : SendsBack(t) => goto'[t] = owed]_journeyVars

\* Safety: a user the gate has sent to the linking page is told there which page
\* they were stopped at, or is sent back to it (mural-connection.js:15-18).
RefusalExplained ==
  \A t \in Tabs :
    pc[t] = "done" /\ req[t] = LinkingPage /\ cause[t] # Nowhere =>
      cause[t] \in {page[t].required, goto[t]}

\* Safety: what the linking page and the dashboard say of the connection was so
\* at some moment of the request, even when the account changes between the calls
\* a page is made of: "Connected" and "Not connected" of step 2, "Working" of
\* step 3, and "Not working" where the page blames the connection.  Of "Not
\* working" with the detail "Mural is not responding right now" it says nothing:
\* that is what a 502 is shown as, whatever the connection is worth
\* (services/mural-linking.js:23-36, 71-89, 199-209; page.njk:13-18).
PagesAreTruthful ==
  \A t \in Tabs : pc[t] = "done" /\ goto[t] = Nowhere =>
    /\ ConnectionStep(page[t]) = "linked" => seen[t] \cap {"working", "refused"} # {}
    /\ page[t].status = "notLinked" => "none" \in seen[t]
    /\ CheckStep(page[t]) = "working" => "working" \in seen[t]
    /\ CheckStep(page[t]) = "issue" /\ page[t].check.reason # "mural_api_error" =>
         seen[t] \cap {"refused", "none"} # {}

\* Safety: the page asks to connect exactly those it says are not connected, and
\* to reconnect only those whose check has failed; a step that is red is without
\* a way out in one case only, when the call for the URL to reconnect with has
\* itself failed (services/mural-linking.js:23-36, 102-110; page.njk:89-107).
OffersFit ==
  \A t \in Tabs : Answered(t, "linking") =>
    /\ Offer(page[t]) = "connect" <=> page[t].status = "notLinked"
    /\ Offer(page[t]) = "reconnect" => CheckStep(page[t]) = "issue"
    /\ Offer(page[t]) = "none" =>
         /\ ConnectionStep(page[t]) = "linked"
         /\ CheckStep(page[t]) = "issue" => failed[t]

\* Safety, as the comments have it: a failed check "must not be shown to the user
\* as a broken one. Only FAILED means Mural actually refused the token"
\* (constants/connection-checks.js:5-8), and the page then "offers a way out
\* rather than leaving a red step with nothing to do about it" (page.njk:94-95).
\* Either would do here: step 3 is red because Mural refused the connection, or
\* the page at least offers a way out.
RedStepIsMet ==
  \A t \in Tabs : Answered(t, "linking") /\ CheckStep(page[t]) = "issue" =>
    "refused" \in seen[t] \/ Offer(page[t]) = "reconnect"

=============================================================================
