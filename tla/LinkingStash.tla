---------------------------- MODULE LinkingStash ----------------------------
(***************************************************************************)
(* What the gate's stash, the page a user is to be sent back to, may be    *)
(* used for when the requests of several tabs overlap.  MuralLinking,      *)
(* observed by a history variable.                                         *)
(***************************************************************************)
EXTENDS MuralLinking

VARIABLE outstanding   \* the refusals that may still lead the user back

stashVars == <<linkingVars, outstanding>>

-----------------------------------------------------------------------------

\* The stash a request knows of: in its copy of the session, or read from it.
Holds(t) == { ses[t].muralLinkRequired, page[t].required } \ {Nowhere}

\* What the request in service in a tab has done to the stash.
MadeStash(t) == req[t].route \in GatedRoutes /\ goto[t] = LinkingPage
UsedStash(t) == goto[t] \notin {Nowhere, LinkingPage}

\* Its copy of the session becomes the session.
Writes(t) ==
  /\ dirty[t]
  /\ \/ storage = "server" /\ Leaves(t, "done")
     \/ storage = "cookie" /\ Leaves(t, "sent") /\ aborts' = aborts

Settles(t) == Writes(t) /\ (MadeStash(t) \/ UsedStash(t))

\* A refusal is outstanding once it is made.  When a refusal or a return
\* takes effect, it supersedes, or uses up, all but the refusals that other
\* requests under way then hold.
ObserveStash ==
  outstanding' =
    IF \E t \in Tabs : Settles(t)
    THEN UNION { IF ~Settles(t) THEN Holds(t)
                 ELSE IF MadeStash(t) THEN {AsGet(req[t])} ELSE {} : t \in Tabs }
    ELSE outstanding \cup { AsGet(req[t]) : t \in {u \in Tabs : Refuses(u)} }

StashInit == LinkingInit /\ outstanding = {}

StashNext == LinkingNext /\ ObserveStash

\* Observing takes no step of its own, so MuralLinking's fairness is kept as it is.
StashSpec ==
  /\ StashInit
  /\ [][StashNext]_stashVars
  /\ \A t \in Tabs : WF_linkingVars(LinkingPortal(t))

-----------------------------------------------------------------------------
(* Properties. *)

\* Safety: whatever the tabs do to each other's copy of the session and
\* whatever response is lost, a refusal is used once and only the last one is:
\* a user is sent back to, or told of, no page but the one the last refusal to
\* take effect was about, or one that a request under way at that moment held
\* and could still write back.  In particular a stash that has been used stays
\* used (linking/controller.js:29-33, callback/controller.js:32-37,
\* mural-connection.js:49-52).
OnlyOutstandingReturns ==
  [][\A t \in Tabs :
       /\ SendsBack(t) => goto'[t] \in outstanding
       /\ page'[t].required \in outstanding \cup {page[t].required, Nowhere}]_stashVars

=============================================================================
