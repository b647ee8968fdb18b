---------------------------- MODULE BoardJourney ----------------------------
(***************************************************************************)
(* What becomes of a board request between its acceptance by mural-mcp and *)
(* the confirmation the user sees.  BoardRequests, observed by history     *)
(* variables.                                                              *)
(***************************************************************************)
EXTENDS BoardRequests

VARIABLES
  recorded,   \* the boards mural-mcp has recorded a request of this user for
  due,        \* those the portal accepted last and no page has confirmed yet
  from,       \* [Tabs -> board] whose acceptance a tab is being redirected from
  used        \* the tabs the user has opened a page in

boardJourneyVars == <<boardVars, recorded, due, from, used>>

-----------------------------------------------------------------------------

\* The handler takes the submission for accepted and redirects.
Accepts(t) == pc[t] = "submit" /\ goto'[t] = Confirmation

Confirms(t, b) == pc[t] = "sent" /\ pc'[t] = "rest" /\ page[t].request = b /\ req'[t] = req[t]

AcceptedNow == { req[t].arg : t \in {u \in Tabs : Accepts(u)} }

ObserveBoards ==
  /\ recorded' = recorded \cup { b \in Boards : requests'[b] = "mine" }
  /\ due' = (due \cup AcceptedNow) \ { b \in Boards : \E t \in Tabs : Confirms(t, b) }
  /\ from' = [t \in Tabs |-> IF Accepts(t) THEN req[t].arg
                             ELSE IF pc'[t] = "rest" THEN "none" ELSE from[t]]
  /\ used' = used \cup { t \in Tabs : pc'[t] # "rest" }

BoardJourneyInit ==
  /\ BoardsInit
  /\ recorded = {}
  /\ due = {}
  /\ from = [t \in Tabs |-> "none"]
  /\ used = {}

BoardJourneyNext == BoardsNext /\ ObserveBoards

\* Observing takes no step of its own, so BoardRequests' fairness is kept as it is.
BoardJourneySpec ==
  /\ BoardJourneyInit
  /\ [][BoardJourneyNext]_boardJourneyVars
  /\ \A t \in Tabs : WF_boardVars(BoardPortal(t))

-----------------------------------------------------------------------------
(* Properties. *)

\* Safety: whatever was lost and whichever tab overwrote the session, the page
\* "Board request submitted" is only shown of a request mural-mcp has recorded
\* for this user (controller.js:49-58, confirmation/controller.js:5-11).
ConfirmationTruthful ==
  /\ stored.boardRequest \in recorded \cup {"none"}
  /\ \A t \in Tabs : page[t].request \in recorded \cup {"none"}

\* The portal promises the next two to a user who keeps to one tab: the copy of
\* the session another tab's request writes back may lack the confirmation, or
\* bring it back.
KeepsToOneTab == \A t, u \in used : t = u

\* Safety: the confirmation a submission redirects to is the one of that
\* submission, even when an earlier one was never displayed (controller.js:50-58).
ConfirmationFollows ==
  KeepsToOneTab =>
    \A t \in Tabs :
      pc[t] = "done" /\ req[t] = Confirmation /\ from[t] # "none" => page[t].request = from[t]

\* Safety: a submission is confirmed once; a refresh or a later visit leads to
\* the form (confirmation/controller.js:5-9).
ConfirmedOnce ==
  KeepsToOneTab =>
    \A t \in Tabs : pc[t] = "done" /\ page[t].request # "none" => page[t].request \in due

=============================================================================
