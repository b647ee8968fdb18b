----------------------------- MODULE MuralGate -----------------------------
(***************************************************************************)
(* The onPreHandler gate (server/plugins/mural-connection.js) in front of  *)
(* the routes that need a linked Mural account, and the state of that      *)
(* account in mural-mcp, which the portal only ever learns by asking.      *)
(*                                                                         *)
(* Every modelled request is authenticated and carries an e-mail address:  *)
(* the default strategy turns the others away before the gate.             *)
(***************************************************************************)
EXTENDS PortalRequests, LinkingServices

CONSTANT MaxUpsets  \* bound: failed replies, and changes made outside the portal

ASSUME MaxUpsetsAssumption == MaxUpsets \in Nat

VARIABLES
  link,     \* "none", or the stored connection: "working" or "refused" by Mural
  upsets

gateVars == <<link, upsets>>

Links == {"none", "working", "refused"}

-----------------------------------------------------------------------------
(* mural-mcp, as the portal sees it. *)

\* A call whose sound replies are given may also fail, while upsets last.
Answers(sound, failures) ==
  sound \cup (IF upsets < MaxUpsets THEN failures ELSE {})

Tally(reply, failures) ==
  upsets' = IF reply \in failures THEN upsets + 1 ELSE upsets

StatusReply(l) == Reply(200, IF l = "none" THEN "notLinked" ELSE "linked")

\* The connection lapses, is refused, or is made or removed elsewhere.
LinkChanges(l) ==
  /\ upsets < MaxUpsets
  /\ l # link
  /\ link' = l
  /\ upsets' = upsets + 1
  /\ UNCHANGED requestVars

-----------------------------------------------------------------------------
(* The plugin. *)

\* Mutant: a stash is only made when there is none.
StashReturn_KeepsOldest(s, r) ==
  IF s.muralLinkRequired # Nowhere THEN s ELSE [s EXCEPT !.muralLinkRequired = AsGet(r)]

\* request.yar.set(MURAL_LINK_REQUIRED_SESSION_KEY, {returnTo, reason}): the
\* reason is a fixed text of the route, so the page stands for both.
StashReturn(s, r) == [s EXCEPT !.muralLinkRequired = AsGet(r)]

GatePasses(t) ==
  /\ pc[t] = "gate"
  /\ \E reply \in Answers({StatusReply(link)}, Failures) :
       IsMuralLinked(reply) /\ Tally(reply, Failures)
  /\ Await(t, "handler")
  /\ NoTouch
  /\ HandlerFrame
  /\ UNCHANGED <<page, goto, link>>

GateRefuses(t) ==
  /\ pc[t] = "gate"
  /\ \E reply \in Answers({StatusReply(link)}, Failures) :
       ~IsMuralLinked(reply) /\ Tally(reply, Failures)
  /\ Touch(t, StashReturn(ses[t], req[t]))
  /\ Redirect(t, LinkingPage)
  /\ HandlerFrame
  /\ UNCHANGED link

Gate(t) == GatePasses(t) \/ GateRefuses(t)

\* GET /account/tokens/new and GET /board-requests/new, behind the gate, render
\* a form.
ServeForm(t) ==
  /\ pc[t] = "handler"
  /\ req[t].route \in {"newToken", "newBoard"}
  /\ Render(t, BlankPage)
  /\ NoTouch
  /\ HandlerFrame
  /\ UNCHANGED gateVars

GateInit ==
  /\ RequestInit
  /\ link \in Links
  /\ upsets = 0

=============================================================================
