--------------------------- MODULE PortalRequests ---------------------------
(***************************************************************************)
(* The life of a request in the portal.  Node serves the requests of a     *)
(* signed-in user concurrently, and every one of them works on a private   *)
(* copy of the yar session: the copy is taken when the request arrives and *)
(* written back whole, if it was touched, when the response leaves.  What  *)
(* runs between two awaits is one step; the handlers themselves belong to  *)
(* the modules that extend this one.                                       *)
(*                                                                         *)
(* yar keeps a small session inside its cookie and a large one in the      *)
(* server's cache (session-cache.js sets no maxCookieSize).  In the cookie *)
(* a write takes effect when the browser receives the response, in the     *)
(* cache before the response is sent.                                      *)
(***************************************************************************)
EXTENDS Naturals, Sequences

CONSTANTS
  Tabs,       \* browser tabs of one signed-in user, one request each at a time
  Storages,   \* where yar may keep the session: "cookie", "server" or both
  MaxAborts   \* bound: responses lost and redirects not followed

ASSUME StoragesAssumption == Storages \subseteq {"cookie", "server"}
ASSUME MaxAbortsAssumption == MaxAborts \in Nat

VARIABLES
  storage,    \* where this user's session is kept
  stored,     \* the session as the next request will load it
  pc,         \* [Tabs -> PCs] the await a tab's request is suspended at
  req,        \* [Tabs -> request] the request in service, or displayed
  ses,        \* [Tabs -> session] the request's own copy of the session
  dirty,      \* [Tabs -> BOOLEAN] whether yar counts that copy as modified
  page,       \* [Tabs -> page] what the response being made tells the user
  goto,       \* [Tabs -> request] where the response redirects, or Nowhere
  aborts

requestVars == <<storage, stored, pc, req, ses, dirty, page, goto, aborts>>

-----------------------------------------------------------------------------
(* Requests: a route of the portal and its parameter. *)

Get(route, arg) == [route |-> route, arg |-> arg]
Page(route) == Get(route, "none")

Nowhere == Page("none")
LinkingPage == Page("linking")

\* Routes whose options.app.requiresMuralLink is set.
GatedRoutes == { "tokens", "newToken", "mint", "created", "revokeForm", "revoke",
                 "newBoard", "submitBoard" }

\* What a later GET of request.path asks for: a form is posted to the path
\* that serves it, and the query string is not part of the path.
AsGet(r) ==
  IF r.route \in {"mint", "newToken"} THEN Page("newToken")
  ELSE IF r.route \in {"submitBoard", "newBoard"} THEN Page("newBoard")
  ELSE IF r.route = "revoke" THEN Get("revokeForm", r.arg)
  ELSE r

\* The keys the portal uses in the session; the middle three are flashes.
EmptySession ==
  [ muralLinkRequired    |-> Nowhere,
    linkingOutcome       |-> <<>>,
    newPersonalToken     |-> <<>>,
    revokedPersonalToken |-> <<>>,
    boardRequest         |-> "none" ]

\* What the modelled pages tell the user: the linking page and the dashboard
\* the state of the connection, the token pages a secret or a banner, the
\* confirmation page a board request.
BlankPage ==
  [ message  |-> "none",     \* the outcome of the OAuth round trip, or a conflict
    required |-> Nowhere,    \* what the user was stopped from doing
    status   |-> "none",     \* "linked", "notLinked" or "statusError"
    check    |-> [state |-> "none", reason |-> "none"],
    url      |-> "none",     \* whether a link to (re)connect is offered
    secret   |-> "none",     \* the token whose secret is shown
    revoked  |-> "none",     \* the token the banner says has been revoked
    revocable |-> {},        \* the tokens listed with a link to revoke them
    request  |-> "none" ]    \* the board request confirmed

-----------------------------------------------------------------------------
(* hapi's lifecycle: authentication, payload validation, the onPreHandler  *)
(* gate, the handler, the onPreResponse commit.                            *)

\* A payload the schema rejects is answered by the route's failAction, which
\* takes over before the gate runs.
EntryPoint(r) ==
  IF r.arg = "invalid" THEN "failAction"
  ELSE IF r.route \in GatedRoutes THEN "gate" ELSE "handler"

\* The request of a tab is at its first await, with its copy of the session.
Load(t, r, first) ==
  /\ req' = [req EXCEPT ![t] = r]
  /\ pc' = [pc EXCEPT ![t] = first]
  /\ ses' = [ses EXCEPT ![t] = stored]
  /\ dirty' = [dirty EXCEPT ![t] = FALSE]
  /\ goto' = [goto EXCEPT ![t] = Nowhere]
  /\ UNCHANGED <<storage, stored, page, aborts>>

\* Authentication has let it in.
Arrive(t, r) == Load(t, r, EntryPoint(r))

\* The user opens a page, follows a link or submits a form.
Begin(t, r) == pc[t] = "rest" /\ Arrive(t, r)

\* The browser follows a redirect to a route of the modelled part, or leaves it.
Follow(t, routes) ==
  /\ pc[t] = "redirected"
  /\ goto[t].route \in routes
  /\ Arrive(t, goto[t])

Leave(t, routes) ==
  /\ pc[t] = "redirected"
  /\ goto[t].route \notin routes
  /\ req' = [req EXCEPT ![t] = goto[t]]
  /\ pc' = [pc EXCEPT ![t] = "rest"]
  /\ goto' = [goto EXCEPT ![t] = Nowhere]
  /\ UNCHANGED <<storage, stored, ses, dirty, page, aborts>>

\* yar writes the request's copy back as a whole; a copy nothing touched is
\* not written.
Commit(t, where) ==
  stored' = IF storage = where /\ dirty[t] THEN ses[t] ELSE stored

\* onPreResponse.
Respond(t) ==
  /\ pc[t] = "done"
  /\ Commit(t, "server")
  /\ pc' = [pc EXCEPT ![t] = "sent"]
  /\ UNCHANGED <<storage, req, ses, dirty, page, goto, aborts>>

\* The server forgets the request.
Release(t) ==
  /\ ses' = [ses EXCEPT ![t] = EmptySession]
  /\ dirty' = [dirty EXCEPT ![t] = FALSE]
  /\ page' = [page EXCEPT ![t] = BlankPage]

\* The browser receives the response, with the session's cookie.
Deliver(t) ==
  /\ pc[t] = "sent"
  /\ Commit(t, "cookie")
  /\ pc' = [pc EXCEPT ![t] = IF goto[t] = Nowhere THEN "rest" ELSE "redirected"]
  /\ Release(t)
  /\ UNCHANGED <<storage, req, goto, aborts>>

\* The response is lost, or the user goes elsewhere before the browser has
\* received it or followed its redirect.
GiveUp(t) ==
  /\ pc[t] \in {"sent", "redirected"}
  /\ aborts < MaxAborts
  /\ aborts' = aborts + 1
  /\ pc' = [pc EXCEPT ![t] = "rest"]
  /\ req' = [req EXCEPT ![t] = Nowhere]
  /\ goto' = [goto EXCEPT ![t] = Nowhere]
  /\ Release(t)
  /\ UNCHANGED <<storage, stored>>

-----------------------------------------------------------------------------
(* What the handlers do with their request. *)

\* Suspend at the next await.
Await(t, where) == pc' = [pc EXCEPT ![t] = where]

\* Return from the handler.
Render(t, p) ==
  /\ Await(t, "done")
  /\ page' = [page EXCEPT ![t] = p]
  /\ UNCHANGED goto

Redirect(t, r) ==
  /\ Await(t, "done")
  /\ goto' = [goto EXCEPT ![t] = r]
  /\ UNCHANGED page

\* Go on to the next await with what is known so far.
Continue(t, where, p) ==
  /\ Await(t, where)
  /\ page' = [page EXCEPT ![t] = p]
  /\ UNCHANGED goto

\* Touch the request's copy of the session, or leave it alone.
Touch(t, s) ==
  /\ ses' = [ses EXCEPT ![t] = s]
  /\ dirty' = [dirty EXCEPT ![t] = TRUE]

NoTouch == UNCHANGED <<ses, dirty>>

\* What no handler changes.
HandlerFrame == UNCHANGED <<storage, stored, req, aborts>>

RequestInit ==
  /\ storage \in Storages
  /\ stored = EmptySession
  /\ pc = [t \in Tabs |-> "rest"]
  /\ req = [t \in Tabs |-> Nowhere]
  /\ ses = [t \in Tabs |-> EmptySession]
  /\ dirty = [t \in Tabs |-> FALSE]
  /\ page = [t \in Tabs |-> BlankPage]
  /\ goto = [t \in Tabs |-> Nowhere]
  /\ aborts = 0

=============================================================================
