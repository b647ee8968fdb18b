---------------------------- MODULE AuthSessions ----------------------------
(***************************************************************************)
(* Signing in, staying signed in and signing out: the session strategy of  *)
(* server/plugins/auth.js, the routes of pages/login, and the auth-session *)
(* cache they share.  A sign-in is known by the id of its session, which   *)
(* the browser keeps in a cookie; all its tabs send the cookie of the      *)
(* moment, and a request keeps the one it came with.                       *)
(***************************************************************************)
EXTENDS PortalRequests, FiniteSets

CONSTANTS
  SessionIds,       \* what randomUUID may return; a bound on the sign-ins
  Providers,        \* auth.provider: "entra", "local" or both
  RefreshSettings,  \* auth.entra.useRefreshTokens: FALSE, TRUE or both
  MaxFaults         \* bound: failures of the cache and of Entra, things expired

ASSUME SessionIdsAssumption == "none" \notin SessionIds /\ {"keep", "clear"} \cap SessionIds = {}
ASSUME ProvidersAssumption == Providers \subseteq {"entra", "local"}
ASSUME RefreshSettingsAssumption == RefreshSettings \subseteq BOOLEAN
ASSUME MaxFaultsAssumption == MaxFaults \in Nat

VARIABLES
  provider,   \* the configuration of this deployment
  refreshes,
  cache,      \* [SessionIds -> entry] server.app.cache
  used,       \* the ids given out
  cookie,     \* the session id in the browser's cookie, or "none"
  sid,        \* [Tabs -> id] the one a tab's request came with
  authed,     \* [Tabs -> BOOLEAN] request.auth.isAuthenticated
  grant,      \* [Tabs -> SUBSET Grants] what Entra granted, not yet in the cache
  jar,        \* [Tabs -> "keep", "clear" or id] what the response does to the cookie
  faults

configVars == <<provider, refreshes>>
sessionVars == <<configVars, cache, used, cookie, sid, authed, grant, jar, faults>>
authVars == <<requestVars, sessionVars>>

Home == Page("home")
Dashboard == Page("dashboard")

\* The sign-in page, the redirect URI, the sign-out, and a page that needs a
\* session: the dashboard stands for every route with the default strategy.
AuthRequests == { Home, Page("login"), Page("logout"), Dashboard }
AuthRoutes == { "home", "login", "logout", "dashboard" }

\* Routes whose mode is "try": the handler runs with or without a session.
TryRoutes == { "home", "logout" }

\* What Entra's token endpoint may grant: access_token, refresh_token.
Grants == {"access", "refresh"}

\* An entry of the cache: whether its token is fresh or invalid, that is expired,
\* missing or no token at all, and whether it has a refresh token.
Entry(token, refresh) == [token |-> token, refresh |-> refresh]
Absent == Entry("none", FALSE)

Fault == faults < MaxFaults /\ faults' = faults + 1

-----------------------------------------------------------------------------
(* A request comes with the cookie of the moment.  The redirect URI has    *)
(* Bell's strategy, or none, instead of the session's.                     *)

Enter(t, r) ==
  /\ Load(t, r, IF r.route = "login" THEN "handler" ELSE "auth")
  /\ sid' = [sid EXCEPT ![t] = cookie]
  /\ UNCHANGED <<configVars, cache, used, cookie, authed, grant, jar, faults>>

OpenPage(t, r) == pc[t] = "rest" /\ Enter(t, r)

FollowRedirect(t) == pc[t] = "redirected" /\ Enter(t, goto[t])

\* The browser has the response and its cookies; the request is forgotten.
Forget(t) ==
  /\ sid' = [sid EXCEPT ![t] = "none"]
  /\ authed' = [authed EXCEPT ![t] = FALSE]
  /\ jar' = [jar EXCEPT ![t] = "keep"]

CookieAfter(change) ==
  IF change = "keep" THEN cookie ELSE IF change = "clear" THEN "none" ELSE change

Receive(t) ==
  /\ Deliver(t)
  /\ Forget(t)
  /\ cookie' = CookieAfter(jar[t])
  /\ UNCHANGED <<configVars, cache, used, grant, faults>>

Lose(t) ==
  /\ GiveUp(t)
  /\ Forget(t)
  /\ UNCHANGED <<configVars, cache, used, cookie, grant, faults>>

\* What neither authentication nor a handler changes.
AuthFrame == HandlerFrame /\ UNCHANGED <<configVars, cookie, sid>>

-----------------------------------------------------------------------------
(* _validateSessionToken, and what the cookie strategy makes of it.        *)

LetIn(t) ==
  /\ authed' = [authed EXCEPT ![t] = TRUE]
  /\ Await(t, EntryPoint(req[t]))
  /\ UNCHANGED goto

\* Mutant: everybody is sent to the redirect URI.
TurnAway_ToLogin(t) ==
  /\ IF req[t].route \in TryRoutes THEN Await(t, "handler") /\ UNCHANGED goto
     ELSE Await(t, "done") /\ goto' = [goto EXCEPT ![t] = Page("login")]
  /\ UNCHANGED authed

\* {isValid: false}, no cookie, or a rejection: to redirectTo, unless the route
\* only tries.
TurnAway(t) ==
  /\ IF req[t].route \in TryRoutes THEN Await(t, "handler") /\ UNCHANGED goto
     ELSE Await(t, "done") /\ goto' = [goto EXCEPT ![t] = Home]
  /\ UNCHANGED authed

\* Jwt.token.decode and verifyTime; either throws.
Unexpired(entry) == entry.token = "fresh"

\* Mutant: any session may be refreshed.
MayRefresh_Always(entry) == refreshes

MayRefresh(entry) == refreshes /\ entry.refresh

\* await cache.get, and all that follows it without an await.
LookUp(t) ==
  /\ sid[t] # "none"
  /\ LET entry == cache[sid[t]]
     IN  \/ Unexpired(entry) /\ LetIn(t)
         \/ entry = Absent /\ TurnAway(t)
         \/ /\ entry # Absent /\ ~Unexpired(entry)
            /\ IF MayRefresh(entry) THEN Await(t, "refresh") /\ UNCHANGED <<goto, authed>>
               ELSE TurnAway(t)
  /\ UNCHANGED faults

Authenticate(t) ==
  /\ pc[t] = "auth"
  /\ \/ LookUp(t)
     \/ sid[t] = "none" /\ TurnAway(t) /\ UNCHANGED faults
     \/ sid[t] # "none" /\ Fault /\ TurnAway(t)
  /\ NoTouch
  /\ AuthFrame
  /\ UNCHANGED <<page, cache, used, grant, jar>>

\* Mutant: a refusal is taken for the end of the session.
RefreshRefused_Drops(t) ==
  /\ Fault
  /\ TurnAway(t)
  /\ cache' = [cache EXCEPT ![sid[t]] = Absent]
  /\ UNCHANGED grant

\* Entra does not answer 2xx, or the answer cannot be read.
RefreshRefused(t) ==
  /\ Fault
  /\ TurnAway(t)
  /\ UNCHANGED <<cache, grant>>

\* A 2xx answer that can be read.  Which tokens it has is not looked at: both, as
\* a rule, but one or both may be missing.
RefreshGranted(t) ==
  /\ \E given \in SUBSET Grants :
       /\ grant' = [grant EXCEPT ![t] = given]
       /\ IF given = Grants THEN UNCHANGED faults ELSE Fault
  /\ Await(t, "save")
  /\ UNCHANGED <<goto, authed, cache>>

\* _refreshEntraToken, as Entra answers it.
RefreshAnswered(t) ==
  /\ pc[t] = "refresh"
  /\ RefreshGranted(t) \/ RefreshRefused(t)
  /\ NoTouch
  /\ AuthFrame
  /\ UNCHANGED <<page, used, jar>>

\* Mutant: a refresh without its AbortSignal.
RefreshTimesOut_Never(t) == pc[t] = "refresh" /\ FALSE /\ UNCHANGED authVars

\* AbortSignal.timeout.
RefreshTimesOut(t) ==
  /\ pc[t] = "refresh"
  /\ TurnAway(t)
  /\ NoTouch
  /\ AuthFrame
  /\ UNCHANGED <<page, cache, used, grant, jar, faults>>

Renewed(t) == Entry(IF "access" \in grant[t] THEN "fresh" ELSE "invalid", "refresh" \in grant[t])

Refreshed(t) == [cache EXCEPT ![sid[t]] = Renewed(t)]

\* await cache.set of the refreshed entry, whatever is in the cache by then; a
\* call that fails may have taken effect.
SaveRefreshed(t) ==
  /\ pc[t] = "save"
  /\ \/ cache' = Refreshed(t) /\ LetIn(t) /\ UNCHANGED faults
     \/ cache' \in {cache, Refreshed(t)} /\ TurnAway(t) /\ Fault
  /\ grant' = [grant EXCEPT ![t] = {}]
  /\ NoTouch
  /\ AuthFrame
  /\ UNCHANGED <<page, used, jar>>

-----------------------------------------------------------------------------
(* GET /, and a page that needs a session.                                 *)

ServeHome(t) ==
  /\ pc[t] = "handler"
  /\ req[t].route = "home"
  /\ IF authed[t] THEN Redirect(t, Dashboard) ELSE Render(t, BlankPage)
  /\ NoTouch
  /\ AuthFrame
  /\ UNCHANGED <<cache, used, authed, grant, jar, faults>>

ServeDashboard(t) ==
  /\ pc[t] = "handler"
  /\ req[t].route = "dashboard"
  /\ Render(t, BlankPage)
  /\ NoTouch
  /\ AuthFrame
  /\ UNCHANGED <<cache, used, authed, grant, jar, faults>>

-----------------------------------------------------------------------------
(* GET /login/callback.                                                    *)

\* _getDevSession is at hand; _getEntraSession awaits the verification.
StartLogin(t) ==
  /\ pc[t] = "handler"
  /\ req[t].route = "login"
  /\ Await(t, IF provider = "entra" THEN "verify" ELSE "store")
  /\ NoTouch
  /\ AuthFrame
  /\ UNCHANGED <<page, goto, cache, used, authed, grant, jar, faults>>

\* verifyEntraToken; Bell's own failure and a rejected id_token are both 401.
VerifyLogin(t) ==
  /\ pc[t] = "verify"
  /\ \/ Await(t, "store") /\ UNCHANGED <<page, goto>>
     \/ Render(t, BlankPage)
  /\ NoTouch
  /\ AuthFrame
  /\ UNCHANGED <<cache, used, authed, grant, jar, faults>>

NewSession == Entry("fresh", provider = "entra")

\* Mutant: the session keeps the id the browser came with.
FreshIds_Reused(t) == IF sid[t] \in SessionIds THEN {sid[t]} ELSE SessionIds \ used

\* uuidv4.
FreshIds(t) == SessionIds \ used

SetCookie(t, change) == jar' = [jar EXCEPT ![t] = change]

\* Mutant: the cookie is set without awaiting the cache.
StoreFails_CookieSet(t) ==
  /\ Fault
  /\ \E s \in FreshIds(t) : SetCookie(t, s)
  /\ Redirect(t, Dashboard)
  /\ UNCHANGED <<cache, used>>

\* The call rejects, and hapi answers 500: nobody has the id.
StoreFails(t) == Fault /\ Render(t, BlankPage) /\ UNCHANGED <<cache, used, jar>>

\* await cache.set, cookieAuth.set.
StoreSession(t) ==
  /\ pc[t] = "store"
  /\ \/ \E s \in FreshIds(t) :
          /\ cache' = [cache EXCEPT ![s] = NewSession]
          /\ used' = used \cup {s}
          /\ SetCookie(t, s)
          /\ Redirect(t, Dashboard)
          /\ UNCHANGED faults
     \/ StoreFails(t)
  /\ NoTouch
  /\ AuthFrame
  /\ UNCHANGED <<authed, grant>>

-----------------------------------------------------------------------------
(* GET /logout.                                                            *)

\* Nobody is signed in, as far as the strategy could tell: nothing is cleared.
SkipLogout(t) ==
  /\ pc[t] = "handler"
  /\ req[t].route = "logout"
  /\ ~authed[t]
  /\ Redirect(t, Home)
  /\ NoTouch
  /\ AuthFrame
  /\ UNCHANGED <<cache, used, authed, grant, jar, faults>>

\* Mutant: the sign-out leaves the yar session alone.
ResetSession_Forgotten(t) ==
  /\ pc[t] = "handler"
  /\ req[t].route = "logout"
  /\ authed[t]
  /\ NoTouch
  /\ Await(t, "drop")
  /\ AuthFrame
  /\ UNCHANGED <<page, goto, cache, used, authed, grant, jar, faults>>

\* await yar.reset.
ResetSession(t) ==
  /\ pc[t] = "handler"
  /\ req[t].route = "logout"
  /\ authed[t]
  /\ Touch(t, EmptySession)
  /\ Await(t, "drop")
  /\ AuthFrame
  /\ UNCHANGED <<page, goto, cache, used, authed, grant, jar, faults>>

\* Mutant: signing out only clears the cookie.
Dropped_Kept(t) == cache

Dropped(t) == [cache EXCEPT ![sid[t]] = Absent]

\* await cache.drop, cookieAuth.clear; when the call fails hapi answers 500 and
\* the cookie stays.
DropSession(t) ==
  /\ pc[t] = "drop"
  /\ \/ cache' = Dropped(t) /\ SetCookie(t, "clear") /\ Redirect(t, Home) /\ UNCHANGED faults
     \/ cache' \in {cache, Dropped(t)} /\ Fault /\ Render(t, BlankPage) /\ UNCHANGED jar
  /\ NoTouch
  /\ AuthFrame
  /\ UNCHANGED <<used, authed, grant>>

-----------------------------------------------------------------------------
(* Time.                                                                   *)

TokenExpires(s) ==
  /\ cache[s].token = "fresh"
  /\ cache' = [cache EXCEPT ![s].token = "invalid"]
  /\ Fault
  /\ UNCHANGED <<requestVars, configVars, used, cookie, sid, authed, grant, jar>>

\* session.cache.ttl, counted from the last cache.set.
SessionLapses(s) ==
  /\ cache[s] # Absent
  /\ cache' = [cache EXCEPT ![s] = Absent]
  /\ Fault
  /\ UNCHANGED <<requestVars, configVars, used, cookie, sid, authed, grant, jar>>

\* session.cookie.ttl, counted from the sign-in.
CookieLapses ==
  /\ cookie # "none"
  /\ cookie' = "none"
  /\ Fault
  /\ UNCHANGED <<requestVars, configVars, cache, used, sid, authed, grant, jar>>

-----------------------------------------------------------------------------

AuthHandler(t) ==
  \/ Authenticate(t)
  \/ RefreshTimesOut(t)
  \/ SaveRefreshed(t)
  \/ ServeHome(t)
  \/ StartLogin(t)
  \/ VerifyLogin(t)
  \/ StoreSession(t)
  \/ SkipLogout(t)
  \/ ResetSession(t)
  \/ DropSession(t)

\* What the portal and the browser do by themselves; an answer of Entra's token
\* endpoint is not among it.
AuthPortal(t) ==
  \/ AuthHandler(t)
  \/ ServeDashboard(t)
  \/ Respond(t) /\ UNCHANGED sessionVars
  \/ Receive(t)
  \/ FollowRedirect(t)

\* No more sign-ins are begun than there are ids left.
SignInsUnderWay == { t \in Tabs : req[t].route = "login" /\ pc[t] \in {"handler", "verify", "store"} }

IdsLeft == Cardinality(SignInsUnderWay) < Cardinality(SessionIds \ used)

AuthUser(t) ==
  \/ \E r \in AuthRequests : (r.route = "login" => IdsLeft) /\ OpenPage(t, r)
  \/ Lose(t)

AuthTime ==
  \/ \E s \in SessionIds : TokenExpires(s) \/ SessionLapses(s)
  \/ CookieLapses

AuthNext ==
  \/ \E t \in Tabs : AuthUser(t) \/ AuthPortal(t) \/ RefreshAnswered(t)
  \/ AuthTime

SessionInit ==
  /\ provider \in Providers
  /\ refreshes \in RefreshSettings
  /\ cache = [s \in SessionIds |-> Absent]
  /\ used = {}
  /\ cookie = "none"
  /\ sid = [t \in Tabs |-> "none"]
  /\ authed = [t \in Tabs |-> FALSE]
  /\ grant = [t \in Tabs |-> {}]
  /\ jar = [t \in Tabs |-> "keep"]
  /\ faults = 0

AuthInit == RequestInit /\ SessionInit

\* A request is served to its end even when Entra never answers: the cache
\* answers or rejects, and the refresh has a timeout.
AuthSpec ==
  /\ AuthInit
  /\ [][AuthNext]_authVars
  /\ \A t \in Tabs : WF_authVars(AuthPortal(t))

-----------------------------------------------------------------------------
(* Properties. *)

Sids == SessionIds \cup {"none"}

AuthPCs == { "rest", "auth", "refresh", "save", "handler", "verify", "store", "drop",
             "done", "sent", "redirected" }

\* Type invariant of the sessions.  The yar session stays empty: no page of this
\* module writes it.
AuthTypeOK ==
  /\ storage \in Storages
  /\ stored = EmptySession
  /\ pc \in [Tabs -> AuthPCs]
  /\ req \in [Tabs -> AuthRequests \cup {Nowhere}]
  /\ ses = [t \in Tabs |-> EmptySession]
  /\ dirty \in [Tabs -> BOOLEAN]
  /\ page = [t \in Tabs |-> BlankPage]
  /\ goto \in [Tabs -> {Nowhere, Home, Dashboard}]
  /\ aborts \in 0..MaxAborts
  /\ provider \in Providers
  /\ refreshes \in RefreshSettings
  /\ cache \in [SessionIds -> [token : {"none", "fresh", "invalid"}, refresh : BOOLEAN]]
  /\ used \subseteq SessionIds
  /\ cookie \in Sids
  /\ sid \in [Tabs -> Sids]
  /\ authed \in [Tabs -> BOOLEAN]
  /\ grant \in [Tabs -> SUBSET Grants]
  /\ jar \in [Tabs -> {"keep", "clear"} \cup SessionIds]
  /\ faults \in 0..MaxFaults

-----------------------------------------------------------------------------

\* Safety: an id names a session in the cache before any browser, request or
\* response has it, so that a user who has just signed in is not turned away for
\* want of the entry (login/controller.js:52-56).
CookieNamesStored ==
  /\ cookie \in used \cup {"none"}
  /\ \A t \in Tabs : sid[t] \in used \cup {"none"} /\ jar[t] \in used \cup {"keep", "clear"}

\* A request that came with this session would be let in, if Entra agrees.
Usable(entry) ==
  entry.token = "fresh" \/ (entry.token = "invalid" /\ refreshes /\ entry.refresh)

\* Safety: whatever fails in a request, and however its refresh races with that
\* of another tab, it ends no session but its own: by a sign-out, or by saving
\* what Entra granted when that has neither token, over an entry that another
\* tab may have refreshed by then (auth.js:246-255, login/controller.js:67-77).
OnlySignOutEnds ==
  [][\A t \in Tabs, s \in SessionIds :
       pc'[t] # pc[t] /\ Usable(cache[s]) /\ ~Usable(cache'[s]) =>
         sid[t] = s /\ (pc[t] = "drop" \/ (pc[t] = "save" /\ grant[t] = {}))]_authVars

-----------------------------------------------------------------------------
(* The sessions implement SessionLife.                                     *)

LifeOf(s) ==
  IF s \notin used THEN "new" ELSE IF cache[s] = Absent THEN "out" ELSE "in"

Lives == [s \in SessionIds |-> LifeOf(s)]

Refreshing == { sid[t] : t \in {u \in Tabs : pc[u] \in {"refresh", "save"}} }

Life == INSTANCE SessionLife WITH life <- Lives, refreshing <- Refreshing

\* Refinement: a session that has gone out comes back only by a refresh that was
\* under way then, and an id is given out once (auth.js:226-259, 52-56).
ImplementsSessionLife == Life!LifeSpec

=============================================================================
