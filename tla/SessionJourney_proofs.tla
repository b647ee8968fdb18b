----------------------- MODULE SessionJourney_proofs -----------------------
(***************************************************************************)
(* Proofs about what a sign-out leaves behind and on what grounds a        *)
(* request is let in, for every number of tabs and every configuration.    *)
(***************************************************************************)
EXTENDS SessionJourney, AuthSessions_proofs

\* The observer adds nothing to AuthSessions, so that its theorems hold here.
LEMMA JourneyIsAuth == SessionJourneySpec => AuthSpec
<1>1. SessionJourneyInit => AuthInit
  BY DEF SessionJourneyInit
<1>2. [SessionJourneyNext]_sessionJourneyVars => [AuthNext]_authVars
  BY DEF SessionJourneyNext, sessionJourneyVars
<1> QED  BY <1>1, <1>2, PTL DEF SessionJourneySpec, AuthSpec

-----------------------------------------------------------------------------
(* No handler decides where to redirect before it returns.                 *)

InService == {"auth", "refresh", "save", "handler", "verify", "store", "drop"}

Undecided == \A t \in Tabs : pc[t] \in InService => goto[t] = Nowhere

LEMMA HandlersUndecided ==
  ASSUME AuthTypeOK, Undecided, NEW t \in Tabs,
         AuthHandler(t) \/ ServeDashboard(t) \/ RefreshAnswered(t)
  PROVE  Undecided'
<1>1. Handles(t)
  BY HandlersServe
<1>2. pc[t] \in InService
  BY DEF InService, AuthHandler, Authenticate, RefreshTimesOut, SaveRefreshed, ServeHome,
       ServeDashboard, StartLogin, VerifyLogin, StoreSession, SkipLogout, ResetSession,
       DropSession, RefreshAnswered
<1>3. goto' = goto \/ pc' = [pc EXCEPT ![t] = "done"]
  <2>1. CASE Authenticate(t) \/ RefreshAnswered(t) \/ RefreshTimesOut(t) \/ SaveRefreshed(t)
    <3>1. LetIn(t) \/ TurnAway(t) \/ UNCHANGED goto
      BY <2>1 DEF Authenticate, LookUp, RefreshAnswered, RefreshGranted, RefreshRefused,
           RefreshTimesOut, SaveRefreshed
    <3> QED  BY <3>1 DEF LetIn, TurnAway, Await
  <2>2. CASE \/ ServeHome(t) \/ ServeDashboard(t) \/ StartLogin(t) \/ VerifyLogin(t)
             \/ StoreSession(t) \/ SkipLogout(t) \/ ResetSession(t) \/ DropSession(t)
    BY <2>2 DEF ServeHome, ServeDashboard, StartLogin, VerifyLogin, StoreSession, StoreFails,
         SkipLogout, ResetSession, DropSession, Render, Redirect, Await
  <2> QED  BY <2>1, <2>2 DEF AuthHandler
<1> QED  BY <1>1, <1>2, <1>3 DEF Undecided, Handles, AuthTypeOK, InService

LEMMA BrowserUndecided ==
  ASSUME AuthTypeOK, Undecided, NEW t \in Tabs,
         \/ \E r : Enter(t, r)
         \/ Respond(t) /\ UNCHANGED sessionVars
         \/ Receive(t) \/ Lose(t)
  PROVE  Undecided'
<1> USE DEF Undecided, AuthTypeOK, InService
<1>1. CASE \E r : Enter(t, r)
  BY <1>1 DEF Enter, Load
<1>2. CASE Respond(t)
  BY <1>2 DEF Respond
<1>3. CASE Receive(t)
  BY <1>3 DEF Receive, Deliver
<1>4. CASE Lose(t)
  BY <1>4 DEF Lose, GiveUp
<1> QED  BY <1>1, <1>2, <1>3, <1>4

LEMMA UndecidedKept == AuthSpec => []Undecided
<1>1. AuthInit => Undecided
  BY DEF AuthInit, RequestInit, Undecided, InService
<1>2. AuthTypeOK /\ Undecided /\ [AuthNext]_authVars => Undecided'
  <2> SUFFICES ASSUME AuthTypeOK, Undecided, [AuthNext]_authVars
               PROVE  Undecided'
    OBVIOUS
  <2>1. CASE UNCHANGED authVars
    BY <2>1 DEF authVars, requestVars, Undecided
  <2>2. ASSUME NEW t \in Tabs, AuthUser(t) \/ AuthPortal(t)  PROVE Undecided'
    BY <2>2, OtherSteps, HandlersUndecided, BrowserUndecided
  <2>3. ASSUME NEW t \in Tabs, RefreshAnswered(t)  PROVE Undecided'
    BY <2>3, HandlersUndecided
  <2>4. CASE AuthTime
    BY <2>4 DEF AuthTime, TokenExpires, SessionLapses, CookieLapses, Undecided, requestVars
  <2> QED  BY <2>1, <2>2, <2>3, <2>4 DEF AuthNext
<1> QED  BY <1>1, <1>2, AuthTypeCorrect, PTL DEF AuthSpec

-----------------------------------------------------------------------------
(* Without refresh tokens nothing brings a session back: no request is at   *)
(* the awaits of a refresh, and a sign-in takes an id never used before.    *)

StaysOut ==
  /\ signedOut \subseteq used
  /\ ~refreshes => /\ \A t \in Tabs : pc[t] \notin {"refresh", "save"}
                   /\ \A s \in signedOut : cache[s] = Absent

LEMMA AbsentUnusable == ~Usable(Absent)
  BY DEF Usable, Absent, Entry

\* What a step leaves of the entries of used sessions, when nothing is refreshed.
LEMMA EntriesStayOut ==
  ASSUME AuthTypeOK, AuthNext, NEW s \in used, cache[s] = Absent,
         \A t \in Tabs : pc[t] # "save"
  PROVE  cache'[s] = Absent
<1>1. cache \in [SessionIds -> Entries] /\ used \subseteq SessionIds
  BY TypeSplits DEF SessionsTyped
<1>2. ASSUME NEW t \in Tabs, AuthUser(t) \/ AuthPortal(t) \/ RefreshAnswered(t)
      PROVE  cache'[s] = Absent
  <2>1. cache' = cache \/ SaveRefreshed(t) \/ StoreSession(t) \/ DropSession(t)
    BY <1>2, OtherSteps DEF AuthHandler, ServeDashboard, RefreshAnswered, RefreshGranted,
         RefreshRefused, Authenticate, RefreshTimesOut, ServeHome, StartLogin, VerifyLogin,
         SkipLogout, ResetSession, sessionVars, Receive, Lose, Enter
  <2>2. ~SaveRefreshed(t)
    BY DEF SaveRefreshed
  <2>3. StoreSession(t) => cache'[s] = Absent
    BY <1>1 DEF StoreSession, StoreFails, FreshIds
  <2>4. DropSession(t) => cache'[s] = Absent
    BY <1>1 DEF DropSession, Dropped
  <2> QED  BY <2>1, <2>2, <2>3, <2>4
<1>3. CASE AuthTime
  BY <1>1, <1>3, EntriesTyped DEF AuthTime, TokenExpires, SessionLapses, CookieLapses
<1> QED  BY <1>2, <1>3 DEF AuthNext

LEMMA UsedGrows ==
  ASSUME AuthTypeOK, [AuthNext]_authVars
  PROVE  used \subseteq used' /\ refreshes' = refreshes
<1>1. CASE UNCHANGED authVars
  BY <1>1 DEF authVars, sessionVars, configVars
<1>2. ASSUME NEW t \in Tabs, AuthHandler(t) \/ ServeDashboard(t) \/ RefreshAnswered(t)
      PROVE  used \subseteq used' /\ refreshes' = refreshes
  <2>1. refreshes' = refreshes
    BY <1>2, HandlersServe DEF Handles
  <2>2. used' = used \/ StoreSession(t)
    BY <1>2 DEF AuthHandler, ServeDashboard, RefreshAnswered, Authenticate, RefreshTimesOut,
         SaveRefreshed, ServeHome, StartLogin, VerifyLogin, SkipLogout, ResetSession, DropSession
  <2> QED  BY <2>1, <2>2 DEF StoreSession, StoreFails
<1>3. ASSUME NEW t \in Tabs, AuthUser(t) \/ AuthPortal(t)
      PROVE  used \subseteq used' /\ refreshes' = refreshes
  BY <1>2, <1>3, OtherSteps DEF Enter, sessionVars, configVars, Receive, Lose
<1>4. CASE AuthTime
  BY <1>4 DEF AuthTime, TokenExpires, SessionLapses, CookieLapses, configVars
<1> QED  BY <1>1, <1>2, <1>3, <1>4 DEF AuthNext

LEMMA NoRefreshBegins ==
  ASSUME AuthTypeOK, [AuthNext]_authVars, ~refreshes,
         \A t \in Tabs : pc[t] \notin {"refresh", "save"}
  PROVE  \A t \in Tabs : pc'[t] \notin {"refresh", "save"}
<1> DEFINE Quiet == \A t \in Tabs : pc'[t] \notin {"refresh", "save"}
<1>1. CASE UNCHANGED authVars
  BY <1>1 DEF authVars, requestVars
<1>2. ASSUME NEW t \in Tabs, AuthHandler(t) \/ ServeDashboard(t) \/ RefreshAnswered(t)
      PROVE  Quiet
  <2>1. CASE Authenticate(t)
    <3>1. LetIn(t) \/ TurnAway(t)
      BY <2>1 DEF Authenticate, LookUp, MayRefresh
    <3> QED  BY <3>1, Turns, Lets DEF AuthTypeOK
  <2>2. ~RefreshAnswered(t) /\ ~RefreshTimesOut(t) /\ ~SaveRefreshed(t)
    BY DEF RefreshAnswered, RefreshTimesOut, SaveRefreshed
  <2>3. CASE \/ ServeHome(t) \/ ServeDashboard(t) \/ StartLogin(t) \/ VerifyLogin(t)
             \/ StoreSession(t) \/ SkipLogout(t) \/ ResetSession(t) \/ DropSession(t)
    <3>1. \E x \in {"done", "verify", "store", "drop"} : pc' = [pc EXCEPT ![t] = x]
      BY <2>3 DEF ServeHome, ServeDashboard, StartLogin, VerifyLogin, StoreSession, StoreFails,
           SkipLogout, ResetSession, DropSession, Render, Redirect, Await
    <3> QED  BY <3>1 DEF AuthTypeOK
  <2> QED  BY <1>2, <2>1, <2>2, <2>3 DEF AuthHandler
<1>3. ASSUME NEW t \in Tabs, AuthUser(t) \/ AuthPortal(t)  PROVE Quiet
  <2>1. \/ \E r : Enter(t, r)
        \/ Respond(t) \/ Receive(t) \/ Lose(t)
        => Quiet
    BY DEF Enter, Load, Respond, Receive, Deliver, Lose, GiveUp, AuthTypeOK
  <2> QED  BY <1>2, <1>3, <2>1, OtherSteps
<1>4. CASE AuthTime
  BY <1>4 DEF AuthTime, TokenExpires, SessionLapses, CookieLapses, requestVars
<1> QED  BY <1>1, <1>2, <1>3, <1>4 DEF AuthNext

\* Where a sign-out is answered as done, its session is in no cache.
LEMMA DropsDrop ==
  ASSUME AuthTypeOK, Undecided, CookieNamesStored, SidsMatter, AuthNext,
         NEW t \in Tabs, Drops(t)
  PROVE  sid[t] \in used /\ cache'[sid[t]] = Absent
<1>1. sid[t] \in used /\ sid[t] \in SessionIds
  BY DEF Drops, SidsMatter, CookieNamesStored, AuthTypeOK, Sids
<1>2. goto'[t] # goto[t]
  <2>1. goto[t] = Nowhere /\ goto'[t] = Home
    BY DEF Drops, Undecided, InService
  <2> QED  BY <2>1 DEF Home, Nowhere, Page, Get
<1>3. DropSession(t)
  <2>1. ~AuthTime
    BY <1>2 DEF AuthTime, TokenExpires, SessionLapses, CookieLapses, requestVars
  <2>2. PICK u \in Tabs : AuthUser(u) \/ AuthPortal(u) \/ RefreshAnswered(u)
    BY <2>1 DEF AuthNext
  <2>3. \/ AuthHandler(u) \/ ServeDashboard(u) \/ RefreshAnswered(u)
        \/ (pc[u] \in {"rest", "redirected"} /\ \E r : Enter(u, r)) \/ Lose(u)
    <3>1. Respond(u) \/ Receive(u) => goto' = goto
      BY DEF Respond, Receive, Deliver
    <3> QED  BY <1>2, <2>2, <3>1, OtherSteps
  <2>4. u = t
    <3>1. \A r : Enter(u, r) => \A v \in Tabs \ {u} : goto'[v] = goto[v]
      BY DEF Enter, Load, AuthTypeOK
    <3>2. Lose(u) => \A v \in Tabs \ {u} : goto'[v] = goto[v]
      BY DEF Lose, GiveUp, AuthTypeOK
    <3>3. Handles(u) => \A v \in Tabs \ {u} : goto'[v] = goto[v]
      BY DEF Handles, AuthTypeOK
    <3> QED  BY <1>2, <2>3, <3>1, <3>2, <3>3, HandlersServe
  <2> QED  BY <2>3, <2>4 DEF Drops, AuthHandler, ServeDashboard, RefreshAnswered, Authenticate,
              RefreshTimesOut, SaveRefreshed, ServeHome, StartLogin, VerifyLogin, StoreSession,
              SkipLogout, ResetSession, Lose, GiveUp
<1>4. cache' = Dropped(t)
  BY <1>2, <1>3 DEF DropSession, Render
<1>5. cache \in [SessionIds -> Entries]
  BY TypeSplits DEF SessionsTyped
<1> QED  BY <1>1, <1>4, <1>5 DEF Dropped

\* When tokens are not refreshed a signed-out session is out for good, whatever the
\* other tabs had under way when it was signed out.
THEOREM SignedOutForGood == SessionJourneySpec => []SignedOutStaysOut
<1>1. SessionJourneyInit => StaysOut
  BY DEF SessionJourneyInit, AuthInit, RequestInit, SessionInit, StaysOut
<1>2. AuthTypeOK /\ Undecided /\ CookieNamesStored /\ SidsMatter /\ StaysOut
        /\ [SessionJourneyNext]_sessionJourneyVars => StaysOut'
  <2> SUFFICES ASSUME AuthTypeOK, Undecided, CookieNamesStored, SidsMatter, StaysOut,
                      [SessionJourneyNext]_sessionJourneyVars
               PROVE  StaysOut'
    OBVIOUS
  <2>1. CASE UNCHANGED sessionJourneyVars
    BY <2>1 DEF sessionJourneyVars, authVars, requestVars, sessionVars, configVars, StaysOut
  <2>2. CASE SessionJourneyNext
    <3>1. AuthNext /\ signedOut' = signedOut \cup { sid[t] : t \in {u \in Tabs : Drops(u)} }
      BY <2>2 DEF SessionJourneyNext, ObserveSessions
    <3>2. used \subseteq used' /\ refreshes' = refreshes
      BY <3>1, UsedGrows
    <3>3. \A t \in Tabs : Drops(t) => sid[t] \in used /\ cache'[sid[t]] = Absent
      BY <3>1, DropsDrop
    <3>4. signedOut' \subseteq used'
      BY <3>1, <3>2, <3>3 DEF StaysOut
    <3>5. ASSUME ~refreshes
          PROVE  /\ \A t \in Tabs : pc'[t] \notin {"refresh", "save"}
                 /\ \A s \in signedOut' : cache'[s] = Absent
      <4>1. \A t \in Tabs : pc[t] \notin {"refresh", "save"}
        BY <3>5 DEF StaysOut
      <4>2. \A t \in Tabs : pc'[t] \notin {"refresh", "save"}
        BY <3>1, <3>5, <4>1, NoRefreshBegins
      <4>3. \A s \in signedOut : cache'[s] = Absent
        BY <3>1, <3>5, <4>1, EntriesStayOut DEF StaysOut
      <4> QED  BY <3>1, <3>3, <4>2, <4>3
    <3> QED  BY <3>2, <3>4, <3>5 DEF StaysOut
  <2> QED  BY <2>1, <2>2
<1>3. StaysOut => SignedOutStaysOut
  BY AbsentUnusable DEF StaysOut, SignedOutStaysOut
<1> QED  BY <1>1, <1>2, <1>3, JourneyIsAuth, AuthTypeCorrect, UndecidedKept,
            CookiesNameStored, SidsKept, PTL DEF SessionJourneySpec

-----------------------------------------------------------------------------
(* Nobody is let in, or tries a refresh, without grounds.                  *)

Claims(t) == pc[t] \in {"refresh", "save"} \/ authed[t]

WellFormed == \A s \in SessionIds : cache[s].token = "none" => cache[s] = Absent

Grounded == \A t \in Tabs : Claims(t) => t \in grounds

LEMMA WellFormedKept == AuthSpec => []WellFormed
<1>1. AuthInit => WellFormed
  BY DEF AuthInit, SessionInit, WellFormed
<1>2. AuthTypeOK /\ WellFormed /\ [AuthNext]_authVars => WellFormed'
  <2> SUFFICES ASSUME AuthTypeOK, WellFormed, [AuthNext]_authVars
               PROVE  WellFormed'
    OBVIOUS
  <2> USE DEF WellFormed
  <2>1. cache \in [SessionIds -> Entries] /\ Absent.token = "none"
    BY TypeSplits, EntriesTyped DEF SessionsTyped
  <2>2. NewSession.token = "fresh" /\ \A t \in Tabs : Renewed(t).token # "none"
    BY DEF NewSession, Renewed, Entry
  <2>3. CASE UNCHANGED authVars
    BY <2>3 DEF authVars, sessionVars
  <2>4. ASSUME NEW t \in Tabs, AuthUser(t) \/ AuthPortal(t) \/ RefreshAnswered(t)
        PROVE  WellFormed'
    <3>1. cache' = cache \/ SaveRefreshed(t) \/ StoreSession(t) \/ DropSession(t)
      BY <2>4, OtherSteps DEF AuthHandler, ServeDashboard, RefreshAnswered, RefreshGranted,
           RefreshRefused, Authenticate, RefreshTimesOut, ServeHome, StartLogin, VerifyLogin,
           SkipLogout, ResetSession, sessionVars, Receive, Lose, Enter
    <3>2. CASE SaveRefreshed(t)
      BY <2>1, <2>2, <3>2 DEF SaveRefreshed, Refreshed
    <3>3. CASE StoreSession(t)
      BY <2>1, <2>2, <3>3 DEF StoreSession, StoreFails
    <3>4. CASE DropSession(t)
      BY <2>1, <3>4 DEF DropSession, Dropped
    <3> QED  BY <3>1, <3>2, <3>3, <3>4
  <2>5. ASSUME NEW s \in SessionIds, TokenExpires(s)  PROVE WellFormed'
    BY <2>1, <2>5 DEF TokenExpires, Entries
  <2>6. CASE AuthTime
    BY <2>1, <2>5, <2>6 DEF AuthTime, SessionLapses, CookieLapses
  <2> QED  BY <2>3, <2>4, <2>6 DEF AuthNext
<1> QED  BY <1>1, <1>2, AuthTypeCorrect, PTL DEF AuthSpec

\* A request that was not let in, and now is or tries a refresh, has just looked
\* up a usable session.
LEMMA ClaimsAreLookedUp ==
  ASSUME AuthTypeOK, WellFormed, AuthNext, NEW t \in Tabs, ~Claims(t), Claims(t)'
  PROVE  sid'[t] # "none" /\ Usable(cache[sid'[t]])
<1> USE DEF Claims, AuthTypeOK
<1>1. ~AuthTime
  BY DEF AuthTime, TokenExpires, SessionLapses, CookieLapses, requestVars
<1>2. PICK u \in Tabs : AuthUser(u) \/ AuthPortal(u) \/ RefreshAnswered(u)
  BY <1>1 DEF AuthNext
<1>3. ~(\E r : Enter(u, r)) /\ ~(Respond(u) /\ UNCHANGED sessionVars) /\ ~Receive(u) /\ ~Lose(u)
  BY DEF Enter, Load, Respond, sessionVars, Receive, Deliver, Forget, Lose, GiveUp
<1>4. AuthHandler(u) \/ ServeDashboard(u) \/ RefreshAnswered(u)
  BY <1>2, <1>3, OtherSteps
<1>5. CASE \/ ServeHome(u) \/ ServeDashboard(u) \/ StartLogin(u) \/ VerifyLogin(u)
           \/ StoreSession(u) \/ SkipLogout(u) \/ ResetSession(u) \/ DropSession(u)
  <2>1. authed' = authed /\ \E x \in {"done", "verify", "store", "drop"} : pc' = [pc EXCEPT ![u] = x]
    BY <1>5 DEF ServeHome, ServeDashboard, StartLogin, VerifyLogin, StoreSession, StoreFails,
         SkipLogout, ResetSession, DropSession, Render, Redirect, Await
  <2> QED  BY <2>1
<1>6. CASE RefreshAnswered(u) \/ RefreshTimesOut(u) \/ SaveRefreshed(u)
  <2>1. pc[u] \in {"refresh", "save"}
    BY <1>6 DEF RefreshAnswered, RefreshTimesOut, SaveRefreshed
  <2>2. LetIn(u) \/ TurnAway(u) \/ (Await(u, "save") /\ UNCHANGED authed)
    BY <1>6 DEF RefreshAnswered, RefreshGranted, RefreshRefused, RefreshTimesOut, SaveRefreshed
  <2>3. \A v \in Tabs \ {u} : pc'[v] = pc[v] /\ authed'[v] = authed[v]
    BY <2>2, Turns, Lets DEF Await
  <2> QED  BY <2>1, <2>3
<1>7. CASE Authenticate(u)
  <2>1. sid' = sid
    BY <1>7 DEF Authenticate, AuthFrame
  <2>2. LetIn(u) \/ TurnAway(u) \/ (Await(u, "refresh") /\ UNCHANGED authed)
    BY <1>7 DEF Authenticate, LookUp
  <2>3. u = t /\ ~TurnAway(u)
    <3>1. TurnAway(u) => FALSE
      BY Turns
    <3>2. \A v \in Tabs \ {u} : pc'[v] = pc[v] /\ authed'[v] = authed[v]
      BY <2>2, Turns, Lets DEF Await
    <3> QED  BY <3>1, <3>2
  <2>4. sid[t] # "none" /\ \/ Unexpired(cache[sid[t]])
                           \/ /\ cache[sid[t]] # Absent /\ ~Unexpired(cache[sid[t]])
                              /\ MayRefresh(cache[sid[t]])
    BY <1>7, <2>3 DEF Authenticate, LookUp
  <2>5. sid[t] \in SessionIds /\ cache[sid[t]] \in Entries
    BY <2>4, TypeSplits DEF SessionsTyped, Sids
  <2>6. cache[sid[t]].token \in {"none", "fresh", "invalid"}
    BY <2>5 DEF Entries
  <2> QED  BY <2>1, <2>4, <2>5, <2>6 DEF Usable, Unexpired, MayRefresh, WellFormed
<1> QED  BY <1>4, <1>5, <1>6, <1>7 DEF AuthHandler

\* A request is let in only with a session that was alive while it was in service:
\* no failure, expiry, sign-out or refresh of another tab lets one in without.
THEOREM NobodyWithoutGrounds == SessionJourneySpec => []LetInOnGrounds
<1>1. SessionJourneyInit => Grounded
  BY DEF SessionJourneyInit, AuthInit, RequestInit, SessionInit, Grounded, Claims
<1>2. AuthTypeOK /\ WellFormed /\ SidsMatter' /\ Grounded
        /\ [SessionJourneyNext]_sessionJourneyVars => Grounded'
  <2> SUFFICES ASSUME AuthTypeOK, WellFormed, SidsMatter', Grounded,
                      [SessionJourneyNext]_sessionJourneyVars
               PROVE  Grounded'
    OBVIOUS
  <2>1. CASE UNCHANGED sessionJourneyVars
    BY <2>1 DEF sessionJourneyVars, authVars, requestVars, sessionVars, Grounded, Claims
  <2>2. ASSUME SessionJourneyNext, NEW t \in Tabs, Claims(t)'
        PROVE  t \in grounds'
    <3>1. pc'[t] \notin {"rest", "redirected"}
      BY <2>2 DEF Claims, SidsMatter
    <3>2. t \in grounds \/ (sid'[t] # "none" /\ Usable(cache[sid'[t]]))
      BY <2>2, ClaimsAreLookedUp DEF Grounded, SessionJourneyNext
    <3> QED  BY <2>2, <3>1, <3>2 DEF SessionJourneyNext, ObserveSessions
  <2> QED  BY <2>1, <2>2 DEF Grounded
<1>3. Grounded => LetInOnGrounds
  BY DEF Grounded, Claims, LetInOnGrounds
<1> QED  BY <1>1, <1>2, <1>3, JourneyIsAuth, AuthTypeCorrect, WellFormedKept, SidsKept, PTL
         DEF SessionJourneySpec

=============================================================================
