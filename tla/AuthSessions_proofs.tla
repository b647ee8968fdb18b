------------------------ MODULE AuthSessions_proofs ------------------------
(***************************************************************************)
(* Proofs about signing in and out, for every set of tabs, session ids,    *)
(* providers and settings, and every bound.                                *)
(***************************************************************************)
EXTENDS AuthSessions, TLAPS

-----------------------------------------------------------------------------
(* The pieces every action is made of.                                     *)

LEMMA RequestsEnter ==
  /\ \A r \in AuthRequests \cup {Nowhere} : EntryPoint(r) = "handler"
  /\ Home \in AuthRequests /\ Dashboard \in AuthRequests
  /\ Nowhere \notin AuthRequests
  BY DEF AuthRequests, EntryPoint, GatedRoutes, Home, Dashboard, Nowhere, Page, Get

LEMMA FaultCounted ==
  ASSUME faults \in 0..MaxFaults, Fault \/ UNCHANGED faults
  PROVE  faults' \in 0..MaxFaults
  BY MaxFaultsAssumption DEF Fault

\* What a step of authentication or of a handler does to the life of its request.
Handles(t) ==
  /\ \E x \in AuthPCs \ {"rest", "auth", "sent", "redirected"} : pc' = [pc EXCEPT ![t] = x]
  /\ goto' \in {goto, [goto EXCEPT ![t] = Home], [goto EXCEPT ![t] = Dashboard]}
  /\ page' \in {page, [page EXCEPT ![t] = BlankPage]}
  /\ ses' \in {ses, [ses EXCEPT ![t] = EmptySession]}
  /\ dirty' \in {dirty, [dirty EXCEPT ![t] = TRUE]}
  /\ HandlerFrame
  /\ UNCHANGED <<provider, refreshes, cookie, sid>>

LEMMA Turns ==
  ASSUME NEW t \in Tabs, TurnAway(t)
  PROVE  /\ pc' \in {[pc EXCEPT ![t] = "handler"], [pc EXCEPT ![t] = "done"]}
         /\ goto' \in {goto, [goto EXCEPT ![t] = Home]}
         /\ authed' = authed
  BY DEF TurnAway, Await

LEMMA Lets ==
  ASSUME AuthTypeOK, NEW t \in Tabs, LetIn(t)
  PROVE  /\ pc' = [pc EXCEPT ![t] = "handler"]
         /\ goto' = goto
         /\ authed' = [authed EXCEPT ![t] = TRUE]
  BY RequestsEnter DEF LetIn, Await, AuthTypeOK

LEMMA AuthenticateServes ==
  ASSUME AuthTypeOK, NEW t \in Tabs, Authenticate(t)
  PROVE  Handles(t)
<1>1. \/ LetIn(t) \/ TurnAway(t)
      \/ Await(t, "refresh") /\ UNCHANGED <<goto, authed>>
  BY DEF Authenticate, LookUp
<1>2. NoTouch /\ AuthFrame /\ UNCHANGED page
  BY DEF Authenticate
<1> QED  BY <1>1, <1>2, Turns, Lets DEF Handles, AuthPCs, NoTouch, AuthFrame, configVars, Await

LEMMA RefreshServes ==
  ASSUME AuthTypeOK, NEW t \in Tabs, RefreshAnswered(t) \/ RefreshTimesOut(t) \/ SaveRefreshed(t)
  PROVE  Handles(t)
<1>1. LetIn(t) \/ TurnAway(t) \/ (Await(t, "save") /\ UNCHANGED <<goto, authed>>)
  BY DEF RefreshAnswered, RefreshGranted, RefreshRefused, RefreshTimesOut, SaveRefreshed
<1>2. NoTouch /\ AuthFrame /\ UNCHANGED page
  BY DEF RefreshAnswered, RefreshTimesOut, SaveRefreshed
<1> QED  BY <1>1, <1>2, Turns, Lets DEF Handles, AuthPCs, NoTouch, AuthFrame, configVars, Await

LEMMA PagesServe ==
  ASSUME AuthTypeOK, NEW t \in Tabs,
         \/ ServeHome(t) \/ ServeDashboard(t) \/ StartLogin(t) \/ VerifyLogin(t)
         \/ StoreSession(t) \/ SkipLogout(t) \/ ResetSession(t) \/ DropSession(t)
  PROVE  Handles(t)
<1> USE DEF Handles, AuthPCs, NoTouch, Touch, AuthFrame, configVars, Await, Render, Redirect
<1>1. CASE ServeHome(t) \/ ServeDashboard(t)
  BY <1>1 DEF ServeHome, ServeDashboard
<1>2. CASE StartLogin(t) \/ VerifyLogin(t)
  BY <1>2 DEF StartLogin, VerifyLogin
<1>3. CASE StoreSession(t)
  BY <1>3 DEF StoreSession, StoreFails
<1>4. CASE SkipLogout(t) \/ ResetSession(t)
  BY <1>4 DEF SkipLogout, ResetSession
<1>5. CASE DropSession(t)
  BY <1>5 DEF DropSession
<1> QED  BY <1>1, <1>2, <1>3, <1>4, <1>5

LEMMA HandlersServe ==
  ASSUME AuthTypeOK, NEW t \in Tabs, AuthHandler(t) \/ ServeDashboard(t) \/ RefreshAnswered(t)
  PROVE  Handles(t)
  BY AuthenticateServes, RefreshServes, PagesServe DEF AuthHandler


-----------------------------------------------------------------------------
(* The type invariant.                                                     *)

Entries == [token : {"none", "fresh", "invalid"}, refresh : BOOLEAN]

LEMMA EntriesTyped ==
  /\ Absent \in Entries /\ Absent.token = "none"
  /\ NewSession \in Entries /\ NewSession # Absent
  /\ \A t \in Tabs : Renewed(t) \in Entries /\ Renewed(t) # Absent
  BY DEF Entries, Entry, Absent, NewSession, Renewed

\* The sessions' own variables are typed.
SessionsTyped ==
  /\ cache \in [SessionIds -> Entries]
  /\ used \subseteq SessionIds
  /\ cookie \in Sids
  /\ sid \in [Tabs -> Sids]
  /\ authed \in [Tabs -> BOOLEAN]
  /\ grant \in [Tabs -> SUBSET Grants]
  /\ jar \in [Tabs -> {"keep", "clear"} \cup SessionIds]
  /\ faults \in 0..MaxFaults

LEMMA AuthenticateTyped ==
  ASSUME SessionsTyped, NEW t \in Tabs, Authenticate(t) \/ RefreshTimesOut(t)
  PROVE  SessionsTyped'
<1>1. faults' \in 0..MaxFaults
  BY FaultCounted DEF SessionsTyped, Authenticate, LookUp, RefreshTimesOut
<1>2. UNCHANGED <<cache, used, grant, jar, cookie, sid>>
  BY DEF Authenticate, RefreshTimesOut, AuthFrame
<1>3. authed' \in [Tabs -> BOOLEAN]
  BY DEF SessionsTyped, Authenticate, LookUp, LetIn, TurnAway, RefreshTimesOut
<1> QED  BY <1>1, <1>2, <1>3 DEF SessionsTyped, Sids

LEMMA RefreshTyped ==
  ASSUME SessionsTyped, NEW t \in Tabs, RefreshAnswered(t) \/ SaveRefreshed(t)
  PROVE  SessionsTyped'
<1>1. UNCHANGED <<used, jar, cookie, sid>>
  BY DEF RefreshAnswered, SaveRefreshed, AuthFrame
<1>2. faults' \in 0..MaxFaults
  BY FaultCounted
  DEF SessionsTyped, RefreshAnswered, RefreshGranted, RefreshRefused, SaveRefreshed
<1>3. CASE RefreshAnswered(t)
  BY <1>1, <1>2, <1>3 DEF SessionsTyped, Sids, RefreshAnswered, RefreshGranted, RefreshRefused, TurnAway
<1>4. CASE SaveRefreshed(t)
  <2>1. Refreshed(t) \in [SessionIds -> Entries]
    BY EntriesTyped DEF Refreshed, SessionsTyped
  <2>2. cache' \in [SessionIds -> Entries] /\ grant' \in [Tabs -> SUBSET Grants]
    BY <1>4, <2>1 DEF SaveRefreshed, SessionsTyped
  <2>3. authed' \in [Tabs -> BOOLEAN]
    BY <1>4 DEF SaveRefreshed, SessionsTyped, LetIn, TurnAway
  <2> QED  BY <1>1, <1>2, <2>2, <2>3 DEF SessionsTyped, Sids
<1> QED  BY <1>3, <1>4

LEMMA LoginTyped ==
  ASSUME SessionsTyped, NEW t \in Tabs,
         \/ ServeHome(t) \/ ServeDashboard(t) \/ StartLogin(t) \/ VerifyLogin(t)
         \/ StoreSession(t) \/ SkipLogout(t) \/ ResetSession(t) \/ DropSession(t)
  PROVE  SessionsTyped'
<1>1. CASE \/ ServeHome(t) \/ ServeDashboard(t) \/ StartLogin(t) \/ VerifyLogin(t)
           \/ SkipLogout(t) \/ ResetSession(t)
  <2>1. UNCHANGED <<cache, used, cookie, sid, authed, grant, jar, faults>>
    BY <1>1 DEF ServeHome, ServeDashboard, StartLogin, VerifyLogin, SkipLogout, ResetSession, AuthFrame
  <2> QED  BY <2>1 DEF SessionsTyped, Sids
<1>2. CASE StoreSession(t)
  <2>1. UNCHANGED <<cookie, sid, authed, grant>> /\ faults' \in 0..MaxFaults
    BY <1>2, FaultCounted DEF SessionsTyped, StoreSession, StoreFails, AuthFrame
  <2>2. CASE UNCHANGED <<cache, used, jar>>
    BY <2>1, <2>2 DEF SessionsTyped, Sids
  <2>3. ASSUME NEW s \in SessionIds, cache' = [cache EXCEPT ![s] = NewSession],
               used' = used \cup {s}, SetCookie(t, s)
        PROVE  SessionsTyped'
    BY <2>1, <2>3, EntriesTyped DEF SessionsTyped, Sids, SetCookie
  <2> QED  BY <1>2, <2>2, <2>3 DEF StoreSession, StoreFails, FreshIds
<1>3. CASE DropSession(t)
  <2>1. UNCHANGED <<cookie, sid, used, authed, grant>> /\ faults' \in 0..MaxFaults
    BY <1>3, FaultCounted DEF SessionsTyped, DropSession, AuthFrame
  <2>2. cache' \in {cache, Dropped(t)} /\ jar' \in {jar, [jar EXCEPT ![t] = "clear"]}
    BY <1>3 DEF DropSession, SetCookie
  <2>3. Dropped(t) \in [SessionIds -> Entries]
    BY EntriesTyped DEF Dropped, SessionsTyped
  <2> QED  BY <2>1, <2>2, <2>3 DEF SessionsTyped, Sids
<1> QED  BY <1>1, <1>2, <1>3

LEMMA TypeSplits ==
  AuthTypeOK <=>
    /\ SessionsTyped
    /\ storage \in Storages
    /\ stored = EmptySession
    /\ pc \in [Tabs -> AuthPCs]
    /\ req \in [Tabs -> AuthRequests \cup {Nowhere}]
    /\ ses = [t \in Tabs |-> EmptySession]
    /\ dirty \in [Tabs -> BOOLEAN]
    /\ page = [t \in Tabs |-> BlankPage]
    /\ goto \in [Tabs -> {Nowhere, Home, Dashboard}]
    /\ aborts \in 0..MaxAborts
    /\ provider \in Providers
    /\ refreshes \in RefreshSettings
  BY DEF AuthTypeOK, SessionsTyped, Entries

\* Their types, and what the steps of authentication need of a request: enough to
\* reason about them where requests also go on to pages of another module.
SignInTyped ==
  /\ SessionsTyped
  /\ pc = [t \in Tabs |-> pc[t]]
  /\ \A t \in Tabs : EntryPoint(req[t]) \in {"handler", "gate"}

\* The steps of a request that the sign-in takes part in.
SignInSteps(t) ==
  \/ AuthHandler(t) \/ ServeDashboard(t) \/ RefreshAnswered(t)
  \/ Respond(t) /\ UNCHANGED sessionVars
  \/ Receive(t) \/ Lose(t)
  \/ \E r : pc[t] \in {"rest", "redirected"} /\ Enter(t, r)

LEMMA SignInsTyped ==
  ASSUME AuthTypeOK
  PROVE  SignInTyped
  BY TypeSplits, RequestsEnter DEF SignInTyped

LEMMA LetsOn ==
  ASSUME SignInTyped, NEW t \in Tabs, LetIn(t)
  PROVE  /\ pc' \in {[pc EXCEPT ![t] = "handler"], [pc EXCEPT ![t] = "gate"]}
         /\ authed' = [authed EXCEPT ![t] = TRUE]
  BY DEF LetIn, Await, SignInTyped

LEMMA HandlersMove ==
  ASSUME NEW t \in Tabs, AuthHandler(t) \/ ServeDashboard(t) \/ RefreshAnswered(t)
  PROVE  UNCHANGED <<cookie, sid, refreshes>> /\ \E x : pc' = [pc EXCEPT ![t] = x]
<1>1. UNCHANGED <<cookie, sid, refreshes>>
  BY DEF AuthHandler, ServeDashboard, RefreshAnswered, Authenticate, RefreshTimesOut,
       SaveRefreshed, ServeHome, StartLogin, VerifyLogin, StoreSession, SkipLogout, ResetSession,
       DropSession, AuthFrame, configVars
<1>2. CASE Authenticate(t) \/ RefreshAnswered(t) \/ RefreshTimesOut(t) \/ SaveRefreshed(t)
  <2>1. LetIn(t) \/ TurnAway(t) \/ Await(t, "refresh") \/ Await(t, "save")
    BY <1>2 DEF Authenticate, LookUp, RefreshAnswered, RefreshGranted, RefreshRefused,
         RefreshTimesOut, SaveRefreshed
  <2> QED  BY <1>1, <2>1 DEF LetIn, TurnAway, Await
<1>3. CASE \/ ServeHome(t) \/ ServeDashboard(t) \/ StartLogin(t) \/ VerifyLogin(t)
           \/ StoreSession(t) \/ SkipLogout(t) \/ ResetSession(t) \/ DropSession(t)
  <2>1. \E x : Await(t, x)
    BY <1>3 DEF ServeHome, ServeDashboard, StartLogin, VerifyLogin, StoreSession, StoreFails,
         SkipLogout, ResetSession, DropSession, Render, Redirect
  <2> QED  BY <1>1, <2>1 DEF Await
<1> QED  BY <1>2, <1>3 DEF AuthHandler

LEMMA BrowserSessionsTyped ==
  ASSUME SessionsTyped, NEW t \in Tabs,
         (\E r : Enter(t, r)) \/ UNCHANGED sessionVars \/ Receive(t) \/ Lose(t)
  PROVE  SessionsTyped'
<1>1. UNCHANGED <<cache, used, grant, faults>>
  BY DEF Enter, sessionVars, Receive, Lose
<1>2. sid' \in [Tabs -> Sids] /\ authed' \in [Tabs -> BOOLEAN]
  BY DEF SessionsTyped, Sids, Enter, sessionVars, Receive, Lose, Forget
<1>3. jar' \in [Tabs -> {"keep", "clear"} \cup SessionIds]
  BY DEF SessionsTyped, Enter, sessionVars, Receive, Lose, Forget
<1>4. cookie' \in Sids
  BY DEF SessionsTyped, Sids, Enter, sessionVars, Receive, Lose, CookieAfter
<1> QED  BY <1>1, <1>2, <1>3, <1>4 DEF SessionsTyped, Sids

LEMMA TimeSessionsTyped ==
  ASSUME SessionsTyped, AuthTime
  PROVE  SessionsTyped'
<1>1. Fault /\ UNCHANGED <<used, sid, authed, grant, jar>>
  BY DEF AuthTime, TokenExpires, SessionLapses, CookieLapses
<1>2. cache' \in [SessionIds -> Entries]
  BY EntriesTyped DEF AuthTime, TokenExpires, SessionLapses, CookieLapses, Entries, SessionsTyped
<1>3. cookie' \in Sids
  BY DEF AuthTime, TokenExpires, SessionLapses, CookieLapses, SessionsTyped, Sids
<1> QED  BY <1>1, <1>2, <1>3, FaultCounted DEF SessionsTyped, Sids

LEMMA HandlersSessionsTyped ==
  ASSUME SessionsTyped, NEW t \in Tabs,
         AuthHandler(t) \/ ServeDashboard(t) \/ RefreshAnswered(t)
  PROVE  SessionsTyped'
<1>1. CASE ServeDashboard(t)
  <2>1. UNCHANGED sessionVars
    BY <1>1 DEF ServeDashboard, AuthFrame, sessionVars, configVars
  <2> QED  BY <2>1, BrowserSessionsTyped
<1> QED  BY <1>1, AuthenticateTyped, RefreshTyped, LoginTyped DEF AuthHandler

LEMMA ServesTyped ==
  ASSUME AuthTypeOK, NEW t \in Tabs, Handles(t), SessionsTyped'
  PROVE  AuthTypeOK'
<1>1. ses' = [u \in Tabs |-> EmptySession] /\ page' = [u \in Tabs |-> BlankPage]
  BY DEF Handles, AuthTypeOK
<1>2. pc' \in [Tabs -> AuthPCs]
  BY DEF Handles, AuthTypeOK
<1>3. dirty' \in [Tabs -> BOOLEAN] /\ goto' \in [Tabs -> {Nowhere, Home, Dashboard}]
  BY DEF Handles, AuthTypeOK
<1>4. UNCHANGED <<storage, stored, req, aborts, provider, refreshes>>
  BY DEF Handles, HandlerFrame
<1> QED  BY <1>1, <1>2, <1>3, <1>4 DEF AuthTypeOK, SessionsTyped, Entries, Sids

LEMMA EnterTyped ==
  ASSUME AuthTypeOK, NEW t \in Tabs, NEW r \in AuthRequests \cup {Nowhere}, Enter(t, r)
  PROVE  AuthTypeOK'
<1>1. sid' \in [Tabs -> Sids]
  BY DEF Enter, AuthTypeOK
<1>2. /\ pc' \in [Tabs -> AuthPCs]
      /\ req' \in [Tabs -> AuthRequests \cup {Nowhere}]
      /\ ses' = [u \in Tabs |-> EmptySession]
      /\ dirty' \in [Tabs -> BOOLEAN]
      /\ goto' \in [Tabs -> {Nowhere, Home, Dashboard}]
  BY DEF Enter, Load, AuthTypeOK, AuthPCs
<1> QED  BY <1>1, <1>2 DEF Enter, Load, configVars, AuthTypeOK, Sids

LEMMA AnswerTyped ==
  ASSUME AuthTypeOK, NEW t \in Tabs, Respond(t), UNCHANGED sessionVars
  PROVE  AuthTypeOK'
<1>1. stored' = EmptySession
  BY DEF Respond, Commit, AuthTypeOK
<1>2. pc' \in [Tabs -> AuthPCs]
  BY DEF Respond, AuthTypeOK, AuthPCs
<1> QED  BY <1>1, <1>2 DEF Respond, sessionVars, configVars, AuthTypeOK, Sids

LEMMA ForgetTyped ==
  ASSUME AuthTypeOK, NEW t \in Tabs, Forget(t), Release(t)
  PROVE  /\ sid' \in [Tabs -> Sids]
         /\ authed' \in [Tabs -> BOOLEAN]
         /\ jar' \in [Tabs -> {"keep", "clear"} \cup SessionIds]
         /\ ses' = [u \in Tabs |-> EmptySession]
         /\ dirty' \in [Tabs -> BOOLEAN]
         /\ page' = [u \in Tabs |-> BlankPage]
  BY DEF Forget, Release, AuthTypeOK, Sids

LEMMA ReceiveTyped ==
  ASSUME AuthTypeOK, NEW t \in Tabs, Receive(t)
  PROVE  AuthTypeOK'
<1>1. Forget(t) /\ Release(t)
  BY DEF Receive, Deliver
<1>2. stored' = EmptySession /\ pc' \in [Tabs -> AuthPCs]
  BY DEF Receive, Deliver, Commit, AuthTypeOK, AuthPCs
<1>3. cookie' \in Sids
  BY DEF Receive, CookieAfter, AuthTypeOK, Sids
<1>4. UNCHANGED <<storage, req, goto, aborts, provider, refreshes, cache, used, grant, faults>>
  BY DEF Receive, Deliver, configVars
<1> QED  BY <1>1, <1>2, <1>3, <1>4, ForgetTyped DEF AuthTypeOK, Sids

LEMMA LoseTyped ==
  ASSUME AuthTypeOK, NEW t \in Tabs, Lose(t)
  PROVE  AuthTypeOK'
<1>1. Forget(t) /\ Release(t)
  BY DEF Lose, GiveUp
<1>2. pc' \in [Tabs -> AuthPCs] /\ goto' \in [Tabs -> {Nowhere, Home, Dashboard}]
  BY DEF Lose, GiveUp, AuthTypeOK, AuthPCs
<1>3. aborts' \in 0..MaxAborts
  BY MaxAbortsAssumption DEF Lose, GiveUp, AuthTypeOK
<1>4. req' \in [Tabs -> AuthRequests \cup {Nowhere}]
  BY DEF Lose, GiveUp, AuthTypeOK
<1>5. UNCHANGED <<storage, stored, provider, refreshes, cache, used, cookie, grant, faults>>
  BY DEF Lose, GiveUp, configVars
<1> QED  BY <1>1, <1>2, <1>3, <1>4, <1>5, ForgetTyped DEF AuthTypeOK, Sids

LEMMA TimeTyped ==
  ASSUME AuthTypeOK, AuthTime
  PROVE  AuthTypeOK'
<1>1. SessionsTyped'
  BY TypeSplits, TimeSessionsTyped
<1>2. UNCHANGED <<requestVars, configVars>>
  BY DEF AuthTime, TokenExpires, SessionLapses, CookieLapses
<1> QED  BY <1>1, <1>2 DEF AuthTypeOK, SessionsTyped, Entries, Sids, requestVars, configVars

\* What is not a step of authentication or of a handler.
LEMMA OtherSteps ==
  ASSUME NEW t \in Tabs, AuthUser(t) \/ AuthPortal(t), AuthTypeOK
  PROVE  \/ AuthHandler(t) \/ ServeDashboard(t)
         \/ Respond(t) /\ UNCHANGED sessionVars
         \/ Receive(t) \/ Lose(t)
         \/ \E r \in AuthRequests \cup {Nowhere} : pc[t] \in {"rest", "redirected"} /\ Enter(t, r)
<1>1. CASE FollowRedirect(t)
  BY <1>1, RequestsEnter DEF FollowRedirect, AuthTypeOK
<1>2. CASE AuthUser(t)
  BY <1>2 DEF AuthUser, OpenPage
<1> QED  BY <1>1, <1>2 DEF AuthPortal

\* Every state of the sign-in is well typed, and the portal's own session stays
\* empty, for any number of tabs and ids and any configuration.
THEOREM AuthTypeCorrect == AuthSpec => []AuthTypeOK
<1>1. AuthInit => AuthTypeOK
  <2> SUFFICES ASSUME AuthInit  PROVE AuthTypeOK
    OBVIOUS
  <2>1. aborts \in 0..MaxAborts /\ faults \in 0..MaxFaults
    BY MaxAbortsAssumption, MaxFaultsAssumption DEF AuthInit, RequestInit, SessionInit
  <2> QED  BY <2>1, EntriesTyped
    DEF AuthInit, RequestInit, SessionInit, AuthTypeOK, AuthPCs, Sids, Entries
<1>2. AuthTypeOK /\ [AuthNext]_authVars => AuthTypeOK'
  <2> SUFFICES ASSUME AuthTypeOK, [AuthNext]_authVars  PROVE AuthTypeOK'
    OBVIOUS
  <2>1. CASE UNCHANGED authVars
    BY <2>1 DEF authVars, requestVars, sessionVars, configVars, AuthTypeOK, Sids
  <2>2. ASSUME NEW t \in Tabs, AuthHandler(t) \/ ServeDashboard(t) \/ RefreshAnswered(t)
        PROVE  AuthTypeOK'
    <3>1. SessionsTyped'
      BY <2>2, TypeSplits, HandlersSessionsTyped
    <3> QED  BY <2>2, <3>1, HandlersServe, ServesTyped
  <2>3. ASSUME NEW t \in Tabs, AuthUser(t) \/ AuthPortal(t)  PROVE AuthTypeOK'
    BY <2>2, <2>3, OtherSteps, EnterTyped, AnswerTyped, ReceiveTyped, LoseTyped
  <2>4. CASE AuthTime
    BY <2>4, TimeTyped
  <2> QED  BY <2>1, <2>2, <2>3, <2>4 DEF AuthNext
<1> QED  BY <1>1, <1>2, PTL DEF AuthSpec

-----------------------------------------------------------------------------
(* Ids are stored before they are given out.                               *)

LEMMA HandlersKeepNames ==
  ASSUME SignInTyped, CookieNamesStored, NEW t \in Tabs,
         AuthHandler(t) \/ ServeDashboard(t) \/ RefreshAnswered(t)
  PROVE  CookieNamesStored'
<1>1. UNCHANGED <<cookie, sid>>
  BY HandlersMove
<1>2. used \subseteq used' /\ \A u \in Tabs : jar'[u] \in used' \cup {"keep", "clear"}
  <2>1. CASE StoreSession(t)
    BY <2>1 DEF StoreSession, StoreFails, SetCookie, CookieNamesStored, SignInTyped, SessionsTyped
  <2>2. CASE DropSession(t)
    BY <2>2 DEF DropSession, SetCookie, CookieNamesStored, SignInTyped, SessionsTyped
  <2>3. CASE UNCHANGED <<used, jar>>
    BY <2>3 DEF CookieNamesStored
  <2>4. StoreSession(t) \/ DropSession(t) \/ UNCHANGED <<used, jar>>
    BY DEF AuthHandler, ServeDashboard, RefreshAnswered, Authenticate, RefreshTimesOut,
         SaveRefreshed, ServeHome, StartLogin, VerifyLogin, SkipLogout, ResetSession
  <2> QED  BY <2>1, <2>2, <2>3, <2>4
<1> QED  BY <1>1, <1>2 DEF CookieNamesStored

LEMMA BrowserKeepsNames ==
  ASSUME SignInTyped, CookieNamesStored, NEW t \in Tabs,
         \/ \E r : Enter(t, r)
         \/ Respond(t) /\ UNCHANGED sessionVars
         \/ Receive(t) \/ Lose(t)
  PROVE  CookieNamesStored'
<1>1. CASE \E r : Enter(t, r)
  BY <1>1 DEF Enter, CookieNamesStored, SignInTyped, SessionsTyped
<1>2. CASE Respond(t) /\ UNCHANGED sessionVars
  BY <1>2 DEF sessionVars, CookieNamesStored
<1>3. CASE Receive(t)
  BY <1>3 DEF Receive, Forget, CookieAfter, CookieNamesStored, SignInTyped, SessionsTyped
<1>4. CASE Lose(t)
  BY <1>4 DEF Lose, Forget, CookieNamesStored, SignInTyped, SessionsTyped
<1> QED  BY <1>1, <1>2, <1>3, <1>4

LEMMA TimeKeepsNames ==
  ASSUME CookieNamesStored, AuthTime \/ UNCHANGED sessionVars
  PROVE  CookieNamesStored'
  BY DEF AuthTime, TokenExpires, SessionLapses, CookieLapses, CookieNamesStored, sessionVars

\* Whatever fails and however the tabs interleave, no browser, request or response
\* has the id of a session that was never stored.
THEOREM CookiesNameStored == AuthSpec => []CookieNamesStored
<1>1. AuthInit => CookieNamesStored
  BY DEF AuthInit, SessionInit, CookieNamesStored
<1>2. AuthTypeOK /\ CookieNamesStored /\ [AuthNext]_authVars => CookieNamesStored'
  <2> SUFFICES ASSUME AuthTypeOK, CookieNamesStored, [AuthNext]_authVars
               PROVE  CookieNamesStored'
    OBVIOUS
  <2>1. CASE UNCHANGED authVars
    BY <2>1 DEF authVars, sessionVars, CookieNamesStored
  <2>2. ASSUME NEW t \in Tabs, AuthUser(t) \/ AuthPortal(t)  PROVE CookieNamesStored'
    BY <2>2, OtherSteps, SignInsTyped, HandlersKeepNames, BrowserKeepsNames
  <2>3. ASSUME NEW t \in Tabs, RefreshAnswered(t)  PROVE CookieNamesStored'
    BY <2>3, SignInsTyped, HandlersKeepNames
  <2>4. CASE AuthTime
    BY <2>4, TimeKeepsNames
  <2> QED  BY <2>1, <2>2, <2>3, <2>4 DEF AuthNext
<1> QED  BY <1>1, <1>2, AuthTypeCorrect, PTL DEF AuthSpec

-----------------------------------------------------------------------------
(* A request that is refreshing, signing out or let in came with an id, and *)
(* one refreshes only where tokens are refreshed.                          *)

SidsMatter ==
  \A t \in Tabs :
    /\ pc[t] \in {"refresh", "save", "drop"} => sid[t] # "none"
    /\ pc[t] \in {"refresh", "save"} => refreshes
    /\ authed[t] => /\ sid[t] # "none"
                    /\ pc[t] \notin {"rest", "redirected", "auth", "refresh", "save"}

LEMMA HandlersKeepSids ==
  ASSUME SignInTyped, SidsMatter, NEW t \in Tabs,
         AuthHandler(t) \/ ServeDashboard(t) \/ RefreshAnswered(t)
  PROVE  SidsMatter'
<1> USE DEF SidsMatter
<1>1. UNCHANGED <<sid, refreshes>> /\ pc = [u \in Tabs |-> pc[u]] /\ authed \in [Tabs -> BOOLEAN]
  BY HandlersMove DEF SignInTyped, SessionsTyped
<1>2. CASE Authenticate(t)
  <2>1. \/ LetIn(t) /\ sid[t] # "none"
        \/ TurnAway(t)
        \/ sid[t] # "none" /\ refreshes /\ Await(t, "refresh") /\ UNCHANGED authed
    BY <1>2 DEF Authenticate, LookUp, MayRefresh
  <2> QED  BY <1>1, <1>2, <2>1, Turns, LetsOn DEF Authenticate, Await
<1>3. CASE RefreshAnswered(t) \/ RefreshTimesOut(t) \/ SaveRefreshed(t)
  <2>1. LetIn(t) \/ TurnAway(t) \/ (Await(t, "save") /\ UNCHANGED authed)
    BY <1>3 DEF RefreshAnswered, RefreshGranted, RefreshRefused, RefreshTimesOut, SaveRefreshed
  <2>2. pc[t] \in {"refresh", "save"}
    BY <1>3 DEF RefreshAnswered, RefreshTimesOut, SaveRefreshed
  <2> QED  BY <1>1, <2>1, <2>2, Turns, LetsOn DEF Await
<1>4. CASE ServeHome(t) \/ ServeDashboard(t) \/ StartLogin(t) \/ VerifyLogin(t) \/ StoreSession(t) \/ SkipLogout(t)
  <2>1. authed' = authed /\ \E x \in {"done", "verify", "store"} : pc' = [pc EXCEPT ![t] = x]
    BY <1>4 DEF ServeHome, ServeDashboard, StartLogin, VerifyLogin, StoreSession, StoreFails,
         SkipLogout, Render, Redirect, Await
  <2> QED  BY <1>1, <2>1
<1>5. CASE ResetSession(t) \/ DropSession(t)
  BY <1>1, <1>5 DEF ResetSession, DropSession, Render, Redirect, Await
<1> QED  BY <1>2, <1>3, <1>4, <1>5 DEF AuthHandler

LEMMA BrowserKeepsSids ==
  ASSUME SignInTyped, SidsMatter, NEW t \in Tabs,
         \/ \E r : pc[t] \in {"rest", "redirected"} /\ Enter(t, r)
         \/ Respond(t) /\ UNCHANGED sessionVars
         \/ Receive(t) \/ Lose(t)
  PROVE  SidsMatter'
<1> USE DEF SidsMatter, SignInTyped, SessionsTyped, configVars
<1>1. CASE \E r : pc[t] \in {"rest", "redirected"} /\ Enter(t, r)
  <2>1. PICK r : Enter(t, r)
    BY <1>1
  <2>2. UNCHANGED <<authed, refreshes>> /\ sid' = [sid EXCEPT ![t] = cookie] /\ ~authed[t]
    BY <1>1, <2>1 DEF Enter
  <2>3. pc' \in {[pc EXCEPT ![t] = "handler"], [pc EXCEPT ![t] = "auth"]}
    BY <2>1 DEF Enter, Load
  <2> QED  BY <2>2, <2>3
<1>2. CASE Respond(t) /\ UNCHANGED sessionVars
  BY <1>2 DEF Respond, sessionVars
<1>3. CASE Receive(t)
  BY <1>3 DEF Receive, Deliver, Forget
<1>4. CASE Lose(t)
  BY <1>4 DEF Lose, GiveUp, Forget
<1> QED  BY <1>1, <1>2, <1>3, <1>4

LEMMA TimeKeepsSids ==
  ASSUME SidsMatter, AuthTime \/ UNCHANGED <<requestVars, sessionVars>>
  PROVE  SidsMatter'
  BY DEF AuthTime, TokenExpires, SessionLapses, CookieLapses, SidsMatter, requestVars, sessionVars,
       configVars

LEMMA SidsKept == AuthSpec => []SidsMatter
<1>1. AuthInit => SidsMatter
  BY DEF AuthInit, RequestInit, SessionInit, SidsMatter
<1>2. AuthTypeOK /\ SidsMatter /\ [AuthNext]_authVars => SidsMatter'
  <2> SUFFICES ASSUME AuthTypeOK, SidsMatter, [AuthNext]_authVars
               PROVE  SidsMatter'
    OBVIOUS
  <2>1. CASE UNCHANGED authVars
    BY <2>1 DEF authVars, requestVars, sessionVars, configVars, SidsMatter
  <2>2. ASSUME NEW t \in Tabs, AuthUser(t) \/ AuthPortal(t)  PROVE SidsMatter'
    BY <2>2, OtherSteps, SignInsTyped, HandlersKeepSids, BrowserKeepsSids
  <2>3. ASSUME NEW t \in Tabs, RefreshAnswered(t)  PROVE SidsMatter'
    BY <2>3, SignInsTyped, HandlersKeepSids
  <2>4. CASE AuthTime
    BY <2>4, TimeKeepsSids
  <2> QED  BY <2>1, <2>2, <2>3, <2>4 DEF AuthNext
<1> QED  BY <1>1, <1>2, AuthTypeCorrect, PTL DEF AuthSpec

-----------------------------------------------------------------------------
(* Only a sign-out, or a grant of nothing, ends a usable session.          *)

LEMMA GrantedIsUsable ==
  /\ Usable(NewSession)
  /\ \A t \in Tabs : grant[t] \subseteq Grants /\ grant[t] # {} /\ refreshes => Usable(Renewed(t))
  BY DEF Usable, NewSession, Entry, Renewed, Grants

\* The request by which a session may end.
EndsOwn(t, s) == sid[t] = s /\ (pc[t] = "drop" \/ (pc[t] = "save" /\ grant[t] = {}))

LEMMA CacheWrites ==
  ASSUME SignInTyped, SidsMatter, NEW t \in Tabs, SignInSteps(t),
         NEW s \in SessionIds, Usable(cache[s]), ~Usable(cache'[s])
  PROVE  (SaveRefreshed(t) \/ DropSession(t)) /\ EndsOwn(t, s)
<1>1. cache \in [SessionIds -> Entries]
  BY DEF SignInTyped, SessionsTyped
<1>2. cache' # cache
  OBVIOUS
<1>3. SaveRefreshed(t) \/ StoreSession(t) \/ DropSession(t)
  BY <1>2 DEF SignInSteps, AuthHandler, ServeDashboard, RefreshAnswered, RefreshGranted,
       RefreshRefused, Authenticate, RefreshTimesOut, ServeHome, StartLogin, VerifyLogin,
       SkipLogout, ResetSession, sessionVars, Receive, Lose, Enter
<1>4. CASE SaveRefreshed(t)
  <2>1. cache'[s] = IF sid[t] = s THEN Renewed(t) ELSE cache[s]
    BY <1>1, <1>2, <1>4 DEF SaveRefreshed, Refreshed
  <2>2. pc[t] = "save" /\ refreshes /\ grant[t] \subseteq Grants
    BY <1>4 DEF SaveRefreshed, SidsMatter, SignInTyped, SessionsTyped
  <2> QED  BY <1>4, <2>1, <2>2, GrantedIsUsable DEF EndsOwn
<1>5. ~StoreSession(t)
  BY <1>1, <1>2, GrantedIsUsable DEF StoreSession, StoreFails, FreshIds
<1>6. DropSession(t) => EndsOwn(t, s)
  BY <1>1, <1>2 DEF DropSession, Dropped, EndsOwn
<1> QED  BY <1>3, <1>4, <1>5, <1>6

LEMMA OneTabServed ==
  ASSUME SignInTyped, NEW t \in Tabs, SaveRefreshed(t) \/ DropSession(t),
         NEW u \in Tabs, pc'[u] # pc[u]
  PROVE  u = t
<1>1. \E x : pc' = [pc EXCEPT ![t] = x]
  BY HandlersMove DEF AuthHandler
<1> QED  BY <1>1 DEF SignInTyped

\* However refreshes race and whatever fails, no request ends a usable session but
\* the sign-out of that very session, and one to which Entra granted nothing.
THEOREM OnlySignOutEndsSessions == AuthSpec => OnlySignOutEnds
<1> DEFINE Ends == \A t \in Tabs, s \in SessionIds :
                     pc'[t] # pc[t] /\ Usable(cache[s]) /\ ~Usable(cache'[s]) => EndsOwn(t, s)
<1>1. AuthTypeOK /\ SidsMatter /\ [AuthNext]_authVars => [Ends]_authVars
  <2> SUFFICES ASSUME AuthTypeOK, SidsMatter, AuthNext, NEW t \in Tabs, NEW s \in SessionIds,
                      pc'[t] # pc[t], Usable(cache[s]), ~Usable(cache'[s])
               PROVE  EndsOwn(t, s)
    OBVIOUS
  <2>1. ASSUME NEW u \in Tabs, AuthUser(u) \/ AuthPortal(u) \/ RefreshAnswered(u)
        PROVE  EndsOwn(t, s)
    <3>1. SignInTyped /\ SignInSteps(u)
      BY <2>1, SignInsTyped, OtherSteps DEF SignInSteps
    <3>2. (SaveRefreshed(u) \/ DropSession(u)) /\ EndsOwn(u, s)
      BY <3>1, CacheWrites
    <3>3. t = u
      BY <3>1, <3>2, OneTabServed
    <3> QED  BY <3>2, <3>3
  <2>2. ~AuthTime
    BY DEF AuthTime, TokenExpires, SessionLapses, CookieLapses, requestVars
  <2> QED  BY <2>1, <2>2 DEF AuthNext
<1>2. AuthSpec => [][Ends]_authVars
  BY <1>1, AuthTypeCorrect, SidsKept, PTL DEF AuthSpec
<1> QED  BY <1>2 DEF OnlySignOutEnds, Ends, EndsOwn

-----------------------------------------------------------------------------
(* The sessions implement SessionLife.                                     *)

RefreshPCs == {"refresh", "save"}

LEMMA LivesFramed ==
  ASSUME used' = used, \A s \in SessionIds : cache'[s] = Absent <=> cache[s] = Absent
  PROVE  Lives' = Lives
  BY DEF Lives, LifeOf

LEMMA RefreshingFramed ==
  ASSUME NEW t \in Tabs, \A u \in Tabs \ {t} : pc'[u] = pc[u] /\ sid'[u] = sid[u],
         \/ pc[t] \notin RefreshPCs /\ pc'[t] \notin RefreshPCs
         \/ pc[t] \in RefreshPCs /\ pc'[t] \in RefreshPCs /\ sid'[t] = sid[t]
  PROVE  Refreshing' = Refreshing
<1>1. { u \in Tabs : pc'[u] \in RefreshPCs } = { u \in Tabs : pc[u] \in RefreshPCs }
  OBVIOUS
<1> QED  BY <1>1 DEF Refreshing, RefreshPCs

LEMMA RefreshingLeft ==
  ASSUME NEW t \in Tabs, \A u \in Tabs \ {t} : pc'[u] = pc[u], sid' = sid,
         pc[t] \in RefreshPCs, pc'[t] \notin RefreshPCs
  PROVE  Refreshing' \in {Refreshing, Refreshing \ {sid[t]}}
<1>1. { u \in Tabs : pc'[u] \in RefreshPCs } = { u \in Tabs : pc[u] \in RefreshPCs } \ {t}
  OBVIOUS
<1>2. Refreshing' = { sid[u] : u \in { u \in Tabs : pc[u] \in RefreshPCs } \ {t} }
  BY <1>1 DEF Refreshing, RefreshPCs
<1>3. Refreshing = { sid[u] : u \in { u \in Tabs : pc[u] \in RefreshPCs } }
  BY DEF Refreshing, RefreshPCs
<1> QED  BY <1>2, <1>3

LEMMA RefreshingJoined ==
  ASSUME NEW t \in Tabs, \A u \in Tabs \ {t} : pc'[u] = pc[u], sid' = sid,
         pc[t] \notin RefreshPCs, pc'[t] \in RefreshPCs
  PROVE  Refreshing' = Refreshing \cup {sid[t]}
<1>1. { u \in Tabs : pc'[u] \in RefreshPCs } = { u \in Tabs : pc[u] \in RefreshPCs } \cup {t}
  OBVIOUS
<1>2. Refreshing' = { sid[u] : u \in { u \in Tabs : pc[u] \in RefreshPCs } \cup {t} }
  BY <1>1 DEF Refreshing, RefreshPCs
<1>3. Refreshing = { sid[u] : u \in { u \in Tabs : pc[u] \in RefreshPCs } }
  BY DEF Refreshing, RefreshPCs
<1> QED  BY <1>2, <1>3

LifeStep == [Life!LifeNext]_<<Lives, Refreshing>>

LEMMA LifeStutters ==
  ASSUME Lives' = Lives, Refreshing' = Refreshing
  PROVE  LifeStep
  BY DEF LifeStep

LEMMA BrowserLives ==
  ASSUME SignInTyped, NEW t \in Tabs,
         \/ \E r : pc[t] \in {"rest", "redirected"} /\ Enter(t, r)
         \/ Respond(t) /\ UNCHANGED sessionVars
         \/ Receive(t) \/ Lose(t)
  PROVE  LifeStep
<1>1. UNCHANGED <<cache, used>>
  BY DEF Enter, sessionVars, Receive, Lose
<1>2. /\ \A u \in Tabs \ {t} : pc'[u] = pc[u] /\ sid'[u] = sid[u]
      /\ pc[t] \notin RefreshPCs /\ pc'[t] \notin RefreshPCs
  BY DEF SignInTyped, SessionsTyped, RefreshPCs, Enter, Load, Respond, sessionVars, Receive, Deliver, Forget,
       Lose, GiveUp
<1> QED  BY <1>1, <1>2, LivesFramed, RefreshingFramed, LifeStutters

LEMMA RefreshLives ==
  ASSUME SignInTyped, CookieNamesStored, SidsMatter, NEW t \in Tabs,
         Authenticate(t) \/ RefreshAnswered(t) \/ RefreshTimesOut(t)
  PROVE  LifeStep
<1>1. UNCHANGED <<cache, used, sid>>
  BY DEF Authenticate, RefreshAnswered, RefreshGranted, RefreshRefused, RefreshTimesOut, AuthFrame
<1>2. Lives' = Lives
  BY <1>1, LivesFramed
<1>3. pc' = [pc EXCEPT ![t] = pc'[t]] /\ \A u \in Tabs \ {t} : pc'[u] = pc[u]
  <2>1. \E x : pc' = [pc EXCEPT ![t] = x]
    BY HandlersMove DEF AuthHandler
  <2> QED  BY <2>1 DEF SignInTyped
<1>4. CASE pc[t] \in RefreshPCs /\ pc'[t] \notin RefreshPCs
  <2>1. sid[t] \in SessionIds
    BY <1>4 DEF SidsMatter, RefreshPCs, SignInTyped, SessionsTyped, Sids
  <2>2. Refreshing' \in {Refreshing, Refreshing \ {sid[t]}}
    BY <1>1, <1>3, <1>4, RefreshingLeft
  <2> QED  BY <1>2, <2>1, <2>2 DEF LifeStep, Life!LifeNext, Life!EndRefresh
<1>5. CASE pc[t] \notin RefreshPCs /\ pc'[t] \in RefreshPCs
  <2>1. Authenticate(t) /\ pc[t] = "auth"
    BY <1>5 DEF Authenticate, RefreshAnswered, RefreshTimesOut, RefreshPCs
  <2>2. sid[t] # "none" /\ cache[sid[t]] # Absent
    BY <1>3, <1>5, <2>1, Turns, LetsOn DEF Authenticate, LookUp, RefreshPCs, SignInTyped, SessionsTyped
  <2>3. sid[t] \in SessionIds /\ sid[t] \in used
    BY <2>2 DEF CookieNamesStored, SignInTyped, SessionsTyped, Sids
  <2>4. Lives[sid[t]] = "in"
    BY <2>2, <2>3 DEF Lives, LifeOf
  <2>5. Refreshing' = Refreshing \cup {sid[t]}
    BY <1>1, <1>3, <1>5, RefreshingJoined
  <2> QED  BY <1>2, <2>3, <2>4, <2>5 DEF LifeStep, Life!LifeNext, Life!BeginRefresh
<1>6. CASE (pc[t] \in RefreshPCs) = (pc'[t] \in RefreshPCs)
  BY <1>1, <1>2, <1>3, <1>6, RefreshingFramed, LifeStutters
<1> QED  BY <1>4, <1>5, <1>6

LEMMA SaveLives ==
  ASSUME SignInTyped, CookieNamesStored, SidsMatter, NEW t \in Tabs, SaveRefreshed(t)
  PROVE  LifeStep
<1> DEFINE s == sid[t]
<1>1. s \in SessionIds /\ s \in used /\ pc[t] = "save"
  BY DEF SaveRefreshed, SidsMatter, CookieNamesStored, SignInTyped, SessionsTyped, Sids
<1>2. UNCHANGED <<sid, used>> /\ cache' \in {cache, Refreshed(t)}
  BY DEF SaveRefreshed, AuthFrame
<1>3. \E x \in {"handler", "gate", "done"} : pc' = [pc EXCEPT ![t] = x]
  BY Turns, LetsOn DEF SaveRefreshed
<1>4. Refreshing' \in {Refreshing, Refreshing \ {s}}
  BY <1>1, <1>2, <1>3, RefreshingLeft DEF RefreshPCs, SignInTyped, SessionsTyped
<1>5. s \in Refreshing
  BY <1>1 DEF Refreshing
<1>6. cache \in [SessionIds -> Entries]
  BY DEF SignInTyped, SessionsTyped
<1>7. CASE cache' = Refreshed(t) /\ cache[s] = Absent
  <2>1. \A x \in SessionIds : cache'[x] = IF x = s THEN Renewed(t) ELSE cache[x]
    BY <1>6, <1>7 DEF Refreshed
  <2>2. cache'[s] # Absent
    BY <1>1, <2>1, EntriesTyped
  <2>3. Lives[s] = "out" /\ Lives' = [Lives EXCEPT ![s] = "in"]
    BY <1>1, <1>2, <1>7, <2>1, <2>2 DEF Lives, LifeOf
  <2> QED  BY <1>1, <1>4, <1>5, <2>3 DEF LifeStep, Life!LifeNext, Life!Return
<1>8. CASE cache' = cache \/ cache[s] # Absent
  <2>1. \A x \in SessionIds : cache'[x] = Absent <=> cache[x] = Absent
    BY <1>2, <1>6, <1>8, EntriesTyped DEF Refreshed
  <2>2. Lives' = Lives
    BY <1>2, <2>1, LivesFramed
  <2> QED  BY <1>1, <1>4, <2>2 DEF LifeStep, Life!LifeNext, Life!EndRefresh
<1> QED  BY <1>2, <1>7, <1>8

LEMMA PagesLive ==
  ASSUME SignInTyped, CookieNamesStored, SidsMatter, NEW t \in Tabs,
         \/ ServeHome(t) \/ ServeDashboard(t) \/ StartLogin(t) \/ VerifyLogin(t)
         \/ StoreSession(t) \/ SkipLogout(t) \/ ResetSession(t) \/ DropSession(t)
  PROVE  LifeStep
<1>1. sid' = sid /\ cache \in [SessionIds -> Entries]
  BY HandlersMove DEF AuthHandler, SignInTyped, SessionsTyped
<1>2. Refreshing' = Refreshing
  <2>1. pc[t] \in {"handler", "verify", "store", "drop"}
    BY DEF ServeHome, ServeDashboard, StartLogin, VerifyLogin, StoreSession, SkipLogout,
         ResetSession, DropSession
  <2>2. \E x \in {"done", "verify", "store", "drop"} : pc' = [pc EXCEPT ![t] = x]
    BY DEF ServeHome, ServeDashboard, StartLogin, VerifyLogin, StoreSession, StoreFails,
         SkipLogout, ResetSession, DropSession, Render, Redirect, Await
  <2> QED  BY <1>1, <2>1, <2>2, RefreshingFramed DEF RefreshPCs, SignInTyped, SessionsTyped
<1>3. CASE UNCHANGED <<cache, used>>
  BY <1>2, <1>3, LivesFramed, LifeStutters
<1>4. CASE StoreSession(t) /\ ~UNCHANGED <<cache, used>>
  <2>1. PICK s \in SessionIds \ used :
          cache' = [cache EXCEPT ![s] = NewSession] /\ used' = used \cup {s}
    BY <1>4 DEF StoreSession, StoreFails, FreshIds
  <2>2. Lives[s] = "new" /\ Lives' = [Lives EXCEPT ![s] = "in"]
    BY <1>1, <2>1, EntriesTyped DEF Lives, LifeOf
  <2> QED  BY <1>2, <2>1, <2>2 DEF LifeStep, Life!LifeNext, Life!SignIn
<1>5. CASE DropSession(t) /\ ~UNCHANGED <<cache, used>>
  <2>1. sid[t] \in SessionIds /\ sid[t] \in used /\ used' = used
    BY <1>5 DEF DropSession, SidsMatter, CookieNamesStored, SignInTyped, SessionsTyped, Sids
  <2>2. cache' = Dropped(t)
    BY <1>5, <2>1 DEF DropSession
  <2>3. CASE cache[sid[t]] = Absent
    BY <1>1, <1>2, <2>1, <2>2, <2>3, LivesFramed, LifeStutters DEF Dropped
  <2>4. CASE cache[sid[t]] # Absent
    <3>1. Lives[sid[t]] = "in" /\ Lives' = [Lives EXCEPT ![sid[t]] = "out"]
      BY <1>1, <2>1, <2>2, <2>4 DEF Lives, LifeOf, Dropped
    <3> QED  BY <1>2, <2>1, <3>1 DEF LifeStep, Life!LifeNext, Life!GoOut
  <2> QED  BY <2>3, <2>4
<1>6. \/ UNCHANGED <<cache, used>> \/ StoreSession(t) \/ DropSession(t)
  BY DEF ServeHome, ServeDashboard, StartLogin, VerifyLogin, SkipLogout, ResetSession
<1> QED  BY <1>3, <1>4, <1>5, <1>6

LEMMA TimeLives ==
  ASSUME SignInTyped, AuthTime
  PROVE  LifeStep
<1>1. Refreshing' = Refreshing /\ used' = used
  BY DEF AuthTime, TokenExpires, SessionLapses, CookieLapses, requestVars, Refreshing
<1>2. cache \in [SessionIds -> Entries]
  BY DEF SignInTyped, SessionsTyped
<1>3. ASSUME NEW s \in SessionIds, TokenExpires(s)  PROVE LifeStep
  <2>1. cache[s] # Absent /\ cache'[s] # Absent
    BY <1>2, <1>3, EntriesTyped DEF TokenExpires, Entries
  <2> QED  BY <1>1, <1>2, <1>3, <2>1, LivesFramed, LifeStutters DEF TokenExpires
<1>4. ASSUME NEW s \in SessionIds, SessionLapses(s)  PROVE LifeStep
  <2>1. CASE s \in used
    <3>1. Lives[s] = "in" /\ Lives' = [Lives EXCEPT ![s] = "out"]
      BY <1>1, <1>2, <1>4, <2>1 DEF SessionLapses, Lives, LifeOf
    <3> QED  BY <1>1, <3>1 DEF LifeStep, Life!LifeNext, Life!GoOut
  <2>2. CASE s \notin used
    <3>1. Lives' = Lives
      BY <1>1, <1>2, <1>4, <2>2 DEF SessionLapses, Lives, LifeOf
    <3> QED  BY <1>1, <3>1, LifeStutters
  <2> QED  BY <2>1, <2>2
<1>5. CookieLapses => LifeStep
  BY <1>1, LivesFramed, LifeStutters DEF CookieLapses
<1> QED  BY <1>3, <1>4, <1>5 DEF AuthTime

\* A session that has gone out comes back only by a refresh that was under way, and
\* an id is given out once: the sign-in implements SessionLife.
THEOREM SessionsImplementLife == AuthSpec => ImplementsSessionLife
<1>1. AuthInit => Life!LifeInit
  BY DEF AuthInit, RequestInit, SessionInit, Life!LifeInit, Lives, LifeOf, Refreshing
<1>2. AuthTypeOK /\ CookieNamesStored /\ SidsMatter /\ [AuthNext]_authVars => LifeStep
  <2> SUFFICES ASSUME AuthTypeOK, CookieNamesStored, SidsMatter, [AuthNext]_authVars
               PROVE  LifeStep
    OBVIOUS
  <2>1. CASE UNCHANGED authVars
    <3>1. Lives' = Lives /\ Refreshing' = Refreshing
      BY <2>1 DEF authVars, requestVars, sessionVars, Lives, LifeOf, Refreshing
    <3> QED  BY <3>1, LifeStutters
  <2>2. ASSUME NEW t \in Tabs, AuthHandler(t) \/ ServeDashboard(t) \/ RefreshAnswered(t)
        PROVE  LifeStep
    BY <2>2, SignInsTyped, RefreshLives, SaveLives, PagesLive DEF AuthHandler
  <2>3. ASSUME NEW t \in Tabs, AuthUser(t) \/ AuthPortal(t)  PROVE LifeStep
    BY <2>2, <2>3, OtherSteps, SignInsTyped, BrowserLives
  <2>4. CASE AuthTime
    BY <2>4, SignInsTyped, TimeLives
  <2> QED  BY <2>1, <2>2, <2>3, <2>4 DEF AuthNext
<1>3. AuthSpec => [][Life!LifeNext]_<<Lives, Refreshing>>
  BY <1>2, AuthTypeCorrect, CookiesNameStored, SidsKept, PTL DEF AuthSpec, LifeStep
<1> QED  BY <1>1, <1>3, PTL
  DEF AuthSpec, ImplementsSessionLife, Life!LifeSpec, Life!lifeVars

=============================================================================
