----------------------- MODULE PersonalTokens_proofs -----------------------
(***************************************************************************)
(* Proofs about the personal access token pages, for every set of tabs and *)
(* of token ids and every bound.                                           *)
(***************************************************************************)
EXTENDS PersonalTokens, FiniteSetTheorems, TLAPS

\* What the type invariant rests on: a request in service is one of a token
\* page, it waits for the call its own handler makes, and a secret is only on a
\* finished created page or on the screen that page was delivered to.
TokensServed ==
  \A t \in Tabs :
    /\ pc[t] # "rest" => req[t] \in TokenRequests
    /\ pc[t] = "list" => req[t].route \in {"tokens", "revokeForm"}
    /\ pc[t] = "mint" => req[t] = Mint
    /\ pc[t] = "revoke" => req[t].route = "revoke"
    /\ goto[t] # Nowhere => pc[t] \in {"done", "sent", "redirected"}
    /\ page[t].secret # "none" =>
         req[t] = Created /\ goto[t] = Nowhere /\ pc[t] \in {"done", "sent"}
    /\ screen[t] # "none" => req[t] = Created /\ pc[t] = "rest"

TokensShape == TokensTypeOK /\ TokensServed

-----------------------------------------------------------------------------
(* The services, the requests and the session keys. *)

LEMMA MintAnswers ==
  ASSUME NEW id \in TokenIds, NEW reply \in Failures \cup {Reply(200, id)}
  PROVE  /\ MintToken(reply) = IF reply = Reply(200, id) THEN id ELSE "thrown"
         /\ Reply(200, id) \notin Failures
         /\ id # "thrown" /\ id # "none"
  BY TokenIdsAssumption
  DEF Failures, NetworkError, MintToken, Request, Readable, ResponseOk, Reply, Null

LEMMA RevokeAnswers ==
  /\ RevokeToken(Reply(204, Null)) = "success"
  /\ RevokeToken(Reply(404, Null)) = "notFound"
  /\ \A reply \in RevokeFailures : RevokeToken(reply) = "thrown"
  /\ Reply(204, Null) \notin RevokeFailures
  /\ Reply(404, Null) \notin RevokeFailures
  BY DEF RevokeFailures, NetworkError, RevokeToken, Request, ResponseOk, Reply, Null

LEMMA StatusRepliesSound ==
  ASSUME NEW l \in Links
  PROVE  StatusReply(l) \notin Failures
  BY DEF StatusReply, Failures, NetworkError, Reply, Null

LEMMA ListRepliesSound == Reply(200, "tokens") \notin Failures
  BY DEF Failures, NetworkError, Reply, Null

LEMMA TokenRequestsClosed ==
  /\ \A r \in TokenRequests : AsGet(r) \in TokenRequests
  /\ \A r \in TokenRequests : EntryPoint(r) \in {"gate", "handler", "failAction"}
  /\ \A r \in TokenRequests : r.route \in {"revokeForm", "revoke"} => r.arg \in TokenIds
  /\ \A r \in TokenRequests : r.route = "created" => r = Created
  /\ {Listing, Created} \subseteq TokenRequests
  /\ Mint.route = "mint" /\ Created.route = "created" /\ Listing.route = "tokens"
  /\ Nowhere \notin {LinkingPage, Listing, Created}
  /\ Listing \notin {LinkingPage, Created}
  /\ {Nowhere.route, LinkingPage.route} \cap TokenRoutes = {}
  BY DEF TokenRequests, AsGet, EntryPoint, GatedRoutes, LinkingPage, Nowhere, Page, Get, TokenRoutes,
         Listing, Created, Mint

LEMMA EmptyTokenSession == EmptySession \in TokenSessions
  BY DEF EmptySession, TokenSessions

LEMMA TokenSessionsClosed ==
  ASSUME NEW s \in TokenSessions
  PROVE  /\ TakeTokens(s) \in TokenSessions
         /\ TakeRevoked(s) \in TokenSessions
         /\ First(s.newPersonalToken) \in TokenIds \cup {"none"}
         /\ First(s.revokedPersonalToken) \in TokenIds \cup {"none"}
         /\ \A id \in TokenIds : FlashToken(s, id) \in TokenSessions
         /\ \A id \in TokenIds : FlashRevoked(s, id) \in TokenSessions
         /\ \A r \in TokenRequests : StashReturn(s, r) \in TokenSessions
<1>1. <<>> \in Seq(TokenIds)
  OBVIOUS
<1>2. TakeTokens(s) \in TokenSessions /\ TakeRevoked(s) \in TokenSessions
  BY <1>1 DEF TakeTokens, TakeRevoked, TokenSessions
<1>3. \A q \in Seq(TokenIds) : First(q) \in TokenIds \cup {"none"}
  BY DEF First
<1>4. ASSUME NEW id \in TokenIds
      PROVE  FlashToken(s, id) \in TokenSessions /\ FlashRevoked(s, id) \in TokenSessions
  <2>1. /\ Append(s.newPersonalToken, id) \in Seq(TokenIds)
        /\ Append(s.revokedPersonalToken, id) \in Seq(TokenIds)
    BY DEF TokenSessions
  <2> QED  BY <2>1 DEF FlashToken, FlashRevoked, TokenSessions
<1>5. \A r \in TokenRequests : StashReturn(s, r) \in TokenSessions
  BY TokenRequestsClosed DEF StashReturn, TokenSessions
<1> QED  BY <1>2, <1>3, <1>4, <1>5 DEF TokenSessions

LEMMA TokenPagesTyped ==
  /\ BlankPage \in TokenPages /\ BlankPage.secret = "none"
  /\ \A id \in TokenIds \cup {"none"} : [BlankPage EXCEPT !.secret = id] \in TokenPages
  /\ \A id \in TokenIds \cup {"none"}, ids \in SUBSET TokenIds :
       [BlankPage EXCEPT !.revoked = id, !.revocable = ids] \in TokenPages
  BY DEF BlankPage, TokenPages, NoCheck, CheckResult

-----------------------------------------------------------------------------
(* The life of a request keeps the shape. *)

LEMMA TokenArriveShape ==
  ASSUME TokensShape, NEW t \in Tabs, NEW r \in TokenRequests, Arrive(t, r),
         pc[t] \in {"rest", "redirected"}, UNCHANGED <<gateVars, tokens>>,
         submits' \in 0..MaxSubmits, screen' = [screen EXCEPT ![t] = "none"]
  PROVE  TokensShape'
<1>1. EntryPoint(r) \in {"gate", "handler", "failAction"}
  BY TokenRequestsClosed
<1>2. TokensTypeOK'
  BY <1>1 DEF TokensShape, TokensTypeOK, Arrive, Load, gateVars, TokenPCs
<1>3. TokensServed'
  BY <1>1 DEF TokensShape, TokensTypeOK, TokensServed, Arrive, Load
<1> QED  BY <1>2, <1>3 DEF TokensShape

LEMMA TokenRespondShape ==
  ASSUME TokensShape, NEW t \in Tabs, Respond(t), UNCHANGED <<gateVars, tokenVars>>
  PROVE  TokensShape'
<1>1. TokensTypeOK'
  BY DEF TokensShape, TokensTypeOK, Respond, Commit, gateVars, tokenVars, TokenPCs
<1>2. TokensServed'
  BY DEF TokensShape, TokensTypeOK, TokensServed, Respond, tokenVars
<1> QED  BY <1>1, <1>2 DEF TokensShape

LEMMA TokenDisplayShape ==
  ASSUME TokensShape, NEW t \in Tabs, Display(t)
  PROVE  TokensShape'
<1>1. page[t].secret \in TokenIds \cup {"none"}
  BY DEF TokensShape, TokensTypeOK, TokenPages
<1>2. TokensTypeOK'
  BY <1>1, EmptyTokenSession, TokenPagesTyped
  DEF TokensShape, TokensTypeOK, Display, Deliver, Commit, Release, gateVars, TokenPCs
<1>3. TokensServed'
  BY TokenPagesTyped DEF TokensShape, TokensTypeOK, TokensServed, Display, Deliver, Release
<1> QED  BY <1>2, <1>3 DEF TokensShape

LEMMA TokenGiveUpShape ==
  ASSUME TokensShape, NEW t \in Tabs, GiveUp(t), UNCHANGED <<gateVars, tokenVars>>
  PROVE  TokensShape'
<1>1. aborts' \in 0..MaxAborts
  BY MaxAbortsAssumption DEF TokensShape, TokensTypeOK, GiveUp
<1>2. ses' \in [Tabs -> TokenSessions] /\ page' \in [Tabs -> TokenPages]
  BY EmptyTokenSession, TokenPagesTyped DEF TokensShape, TokensTypeOK, GiveUp, Release
<1>3. TokensTypeOK'
  BY <1>1, <1>2 DEF TokensShape, TokensTypeOK, GiveUp, Release, gateVars, tokenVars, TokenPCs
<1>4. TokensServed'
  BY TokenPagesTyped DEF TokensShape, TokensTypeOK, TokensServed, GiveUp, Release, tokenVars
<1> QED  BY <1>3, <1>4 DEF TokensShape

LEMMA TokenLeaveShape ==
  ASSUME TokensShape, NEW t \in Tabs, Leave(t, TokenRoutes), UNCHANGED <<gateVars, tokenVars>>
  PROVE  TokensShape'
<1>1. goto[t] \in {Nowhere, LinkingPage}
  BY TokenRequestsClosed DEF TokensShape, TokensTypeOK, Leave, TokenRoutes
<1>2. TokensTypeOK'
  BY <1>1 DEF TokensShape, TokensTypeOK, Leave, gateVars, tokenVars, TokenPCs
<1>3. TokensServed'
  BY DEF TokensShape, TokensTypeOK, TokensServed, Leave, tokenVars
<1> QED  BY <1>2, <1>3 DEF TokensShape

-----------------------------------------------------------------------------
(* So do the gate and the handlers. *)

\* What a handler returns, whatever it has done to the session.
LEMMA TokenDoneServed ==
  ASSUME TokensShape, NEW t \in Tabs, pc[t] \notin {"rest", "done", "sent", "redirected"},
         UNCHANGED <<req, screen>>,
         \/ \E r : Redirect(t, r)
         \/ \E p : Render(t, p) /\ (p.secret # "none" => req[t] = Created)
  PROVE  TokensServed'
<1>1. CASE \E r : Redirect(t, r)
  BY <1>1 DEF TokensShape, TokensTypeOK, TokensServed, Redirect, Await
<1>2. CASE \E p : Render(t, p) /\ (p.secret # "none" => req[t] = Created)
  BY <1>2 DEF TokensShape, TokensTypeOK, TokensServed, Render, Await
<1> QED  BY <1>1, <1>2

LEMMA TokenGateShape ==
  ASSUME TokensShape, NEW t \in Tabs, Gate(t), UNCHANGED tokenVars
  PROVE  TokensShape'
<1>1. upsets' \in 0..MaxUpsets
  BY StatusRepliesSound, MaxUpsetsAssumption
  DEF Gate, GatePasses, GateRefuses, Tally, Answers, TokensShape, TokensTypeOK
<1>2. CASE GatePasses(t)
  <2>1. TokensTypeOK'
    BY <1>1, <1>2
    DEF TokensShape, TokensTypeOK, GatePasses, Await, NoTouch, HandlerFrame, tokenVars, TokenPCs
  <2>2. TokensServed'
    BY <1>2 DEF TokensShape, TokensTypeOK, TokensServed, GatePasses, Await, HandlerFrame, tokenVars
  <2> QED  BY <2>1, <2>2 DEF TokensShape
<1>3. CASE GateRefuses(t)
  <2>1. req[t] \in TokenRequests /\ ses[t] \in TokenSessions
    BY <1>3 DEF TokensShape, TokensTypeOK, TokensServed, GateRefuses
  <2>2. StashReturn(ses[t], req[t]) \in TokenSessions
    BY <2>1, TokenSessionsClosed
  <2>3. TokensTypeOK'
    BY <1>1, <1>3, <2>2
    DEF TokensShape, TokensTypeOK, GateRefuses, Touch, Redirect, Await, HandlerFrame, tokenVars, TokenPCs
  <2>4. TokensServed'
    BY <1>3, TokenDoneServed DEF GateRefuses, HandlerFrame, tokenVars
  <2> QED  BY <2>3, <2>4 DEF TokensShape
<1> QED  BY <1>2, <1>3 DEF Gate

\* Every handler that leaves the session alone and does not redirect.
LEMMA TokenRenderShape ==
  ASSUME TokensShape, NEW t \in Tabs, pc[t] \in {"handler", "failAction"},
         UNCHANGED <<gateVars, tokenVars>>, NoTouch, HandlerFrame, Render(t, BlankPage)
  PROVE  TokensShape'
<1>1. TokensTypeOK'
  BY TokenPagesTyped
  DEF TokensShape, TokensTypeOK, Render, Await, NoTouch, HandlerFrame, gateVars, tokenVars, TokenPCs
<1>2. TokensServed'
  BY TokenDoneServed, TokenPagesTyped DEF HandlerFrame, tokenVars
<1> QED  BY <1>1, <1>2 DEF TokensShape

LEMMA TokenAskShape ==
  ASSUME TokensShape, NEW t \in Tabs, AskListing(t) \/ AskMint(t) \/ AskRevoke(t)
  PROVE  TokensShape'
<1>1. UNCHANGED <<storage, stored, req, ses, dirty, page, goto, aborts, gateVars, tokenVars>>
  BY DEF AskListing, AskMint, AskRevoke, NoTouch, HandlerFrame
<1>2. pc[t] = "handler"
  BY DEF AskListing, AskMint, AskRevoke
<1>3. \/ req[t].route \in {"tokens", "revokeForm"} /\ pc' = [pc EXCEPT ![t] = "list"]
      \/ req[t] = Mint /\ pc' = [pc EXCEPT ![t] = "mint"]
      \/ req[t].route = "revoke" /\ pc' = [pc EXCEPT ![t] = "revoke"]
  BY DEF AskListing, AskMint, AskRevoke, Await
<1>4. TokensTypeOK'
  BY <1>1, <1>3 DEF TokensShape, TokensTypeOK, gateVars, tokenVars, TokenPCs
<1>5. TokensServed'
  BY <1>1, <1>2, <1>3 DEF TokensShape, TokensTypeOK, TokensServed, tokenVars
<1> QED  BY <1>4, <1>5 DEF TokensShape

LEMMA TokenListingShape ==
  ASSUME TokensShape, NEW t \in Tabs, ListingAnswered(t)
  PROVE  TokensShape'
<1>1. PICK reply \in ListReplies :
        /\ Tally(reply, Failures)
        /\ IF req[t].route = "tokens" THEN ShowListing(t, ListTokens(reply))
           ELSE ShowRevokeForm(t, ListTokens(reply))
  BY DEF ListingAnswered
<1>2. upsets' \in 0..MaxUpsets
  BY <1>1, ListRepliesSound, MaxUpsetsAssumption
  DEF ListReplies, Tally, Answers, TokensShape, TokensTypeOK
<1>3. HandlerFrame /\ UNCHANGED <<link, tokenVars>> /\ pc[t] = "list"
  BY DEF ListingAnswered
<1>4. ses[t] \in TokenSessions
  BY DEF TokensShape, TokensTypeOK
<1>5. pc' = [pc EXCEPT ![t] = "done"]
  BY <1>1 DEF ShowListing, ShowRevokeForm, Render, Redirect, Await
<1>6. ses' \in [Tabs -> TokenSessions] /\ dirty' \in [Tabs -> BOOLEAN]
  BY <1>1, <1>4, TokenSessionsClosed
  DEF TokensShape, TokensTypeOK, ShowListing, ShowRevokeForm, Touch, NoTouch
<1>7. page' \in [Tabs -> TokenPages] /\ goto' \in [Tabs -> {Nowhere, LinkingPage, Listing, Created}]
  <2>1. CASE req[t].route = "tokens"
    <3> DEFINE listing == ListTokens(reply)
    <3>1. Revocable(listing) \in SUBSET TokenIds
      BY DEF Revocable
    <3>2. [BlankPage EXCEPT !.revoked = First(ses[t].revokedPersonalToken),
                            !.revocable = Revocable(listing)] \in TokenPages
      BY <1>4, <3>1, TokenPagesTyped, TokenSessionsClosed
    <3>3. ShowListing(t, listing)
      BY <1>1, <2>1
    <3> HIDE DEF listing
    <3> QED  BY <3>2, <3>3 DEF TokensShape, TokensTypeOK, ShowListing, Render
  <2>2. CASE req[t].route # "tokens"
    <3>1. Render(t, BlankPage) \/ Redirect(t, Listing)
      BY <1>1, <2>2 DEF ShowRevokeForm
    <3> QED  BY <3>1, TokenPagesTyped DEF TokensShape, TokensTypeOK, Render, Redirect
  <2> QED  BY <2>1, <2>2
<1>8. TokensTypeOK'
  BY <1>2, <1>3, <1>5, <1>6, <1>7 DEF TokensShape, TokensTypeOK, HandlerFrame, tokenVars, TokenPCs
<1>9. TokensServed'
  <2>1. (\E r : Redirect(t, r)) \/ (\E p : Render(t, p) /\ p.secret = "none")
    <3>1. \A id, ids : [BlankPage EXCEPT !.revoked = id, !.revocable = ids].secret = "none"
      BY DEF BlankPage
    <3> QED  BY <1>1, <3>1, TokenPagesTyped DEF ShowListing, ShowRevokeForm
  <2> QED  BY <1>3, <2>1, TokenDoneServed DEF HandlerFrame, tokenVars
<1> QED  BY <1>8, <1>9 DEF TokensShape

LEMMA TokenCreatedShape ==
  ASSUME TokensShape, NEW t \in Tabs, ServeCreated(t)
  PROVE  TokensShape'
<1>1. /\ TakeTokens(ses[t]) \in TokenSessions
      /\ First(ses[t].newPersonalToken) \in TokenIds \cup {"none"}
  BY TokenSessionsClosed DEF TokensShape, TokensTypeOK
<1>2. \/ Redirect(t, Listing)
      \/ \E p \in TokenPages : Render(t, p)
  BY <1>1, TokenPagesTyped DEF ServeCreated, ShowSecret
<1>3. req[t] = Created
  BY TokenRequestsClosed DEF ServeCreated, TokensShape, TokensServed
<1>4. /\ ses' = [ses EXCEPT ![t] = TakeTokens(ses[t])] /\ dirty' = [dirty EXCEPT ![t] = TRUE]
      /\ HandlerFrame /\ UNCHANGED <<gateVars, tokenVars>> /\ pc[t] = "handler"
  BY DEF ServeCreated, Touch
<1>5. TokensTypeOK'
  BY <1>1, <1>2, <1>4
  DEF TokensShape, TokensTypeOK, Redirect, Render, Await, HandlerFrame, gateVars, tokenVars, TokenPCs
<1>6. TokensServed'
  BY <1>2, <1>3, <1>4, TokenDoneServed DEF HandlerFrame, tokenVars
<1> QED  BY <1>5, <1>6 DEF TokensShape

LEMMA TokenMintShape ==
  ASSUME TokensShape, NEW t \in Tabs, MintAnswered(t)
  PROVE  TokensShape'
<1>0. PICK id \in TokenIds : \E reply \in Failures \cup {Reply(200, id)}, issued \in BOOLEAN :
        /\ MintReply(reply, id, issued)
        /\ Issue(id, issued)
        /\ Tally(reply, Failures)
        /\ HandOver(t, MintToken(reply))
  BY DEF MintAnswered
<1>1. PICK reply \in Failures \cup {Reply(200, id)}, issued \in BOOLEAN :
        /\ MintReply(reply, id, issued)
        /\ Issue(id, issued)
        /\ Tally(reply, Failures)
        /\ HandOver(t, MintToken(reply))
  BY <1>0
<1>2. upsets' \in 0..MaxUpsets
  BY <1>1, MintAnswers, MaxUpsetsAssumption DEF MintReply, Tally, TokensShape, TokensTypeOK
<1>3. tokens' \in [TokenIds -> Statuses]
  BY <1>1 DEF Issue, TokensShape, TokensTypeOK, Statuses
<1>4. HandlerFrame /\ UNCHANGED <<link, submits, screen>> /\ pc[t] = "mint"
  BY DEF MintAnswered
<1>5. FlashToken(ses[t], id) \in TokenSessions
  BY TokenSessionsClosed DEF TokensShape, TokensTypeOK
<1>6. \/ Render(t, BlankPage) /\ NoTouch
      \/ Touch(t, FlashToken(ses[t], id)) /\ Redirect(t, Created)
  BY <1>1, MintAnswers DEF HandOver
<1>7. TokensTypeOK'
  <2>1. ses' \in [Tabs -> TokenSessions] /\ dirty' \in [Tabs -> BOOLEAN]
    BY <1>5, <1>6 DEF TokensShape, TokensTypeOK, Touch, NoTouch
  <2>2. /\ pc' \in [Tabs -> TokenPCs] /\ page' \in [Tabs -> TokenPages]
        /\ goto' \in [Tabs -> {Nowhere, LinkingPage, Listing, Created}]
    BY <1>6, TokenPagesTyped DEF TokensShape, TokensTypeOK, Redirect, Render, Await, TokenPCs
  <2> QED  BY <1>2, <1>3, <1>4, <2>1, <2>2 DEF TokensShape, TokensTypeOK, HandlerFrame
<1>8. TokensServed'
  BY <1>4, <1>6, TokenDoneServed, TokenPagesTyped DEF HandlerFrame
<1> QED  BY <1>7, <1>8 DEF TokensShape

LEMMA TokenRevokeShape ==
  ASSUME TokensShape, NEW t \in Tabs, RevokeAnswered(t)
  PROVE  TokensShape'
<1>1. PICK reply \in RevokeFailures \cup {Reply(204, Null), Reply(404, Null)}, removed \in BOOLEAN :
        /\ RevokeReply(reply, req[t].arg, removed)
        /\ Remove(req[t].arg, removed)
        /\ Tally(reply, RevokeFailures)
        /\ FinishRevoke(t, RevokeToken(reply))
  BY DEF RevokeAnswered
<1>2. upsets' \in 0..MaxUpsets
  BY <1>1, RevokeAnswers, MaxUpsetsAssumption DEF RevokeReply, Tally, TokensShape, TokensTypeOK
<1>3. tokens' \in [TokenIds -> Statuses]
  BY <1>1 DEF Remove, TokensShape, TokensTypeOK, Statuses
<1>4. HandlerFrame /\ UNCHANGED <<link, submits, screen>> /\ pc[t] = "revoke"
  BY DEF RevokeAnswered
<1>5. req[t].arg \in TokenIds
  BY <1>4, TokenRequestsClosed DEF TokensShape, TokensServed
<1>6. FlashRevoked(ses[t], req[t].arg) \in TokenSessions
  BY <1>5, TokenSessionsClosed DEF TokensShape, TokensTypeOK
<1>7. \/ Touch(t, FlashRevoked(ses[t], req[t].arg)) /\ Redirect(t, Listing)
      \/ NoTouch /\ Redirect(t, Listing)
      \/ NoTouch /\ Render(t, BlankPage)
  BY <1>1 DEF FinishRevoke
<1>8. TokensTypeOK'
  <2>1. ses' \in [Tabs -> TokenSessions] /\ dirty' \in [Tabs -> BOOLEAN]
    BY <1>6, <1>7 DEF TokensShape, TokensTypeOK, Touch, NoTouch
  <2>2. /\ pc' \in [Tabs -> TokenPCs] /\ page' \in [Tabs -> TokenPages]
        /\ goto' \in [Tabs -> {Nowhere, LinkingPage, Listing, Created}]
    BY <1>7, TokenPagesTyped DEF TokensShape, TokensTypeOK, Redirect, Render, Await, TokenPCs
  <2> QED  BY <1>2, <1>3, <1>4, <2>1, <2>2 DEF TokensShape, TokensTypeOK, HandlerFrame
<1>9. TokensServed'
  BY <1>4, <1>7, TokenDoneServed, TokenPagesTyped DEF HandlerFrame
<1> QED  BY <1>8, <1>9 DEF TokensShape

LEMMA TokenHandlerShape ==
  ASSUME TokensShape, NEW t \in Tabs, TokenHandler(t)
  PROVE  TokensShape'
<1>1. ASSUME ServeForm(t), UNCHANGED tokenVars  PROVE TokensShape'
  BY <1>1, TokenRenderShape DEF ServeForm
<1>2. ASSUME RejectMint(t)  PROVE TokensShape'
  BY <1>2, TokenRenderShape DEF RejectMint
<1> QED  BY <1>1, <1>2, TokenGateShape, TokenAskShape, TokenListingShape, TokenCreatedShape,
            TokenMintShape, TokenRevokeShape DEF TokenHandler

LEMMA TokenUserShape ==
  ASSUME TokensShape, NEW t \in Tabs, TokenUser(t)
  PROVE  TokensShape'
<1>1. ASSUME NEW r \in TokenRequests, OpenTokens(t, r)  PROVE TokensShape'
  <2>1. submits' \in 0..MaxSubmits
    BY <1>1, MaxSubmitsAssumption DEF OpenTokens, TokensShape, TokensTypeOK
  <2>2. /\ screen' = [screen EXCEPT ![t] = "none"]
        /\ Arrive(t, r) /\ pc[t] = "rest" /\ UNCHANGED <<gateVars, tokens>>
    BY <1>1 DEF OpenTokens, Begin
  <2> QED  BY <2>1, <2>2, TokenArriveShape
<1>2. ASSUME RefreshSecret(t)  PROVE TokensShape'
  <2>1. req[t] \in TokenRequests /\ pc[t] = "rest"
    BY <1>2, TokenRequestsClosed DEF RefreshSecret, TokensShape, TokensServed
  <2>2. submits' \in 0..MaxSubmits
    BY <1>2 DEF RefreshSecret, TokensShape, TokensTypeOK
  <2>3. /\ screen' = [screen EXCEPT ![t] = "none"]
        /\ Arrive(t, req[t]) /\ UNCHANGED <<gateVars, tokens>>
    BY <1>2 DEF RefreshSecret, Begin
  <2> QED  BY <2>1, <2>2, <2>3, TokenArriveShape
<1> QED  BY <1>1, <1>2, TokenGiveUpShape DEF TokenUser

LEMMA TokenPortalShape ==
  ASSUME TokensShape, NEW t \in Tabs, TokenPortal(t)
  PROVE  TokensShape'
<1>1. ASSUME Follow(t, TokenRoutes), UNCHANGED <<gateVars, tokenVars>>  PROVE TokensShape'
  <2>1. goto[t] \in TokenRequests
    BY <1>1, TokenRequestsClosed DEF Follow, TokensShape, TokensTypeOK
  <2>2. pc[t] = "redirected" /\ Arrive(t, goto[t])
    BY <1>1 DEF Follow
  <2>3. screen' = [screen EXCEPT ![t] = "none"] /\ submits' \in 0..MaxSubmits
    BY <1>1, <2>2 DEF tokenVars, TokensShape, TokensTypeOK, TokensServed
  <2>4. UNCHANGED <<gateVars, tokens>>
    BY <1>1 DEF tokenVars
  <2> QED  BY <2>1, <2>2, <2>3, <2>4, TokenArriveShape
<1> QED  BY <1>1, TokenHandlerShape, TokenRespondShape, TokenDisplayShape, TokenLeaveShape
         DEF TokenPortal

LEMMA TokensShapeInvariant == TokensSpec => []TokensShape
<1>1. TokensInit => TokensShape
  <2> SUFFICES ASSUME TokensInit  PROVE TokensShape
    OBVIOUS
  <2>1. aborts \in 0..MaxAborts /\ upsets \in 0..MaxUpsets /\ submits \in 0..MaxSubmits
    BY MaxAbortsAssumption, MaxUpsetsAssumption, MaxSubmitsAssumption
    DEF TokensInit, GateInit, RequestInit
  <2>2. tokens \in [TokenIds -> Statuses]
    BY DEF TokensInit, Statuses
  <2>3. TokensTypeOK
    BY <2>1, <2>2, TokenPagesTyped, EmptyTokenSession
    DEF TokensInit, GateInit, RequestInit, TokensTypeOK, TokenPCs
  <2>4. TokensServed
    BY TokenPagesTyped DEF TokensInit, GateInit, RequestInit, TokensServed
  <2> QED  BY <2>3, <2>4 DEF TokensShape
<1>2. TokensShape /\ [TokensNext]_tokensVars => TokensShape'
  <2> SUFFICES ASSUME TokensShape, [TokensNext]_tokensVars  PROVE TokensShape'
    OBVIOUS
  <2>1. CASE UNCHANGED tokensVars
    BY <2>1 DEF tokensVars, requestVars, gateVars, tokenVars, TokensShape, TokensTypeOK, TokensServed
  <2>2. ASSUME NEW id \in TokenIds, Expire(id)  PROVE TokensShape'
    BY <2>2 DEF Expire, requestVars, gateVars, TokensShape, TokensTypeOK, TokensServed, Statuses
  <2>3. ASSUME NEW l \in Links, LinkChanges(l), UNCHANGED tokenVars  PROVE TokensShape'
    <3>1. upsets' \in 0..MaxUpsets
      BY <2>3, MaxUpsetsAssumption DEF LinkChanges, TokensShape, TokensTypeOK
    <3> QED  BY <2>3, <3>1
        DEF LinkChanges, requestVars, tokenVars, TokensShape, TokensTypeOK, TokensServed
  <2> QED  BY <2>1, <2>2, <2>3, TokenUserShape, TokenPortalShape DEF TokensNext
<1> QED  BY <1>1, <1>2, PTL DEF TokensSpec

\* The token pages keep their type: every session a tab loads, changes and
\* commits is a session of the portal, every redirect leads to a page of it.
THEOREM TokensTypeCorrect == TokensSpec => []TokensTypeOK
<1>1. TokensShape => TokensTypeOK
  BY DEF TokensShape
<1> QED  BY <1>1, TokensShapeInvariant, PTL

-----------------------------------------------------------------------------
(* The safety invariants rest on two facts about a step: a token only ages, *)
(* and a flash, a secret or a banner is only copied, but where mural-mcp    *)
(* has answered a call.                                                     *)

RevokedIds == { id \in TokenIds : tokens[id] = "revoked" }

ActiveIds == { id \in TokenIds : tokens[id] = "active" }

\* What may become of a flash of a tab's session: it is left, loaded, taken or
\* lengthened with an id of the set.
FlashMoves(before, at_rest, after, ids) ==
  \/ after \in {before, at_rest, <<>>}
  \/ \E id \in ids : after = Append(before, id)

TabMoves(u) ==
  /\ FlashMoves(ses[u].newPersonalToken, stored.newPersonalToken, ses'[u].newPersonalToken,
                Issued' \ Issued)
  /\ FlashMoves(ses[u].revokedPersonalToken, stored.revokedPersonalToken,
                ses'[u].revokedPersonalToken, RevokedIds')
  /\ \/ page'[u].secret \in {page[u].secret, "none"}
     \/ ses[u].newPersonalToken # <<>> /\ page'[u].secret = Head(ses[u].newPersonalToken)
  /\ \/ page'[u].revoked = "none"
     \/ page'[u] = page[u]
     \/ /\ ses[u].revokedPersonalToken # <<>>
        /\ page'[u].revoked = Head(ses[u].revokedPersonalToken)
        /\ page'[u].revocable \subseteq ActiveIds'

StepMoves ==
  /\ stored' = stored \/ \E v \in Tabs : stored' = ses[v]
  /\ \A u \in Tabs : TabMoves(u)

LEMMA FlashFields ==
  ASSUME NEW s \in TokenSessions
  PROVE  /\ TakeTokens(s).newPersonalToken = <<>>
         /\ TakeTokens(s).revokedPersonalToken = s.revokedPersonalToken
         /\ TakeRevoked(s).newPersonalToken = s.newPersonalToken
         /\ TakeRevoked(s).revokedPersonalToken = <<>>
         /\ \A id : FlashToken(s, id).newPersonalToken = Append(s.newPersonalToken, id)
         /\ \A id : FlashToken(s, id).revokedPersonalToken = s.revokedPersonalToken
         /\ \A id : FlashRevoked(s, id).newPersonalToken = s.newPersonalToken
         /\ \A id : FlashRevoked(s, id).revokedPersonalToken = Append(s.revokedPersonalToken, id)
         /\ \A r : StashReturn(s, r).newPersonalToken = s.newPersonalToken
         /\ \A r : StashReturn(s, r).revokedPersonalToken = s.revokedPersonalToken
  BY DEF TakeTokens, TakeRevoked, FlashToken, FlashRevoked, StashReturn, TokenSessions

LEMMA BlankFields ==
  /\ EmptySession.newPersonalToken = <<>> /\ EmptySession.revokedPersonalToken = <<>>
  /\ BlankPage.secret = "none" /\ BlankPage.revoked = "none"
  /\ \A id : [BlankPage EXCEPT !.secret = id].secret = id
  /\ \A id : [BlankPage EXCEPT !.secret = id].revoked = "none"
  /\ \A id, ids : /\ [BlankPage EXCEPT !.revoked = id, !.revocable = ids].secret = "none"
                  /\ [BlankPage EXCEPT !.revoked = id, !.revocable = ids].revoked = id
                  /\ [BlankPage EXCEPT !.revoked = id, !.revocable = ids].revocable = ids
  BY DEF EmptySession, BlankPage

\* A tab that a step leaves alone.
LEMMA IdleMoves ==
  ASSUME NEW u \in Tabs, ses'[u] = ses[u], page'[u] = page[u]
  PROVE  TabMoves(u)
  BY DEF TabMoves, FlashMoves

LEMMA RequestMoves ==
  ASSUME TokensShape, NEW t \in Tabs,
         \/ \E r : Arrive(t, r)
         \/ Respond(t) \/ Deliver(t) \/ GiveUp(t) \/ Leave(t, TokenRoutes)
  PROVE  StepMoves
<1>1. \/ ses' = ses \/ ses' = [ses EXCEPT ![t] = stored] \/ ses' = [ses EXCEPT ![t] = EmptySession]
  BY DEF Arrive, Load, Respond, Deliver, GiveUp, Leave, Release
<1>2. page' = page \/ page' = [page EXCEPT ![t] = BlankPage]
  BY DEF Arrive, Load, Respond, Deliver, GiveUp, Leave, Release
<1>3. stored' = stored \/ stored' = ses[t]
  BY DEF Arrive, Load, Respond, Deliver, GiveUp, Leave, Commit
<1>4. ses \in [Tabs -> TokenSessions] /\ page \in [Tabs -> TokenPages]
  BY DEF TokensShape, TokensTypeOK
<1>5. TabMoves(t)
  BY <1>1, <1>2, <1>4, BlankFields DEF TabMoves, FlashMoves
<1>6. ASSUME NEW u \in Tabs, u # t  PROVE TabMoves(u)
  BY <1>1, <1>2, <1>4, <1>6, IdleMoves
<1> QED  BY <1>3, <1>5, <1>6 DEF StepMoves

LEMMA GateMoves ==
  ASSUME TokensShape, NEW t \in Tabs, Gate(t)
  PROVE  StepMoves
<1>1. /\ ses' = ses \/ ses' = [ses EXCEPT ![t] = StashReturn(ses[t], req[t])]
      /\ page' = page /\ stored' = stored
  BY DEF Gate, GatePasses, GateRefuses, NoTouch, Touch, Redirect, HandlerFrame
<1>2. ses \in [Tabs -> TokenSessions]
  BY DEF TokensShape, TokensTypeOK
<1>3. TabMoves(t)
  BY <1>1, <1>2, FlashFields DEF TabMoves, FlashMoves
<1>4. ASSUME NEW u \in Tabs, u # t  PROVE TabMoves(u)
  BY <1>1, <1>2, <1>4, IdleMoves
<1> QED  BY <1>1, <1>3, <1>4 DEF StepMoves

\* A handler that leaves the session alone and shows nothing.
LEMMA QuietMoves ==
  ASSUME TokensShape, NEW t \in Tabs, NoTouch, HandlerFrame,
         page' = page \/ page' = [page EXCEPT ![t] = BlankPage]
  PROVE  StepMoves
<1>1. ses' = ses /\ stored' = stored
  BY DEF NoTouch, HandlerFrame
<1>2. page \in [Tabs -> TokenPages]
  BY DEF TokensShape, TokensTypeOK
<1>3. TabMoves(t)
  BY <1>1, <1>2, BlankFields DEF TabMoves, FlashMoves
<1>4. ASSUME NEW u \in Tabs, u # t  PROVE TabMoves(u)
  BY <1>1, <1>2, <1>4, IdleMoves
<1> QED  BY <1>1, <1>3, <1>4 DEF StepMoves

LEMMA ListingMoves ==
  ASSUME TokensShape, NEW t \in Tabs, ListingAnswered(t)
  PROVE  StepMoves
<1>1. PICK listing : IF req[t].route = "tokens" THEN ShowListing(t, listing)
                     ELSE ShowRevokeForm(t, listing)
  BY DEF ListingAnswered
<1>2. HandlerFrame /\ UNCHANGED tokenVars
  BY DEF ListingAnswered
<1>3. CASE req[t].route # "tokens"
  BY <1>1, <1>2, <1>3, QuietMoves DEF ShowRevokeForm, Render, Redirect
<1>4. CASE req[t].route = "tokens"
  <2>1. /\ ses' = [ses EXCEPT ![t] = TakeRevoked(ses[t])]
        /\ page' = [page EXCEPT ![t] = [BlankPage EXCEPT !.revoked = First(ses[t].revokedPersonalToken),
                                                         !.revocable = Revocable(listing)]]
    BY <1>1, <1>4 DEF ShowListing, Touch, Render
  <2>2. ses \in [Tabs -> TokenSessions] /\ page \in [Tabs -> TokenPages]
    BY DEF TokensShape, TokensTypeOK
  <2>3. Revocable(listing) \subseteq ActiveIds'
    BY <1>2 DEF Revocable, ActiveIds, tokenVars
  <2>4. First(ses[t].revokedPersonalToken)
          = IF ses[t].revokedPersonalToken = <<>> THEN "none" ELSE Head(ses[t].revokedPersonalToken)
    BY DEF First
  <2>5. /\ page'[t].secret = "none"
        /\ page'[t].revoked = First(ses[t].revokedPersonalToken)
        /\ page'[t].revocable = Revocable(listing)
    BY <2>1, <2>2, BlankFields
  <2>6. /\ ses'[t].newPersonalToken = ses[t].newPersonalToken
        /\ ses'[t].revokedPersonalToken = <<>>
    BY <2>1, <2>2, FlashFields
  <2>7. TabMoves(t)
    BY <2>3, <2>4, <2>5, <2>6 DEF TabMoves, FlashMoves
  <2>8. ASSUME NEW u \in Tabs, u # t  PROVE TabMoves(u)
    BY <2>1, <2>2, <2>8, IdleMoves
  <2> QED  BY <1>2, <2>7, <2>8 DEF StepMoves, HandlerFrame
<1> QED  BY <1>3, <1>4

LEMMA CreatedMoves ==
  ASSUME TokensShape, NEW t \in Tabs, ServeCreated(t)
  PROVE  StepMoves
<1> DEFINE token == First(ses[t].newPersonalToken)
<1>1. token = IF ses[t].newPersonalToken = <<>> THEN "none" ELSE Head(ses[t].newPersonalToken)
  BY DEF First
<1>2. /\ ses' = [ses EXCEPT ![t] = TakeTokens(ses[t])]
      /\ \/ page' = page
         \/ token # "none" /\ page' = [page EXCEPT ![t] = [BlankPage EXCEPT !.secret = token]]
      /\ HandlerFrame
  <2>1. Touch(t, TakeTokens(ses[t])) /\ ShowSecret(t, token) /\ HandlerFrame
    BY DEF ServeCreated
  <2> HIDE DEF token
  <2> QED  BY <2>1 DEF ShowSecret, Touch, Render, Redirect
<1> HIDE DEF token
<1>3. ses \in [Tabs -> TokenSessions] /\ page \in [Tabs -> TokenPages]
  BY DEF TokensShape, TokensTypeOK
<1>4. /\ ses'[t].newPersonalToken = <<>>
      /\ ses'[t].revokedPersonalToken = ses[t].revokedPersonalToken
  BY <1>2, <1>3, FlashFields
<1>5. \/ page' = page
      \/ token # "none" /\ page'[t].secret = token /\ page'[t].revoked = "none"
  <2>1. page' = page \/ (token # "none" /\ page'[t] = [BlankPage EXCEPT !.secret = token])
    BY <1>2, <1>3
  <2>2. /\ [BlankPage EXCEPT !.secret = token].secret = token
        /\ [BlankPage EXCEPT !.secret = token].revoked = "none"
    BY BlankFields
  <2> QED  BY <2>1, <2>2
<1>6. TabMoves(t)
  BY <1>1, <1>4, <1>5 DEF TabMoves, FlashMoves
<1>7. ASSUME NEW u \in Tabs, u # t  PROVE TabMoves(u)
  BY <1>2, <1>3, <1>7, IdleMoves
<1> QED  BY <1>2, <1>6, <1>7 DEF StepMoves, HandlerFrame

LEMMA MintMoves ==
  ASSUME TokensShape, NEW t \in Tabs, MintAnswered(t)
  PROVE  StepMoves
<1>1. PICK id \in TokenIds : \E reply \in Failures \cup {Reply(200, id)}, issued \in BOOLEAN :
        /\ MintReply(reply, id, issued)
        /\ Issue(id, issued)
        /\ HandOver(t, MintToken(reply))
  BY DEF MintAnswered
<1>2. PICK reply \in Failures \cup {Reply(200, id)}, issued \in BOOLEAN :
        /\ MintReply(reply, id, issued)
        /\ Issue(id, issued)
        /\ HandOver(t, MintToken(reply))
  BY <1>1
<1>3. HandlerFrame
  BY DEF MintAnswered
<1>4. CASE reply # Reply(200, id)
  BY <1>2, <1>3, <1>4, MintAnswers, QuietMoves DEF HandOver, Render
<1>5. CASE reply = Reply(200, id)
  <2>1. id \in Issued' \ Issued
    BY <1>2, <1>5, MintAnswers DEF MintReply, Issue, Issued, TokensShape, TokensTypeOK
  <2>2. ses' = [ses EXCEPT ![t] = FlashToken(ses[t], id)] /\ page' = page
    BY <1>2, <1>5, MintAnswers DEF HandOver, Touch, Redirect
  <2>3. ses \in [Tabs -> TokenSessions]
    BY DEF TokensShape, TokensTypeOK
  <2>4. /\ ses'[t].newPersonalToken = Append(ses[t].newPersonalToken, id)
        /\ ses'[t].revokedPersonalToken = ses[t].revokedPersonalToken
    BY <2>2, <2>3, FlashFields
  <2>5. TabMoves(t)
    BY <2>1, <2>2, <2>4 DEF TabMoves, FlashMoves
  <2>6. ASSUME NEW u \in Tabs, u # t  PROVE TabMoves(u)
    BY <2>2, <2>3, <2>6, IdleMoves
  <2> QED  BY <1>3, <2>5, <2>6 DEF StepMoves, HandlerFrame
<1> QED  BY <1>4, <1>5

LEMMA RevokeMoves ==
  ASSUME TokensShape, NEW t \in Tabs, RevokeAnswered(t)
  PROVE  StepMoves
<1>1. PICK reply \in RevokeFailures \cup {Reply(204, Null), Reply(404, Null)}, removed \in BOOLEAN :
        /\ RevokeReply(reply, req[t].arg, removed)
        /\ Remove(req[t].arg, removed)
        /\ FinishRevoke(t, RevokeToken(reply))
  BY DEF RevokeAnswered
<1>2. HandlerFrame /\ pc[t] = "revoke"
  BY DEF RevokeAnswered
<1>3. CASE RevokeToken(reply) # "success"
  BY <1>1, <1>2, <1>3, QuietMoves DEF FinishRevoke, Redirect, Render
<1>4. CASE RevokeToken(reply) = "success"
  <2> DEFINE id == req[t].arg
  <2>1. id \in TokenIds
    BY <1>2, TokenRequestsClosed DEF TokensShape, TokensServed
  <2>2. reply = Reply(204, Null)
    BY <1>4, RevokeAnswers
  <2>3. removed
    BY <1>1, <2>2, RevokeAnswers DEF RevokeReply, Reply
  <2>4. id \in RevokedIds'
    BY <1>1, <2>1, <2>3 DEF Remove, RevokedIds, TokensShape, TokensTypeOK
  <2>5. ses' = [ses EXCEPT ![t] = FlashRevoked(ses[t], id)] /\ page' = page
    BY <1>1, <1>4 DEF FinishRevoke, Touch, Redirect
  <2>6. ses \in [Tabs -> TokenSessions]
    BY DEF TokensShape, TokensTypeOK
  <2> HIDE DEF id
  <2>7. /\ ses'[t].newPersonalToken = ses[t].newPersonalToken
        /\ ses'[t].revokedPersonalToken = Append(ses[t].revokedPersonalToken, id)
    BY <2>5, <2>6, FlashFields
  <2>8. TabMoves(t)
    BY <2>4, <2>5, <2>7 DEF TabMoves, FlashMoves
  <2>9. ASSUME NEW u \in Tabs, u # t  PROVE TabMoves(u)
    BY <2>5, <2>6, <2>9, IdleMoves
  <2> QED  BY <1>2, <2>8, <2>9 DEF StepMoves, HandlerFrame
<1> QED  BY <1>3, <1>4

LEMMA EveryStepMoves ==
  ASSUME TokensShape, [TokensNext]_tokensVars
  PROVE  StepMoves
<1>1. CASE UNCHANGED tokensVars
  BY <1>1, IdleMoves DEF tokensVars, requestVars, StepMoves
<1>2. ASSUME NEW t \in Tabs, TokenUser(t)  PROVE StepMoves
  BY <1>2, RequestMoves DEF TokenUser, OpenTokens, RefreshSecret, Begin
<1>3. ASSUME NEW t \in Tabs, TokenHandler(t)  PROVE StepMoves
  <2>1. CASE AskListing(t) \/ AskMint(t) \/ AskRevoke(t)
    BY <2>1, QuietMoves DEF AskListing, AskMint, AskRevoke
  <2>2. CASE RejectMint(t) \/ ServeForm(t)
    BY <2>2, QuietMoves DEF RejectMint, ServeForm, Render
  <2> QED  BY <1>3, <2>1, <2>2, ListingMoves, MintMoves, CreatedMoves, RevokeMoves, GateMoves
      DEF TokenHandler
<1>4. ASSUME NEW t \in Tabs, TokenPortal(t)  PROVE StepMoves
  BY <1>3, <1>4, RequestMoves DEF TokenPortal, Display, Follow
<1>5. ASSUME NEW id, Expire(id)  PROVE StepMoves
  BY <1>5, IdleMoves DEF Expire, requestVars, StepMoves
<1>6. ASSUME NEW l, LinkChanges(l)  PROVE StepMoves
  BY <1>6, IdleMoves DEF LinkChanges, requestVars, StepMoves
<1> QED  BY <1>1, <1>2, <1>4, <1>5, <1>6 DEF TokensNext

\* A token only ages: issued, it stays so; revoked, it never works again.
LEMMA TokensOnlyAge ==
  ASSUME TokensShape, [TokensNext]_tokensVars, NEW id \in TokenIds
  PROVE  /\ tokens[id] \in {"active", "expired", "revoked"}
              => tokens'[id] \in {"active", "expired", "revoked"}
         /\ tokens[id] = "revoked" => tokens'[id] = "revoked"
         /\ tokens[id] \notin {"absent", "active"} => tokens'[id] \notin {"absent", "active"}
         /\ tokens[id] # "absent" => tokens'[id] # "absent"
<1>1. \/ tokens' = tokens
      \/ \E k : tokens[k] = "absent" /\ tokens' = [tokens EXCEPT ![k] = "active"]
      \/ \E k : tokens[k] = "active" /\ tokens' = [tokens EXCEPT ![k] = "expired"]
      \/ \E k : tokens[k] = "active" /\ tokens' = [tokens EXCEPT ![k] = "revoked"]
  <2>1. CASE UNCHANGED tokensVars
    BY <2>1 DEF tokensVars, tokenVars
  <2>2. ASSUME NEW t, TokenUser(t)  PROVE tokens' = tokens
    BY <2>2 DEF TokenUser, OpenTokens, RefreshSecret, tokenVars
  <2>3. ASSUME NEW t, TokenPortal(t), ~MintAnswered(t), ~RevokeAnswered(t)  PROVE tokens' = tokens
    BY <2>3 DEF TokenPortal, Display, TokenHandler, AskListing, ListingAnswered, RejectMint, AskMint,
                ServeCreated, AskRevoke, tokenVars
  <2>4. ASSUME NEW t, MintAnswered(t)
        PROVE  \/ tokens' = tokens
               \/ \E k : tokens[k] = "absent" /\ tokens' = [tokens EXCEPT ![k] = "active"]
    BY <2>4 DEF MintAnswered, MintReply, Issue
  <2>5. ASSUME NEW t, RevokeAnswered(t)
        PROVE  \/ tokens' = tokens
               \/ \E k : tokens[k] = "active" /\ tokens' = [tokens EXCEPT ![k] = "revoked"]
    BY <2>5 DEF RevokeAnswered, RevokeReply, Remove
  <2>6. ASSUME NEW k, Expire(k)
        PROVE  tokens[k] = "active" /\ tokens' = [tokens EXCEPT ![k] = "expired"]
    BY <2>6 DEF Expire
  <2>7. ASSUME UNCHANGED tokenVars  PROVE tokens' = tokens
    BY <2>7 DEF tokenVars
  <2> QED  BY <2>1, <2>2, <2>3, <2>4, <2>5, <2>6, <2>7 DEF TokensNext
<1>2. tokens \in [TokenIds -> Statuses]
  BY DEF TokensShape, TokensTypeOK
<1> QED  BY <1>1, <1>2 DEF Statuses

-----------------------------------------------------------------------------
(* The secrets and the banners.                                            *)

\* Every secret on its way is one mural-mcp has issued to the user.
SecretsIssued ==
  /\ stored.newPersonalToken \in Seq(Issued)
  /\ \A t \in Tabs : ses[t].newPersonalToken \in Seq(Issued)
  /\ \A t \in Tabs : page[t].secret \in Issued \cup {"none"}

\* Every banner on its way is about a token that is revoked.
BannersTrue ==
  /\ stored.revokedPersonalToken \in Seq(RevokedIds)
  /\ \A t \in Tabs : ses[t].revokedPersonalToken \in Seq(RevokedIds)
  /\ \A t \in Tabs : page[t].revoked \in RevokedIds \cup {"none"}
  /\ RevokedBannerTruthful

LEMMA FlashGrows ==
  ASSUME NEW S, NEW T, S \subseteq T, NEW before \in Seq(S), NEW at_rest \in Seq(S), NEW after,
         FlashMoves(before, at_rest, after, T)
  PROVE  after \in Seq(T)
<1>1. before \in Seq(T) /\ at_rest \in Seq(T) /\ <<>> \in Seq(T)
  OBVIOUS
<1>2. \A id \in T : Append(before, id) \in Seq(T)
  BY <1>1
<1> QED  BY <1>1, <1>2 DEF FlashMoves

LEMMA SecretsStayIssued ==
  ASSUME TokensShape, [TokensNext]_tokensVars, SecretsIssued
  PROVE  SecretsIssued'
<1>1. Issued \subseteq Issued'
  BY TokensOnlyAge DEF Issued
<1>2. StepMoves
  BY EveryStepMoves
<1>3. stored'.newPersonalToken \in Seq(Issued')
  <2>1. stored'.newPersonalToken \in Seq(Issued)
    BY <1>2 DEF StepMoves, SecretsIssued
  <2> QED  BY <1>1, <2>1
<1>4. ASSUME NEW u \in Tabs  PROVE ses'[u].newPersonalToken \in Seq(Issued')
  <2>1. FlashMoves(ses[u].newPersonalToken, stored.newPersonalToken, ses'[u].newPersonalToken, Issued')
    BY <1>2 DEF StepMoves, TabMoves, FlashMoves
  <2> QED  BY <1>1, <2>1, FlashGrows DEF SecretsIssued
<1>5. ASSUME NEW u \in Tabs  PROVE page'[u].secret \in Issued' \cup {"none"}
  <2>1. ses[u].newPersonalToken # <<>> => Head(ses[u].newPersonalToken) \in Issued
    BY DEF SecretsIssued
  <2> QED  BY <1>1, <1>2, <2>1 DEF StepMoves, TabMoves, SecretsIssued
<1> QED  BY <1>3, <1>4, <1>5 DEF SecretsIssued

LEMMA BannersStayTrue ==
  ASSUME TokensShape, [TokensNext]_tokensVars, BannersTrue
  PROVE  BannersTrue'
<1>1. RevokedIds \subseteq RevokedIds'
  BY TokensOnlyAge DEF RevokedIds
<1>2. StepMoves
  BY EveryStepMoves
<1>3. stored'.revokedPersonalToken \in Seq(RevokedIds')
  <2>1. stored'.revokedPersonalToken \in Seq(RevokedIds)
    BY <1>2 DEF StepMoves, BannersTrue
  <2> QED  BY <1>1, <2>1
<1>4. ASSUME NEW u \in Tabs  PROVE ses'[u].revokedPersonalToken \in Seq(RevokedIds')
  BY <1>1, <1>2, FlashGrows DEF StepMoves, TabMoves, BannersTrue
<1>5. ASSUME NEW u \in Tabs
      PROVE  /\ page'[u].revoked \in RevokedIds' \cup {"none"}
             /\ page'[u].revoked # "none" => page'[u].revoked \notin page'[u].revocable
  <2>1. ses[u].revokedPersonalToken # <<>> => Head(ses[u].revokedPersonalToken) \in RevokedIds
    BY DEF BannersTrue
  <2>2. ActiveIds' \cap RevokedIds' = {}
    BY DEF ActiveIds, RevokedIds
  <2> QED  BY <1>1, <1>2, <2>1, <2>2 DEF StepMoves, TabMoves, BannersTrue, RevokedBannerTruthful
<1>6. RevokedBannerTruthful'
  BY <1>5 DEF RevokedBannerTruthful, RevokedIds
<1> QED  BY <1>3, <1>4, <1>5, <1>6 DEF BannersTrue

\* Only a secret mural-mcp has issued to the user is ever shown, and only on
\* the created page, however tabs overwrite each other's sessions.
THEOREM SecretsShownAreIssued == TokensSpec => []SecretsAreIssued
<1>1. TokensInit => SecretsIssued
  <2>1. EmptySession.newPersonalToken \in Seq(Issued)
    BY BlankFields
  <2>2. TokensInit =>
          /\ stored = EmptySession
          /\ \A t \in Tabs : ses[t] = EmptySession /\ page[t] = BlankPage
    BY DEF TokensInit, GateInit, RequestInit
  <2> QED  BY <2>1, <2>2, BlankFields DEF SecretsIssued
<1>2. TokensShape /\ SecretsIssued => SecretsAreIssued
  BY TokenRequestsClosed DEF TokensShape, TokensServed, SecretsIssued, SecretsAreIssued
<1>3. TokensShape /\ [TokensNext]_tokensVars /\ SecretsIssued => SecretsIssued'
  BY SecretsStayIssued
<1> QED  BY <1>1, <1>2, <1>3, TokensShapeInvariant, PTL DEF TokensSpec

\* The banner of a revocation is only ever shown of a token that is revoked,
\* on a page that does not offer to revoke it.
THEOREM BannersAreTruthful == TokensSpec => []RevokedBannerTruthful
<1>1. TokensInit => BannersTrue
  <2>1. EmptySession.revokedPersonalToken \in Seq(RevokedIds)
    BY BlankFields
  <2>2. TokensInit =>
          /\ stored = EmptySession
          /\ \A t \in Tabs : ses[t] = EmptySession /\ page[t] = BlankPage
    BY DEF TokensInit, GateInit, RequestInit
  <2> QED  BY <2>1, <2>2, BlankFields DEF BannersTrue, RevokedBannerTruthful
<1>2. BannersTrue => RevokedBannerTruthful
  BY DEF BannersTrue
<1>3. TokensShape /\ [TokensNext]_tokensVars /\ BannersTrue => BannersTrue'
  BY BannersStayTrue
<1> QED  BY <1>1, <1>2, <1>3, TokensShapeInvariant, PTL DEF TokensSpec

-----------------------------------------------------------------------------
(* A revocation is final.                                                  *)

\* An id a request names is one that has been issued, and a tab on its way
\* from a revocation to the listing has one that works no longer.
IdsKnown ==
  \A t \in Tabs :
    /\ req[t].route \in {"revokeForm", "revoke"} => tokens[req[t].arg] # "absent"
    /\ req[t].route = "revoke" /\ goto[t] = Listing
         => tokens[req[t].arg] \notin {"absent", "active"}

\* What a step does to the request of a tab and to where it is sent.
Turns(u) ==
  \/ req'[u] = req[u] /\ goto'[u] \in {goto[u], Nowhere, LinkingPage, Created}
  \/ /\ goto'[u] = Nowhere
     /\ \/ req'[u] \in {Nowhere, LinkingPage, Listing, Created}
        \/ /\ req'[u] \in TokenRequests
           /\ req'[u].route \in {"revokeForm", "revoke"} => tokens[req'[u].arg] # "absent"
  \/ /\ req'[u] = req[u]
     /\ req[u].route = "revoke" => tokens'[req[u].arg] # "active"

LEMMA HandlersTurn ==
  ASSUME TokensShape, NEW t \in Tabs, TokenHandler(t), NEW u \in Tabs
  PROVE  Turns(u)
<1>1. goto \in [Tabs -> {Nowhere, LinkingPage, Listing, Created}]
  BY DEF TokensShape, TokensTypeOK
<1>2. req' = req
  BY DEF TokenHandler, AskListing, ListingAnswered, RejectMint, AskMint, MintAnswered, ServeCreated,
         AskRevoke, RevokeAnswered, ServeForm, Gate, GatePasses, GateRefuses, HandlerFrame
<1>3. ASSUME \E r \in {LinkingPage, Created} : goto' \in {goto, [goto EXCEPT ![t] = r]}
      PROVE  Turns(u)
  BY <1>1, <1>2, <1>3 DEF Turns
<1>4. ASSUME goto' \in {goto, [goto EXCEPT ![t] = Listing]},
             req[t].route = "revoke" => tokens'[req[t].arg] # "active"
      PROVE  Turns(u)
  BY <1>1, <1>2, <1>4 DEF Turns
<1>5. CASE AskListing(t) \/ RejectMint(t) \/ AskMint(t) \/ AskRevoke(t) \/ ServeForm(t) \/ Gate(t)
  BY <1>3, <1>5 DEF AskListing, RejectMint, AskMint, AskRevoke, ServeForm, Gate, GatePasses, GateRefuses,
                    Render, Redirect
<1>6. CASE MintAnswered(t)
  BY <1>3, <1>6 DEF MintAnswered, HandOver, Render, Redirect
<1>7. CASE ServeCreated(t) \/ ListingAnswered(t)
  <2>1. req[t].route # "revoke"
    BY <1>7 DEF ServeCreated, ListingAnswered, TokensShape, TokensServed
  <2>2. goto' \in {goto, [goto EXCEPT ![t] = Listing]}
    BY <1>7 DEF ServeCreated, ShowSecret, ListingAnswered, ShowListing, ShowRevokeForm, Render, Redirect
  <2> QED  BY <1>4, <2>1, <2>2
<1>8. CASE RevokeAnswered(t)
  <2>1. PICK reply \in RevokeFailures \cup {Reply(204, Null), Reply(404, Null)}, removed \in BOOLEAN :
          /\ RevokeReply(reply, req[t].arg, removed)
          /\ Remove(req[t].arg, removed)
          /\ FinishRevoke(t, RevokeToken(reply))
    BY <1>8 DEF RevokeAnswered
  <2>2. req[t].arg \in TokenIds
    BY <1>8, TokenRequestsClosed DEF RevokeAnswered, TokensShape, TokensServed
  <2>3. CASE reply \in RevokeFailures
    BY <1>3, <2>1, <2>3, RevokeAnswers DEF FinishRevoke, Render
  <2>4. CASE reply \in {Reply(204, Null), Reply(404, Null)}
    <3>1. goto' = [goto EXCEPT ![t] = Listing]
      BY <2>1, <2>4, RevokeAnswers DEF FinishRevoke, Redirect
    <3>2. tokens'[req[t].arg] # "active"
      BY <2>1, <2>2, <2>4, RevokeAnswers DEF RevokeReply, Remove, Reply, TokensShape, TokensTypeOK
    <3> QED  BY <1>4, <3>1, <3>2
  <2> QED  BY <2>1, <2>3, <2>4
<1> QED  BY <1>5, <1>6, <1>7, <1>8 DEF TokenHandler

LEMMA EveryStepTurns ==
  ASSUME TokensShape, [TokensNext]_tokensVars, NEW u \in Tabs
  PROVE  Turns(u)
<1>1. /\ req \in [Tabs -> TokenRequests \cup {Nowhere, LinkingPage}]
      /\ goto \in [Tabs -> {Nowhere, LinkingPage, Listing, Created}]
  BY DEF TokensShape, TokensTypeOK
<1>2. CASE req' = req /\ goto' = goto
  BY <1>2 DEF Turns
<1>3. ASSUME NEW t \in Tabs, TokenUser(t)  PROVE Turns(u)
  <2>1. ASSUME NEW r \in TokenRequests, OpenTokens(t, r)  PROVE Turns(u)
    BY <1>1, <2>1 DEF OpenTokens, Begin, Arrive, Load, Turns
  <2>2. ASSUME RefreshSecret(t)  PROVE Turns(u)
    BY <1>1, <2>2 DEF RefreshSecret, Begin, Arrive, Load, Turns
  <2>3. ASSUME GiveUp(t)  PROVE Turns(u)
    BY <1>1, <2>3 DEF GiveUp, Turns
  <2> QED  BY <1>3, <2>1, <2>2, <2>3 DEF TokenUser
<1>4. ASSUME NEW t \in Tabs, TokenPortal(t)  PROVE Turns(u)
  <2>1. CASE Respond(t) \/ Deliver(t)
    BY <1>2, <2>1 DEF Respond, Deliver
  <2>2. CASE Follow(t, TokenRoutes) \/ Leave(t, TokenRoutes)
    BY <1>1, <2>2 DEF Follow, Arrive, Load, Leave, Turns
  <2> QED  BY <1>4, <2>1, <2>2, HandlersTurn DEF TokenPortal, Display
<1>5. ASSUME UNCHANGED requestVars  PROVE Turns(u)
  BY <1>2, <1>5 DEF requestVars
<1> QED  BY <1>3, <1>4, <1>5 DEF TokensNext, tokensVars, Expire, LinkChanges

LEMMA IdsStayKnown ==
  ASSUME TokensShape, TokensShape', [TokensNext]_tokensVars, IdsKnown
  PROVE  IdsKnown'
<1> SUFFICES ASSUME NEW u \in Tabs
             PROVE  /\ req'[u].route \in {"revokeForm", "revoke"} => tokens'[req'[u].arg] # "absent"
                    /\ req'[u].route = "revoke" /\ goto'[u] = Listing
                         => tokens'[req'[u].arg] \notin {"absent", "active"}
  BY TokenRequestsClosed DEF IdsKnown, Listing
<1>1. req'[u].route \in {"revokeForm", "revoke"} => req'[u].arg \in TokenIds
  <2>1. req'[u] \in TokenRequests \cup {Nowhere, LinkingPage}
    BY DEF TokensShape, TokensTypeOK
  <2>2. Nowhere.route \notin {"revokeForm", "revoke"} /\ LinkingPage.route \notin {"revokeForm", "revoke"}
    BY DEF Nowhere, LinkingPage, Page, Get
  <2> QED  BY <2>1, <2>2, TokenRequestsClosed
<1>2. Turns(u)
  BY EveryStepTurns
<1>3. \A r \in {Nowhere, LinkingPage, Listing, Created} : r.route \notin {"revokeForm", "revoke"}
  BY DEF Nowhere, LinkingPage, Listing, Created, Page, Get
<1>4. /\ req[u].route \in {"revokeForm", "revoke"} => tokens[req[u].arg] # "absent"
      /\ req[u].route = "revoke" /\ goto[u] = Listing => tokens[req[u].arg] \notin {"absent", "active"}
  BY DEF IdsKnown
<1>5. \A id \in TokenIds :
        /\ tokens[id] # "absent" => tokens'[id] # "absent"
        /\ tokens[id] \notin {"absent", "active"} => tokens'[id] \notin {"absent", "active"}
  BY TokensOnlyAge
<1>6. req'[u].route \in {"revokeForm", "revoke"} => tokens'[req'[u].arg] # "absent"
  BY <1>1, <1>2, <1>3, <1>4, <1>5 DEF Turns
<1>7. req'[u].route = "revoke" /\ goto'[u] = Listing => tokens'[req'[u].arg] # "active"
  <2> SUFFICES ASSUME req'[u].route = "revoke", goto'[u] = Listing
               PROVE  tokens'[req'[u].arg] # "active"
    OBVIOUS
  <2>1. goto'[u] \notin {Nowhere, LinkingPage, Created} /\ req'[u].arg \in TokenIds
    BY <1>1, TokenRequestsClosed
  <2>2. /\ req'[u] = req[u]
        /\ goto'[u] = goto[u] \/ tokens'[req[u].arg] # "active"
    BY <1>2, <2>1 DEF Turns
  <2>3. CASE goto'[u] = goto[u]
    BY <1>4, <1>5, <2>1, <2>2, <2>3
  <2> QED  BY <2>2, <2>3
<1> QED  BY <1>6, <1>7

\* A user sent on from a revocation to the listing has a token that works no
\* longer, and no later step makes it work again.
THEOREM RevocationsAreFinal == TokensSpec => []RevocationIsFinal
<1>1. TokensInit => IdsKnown
  <2>1. Nowhere.route \notin {"revokeForm", "revoke"}
    BY DEF Nowhere, Page, Get
  <2>2. TokensInit => \A t \in Tabs : req[t] = Nowhere
    BY DEF TokensInit, GateInit, RequestInit
  <2> QED  BY <2>1, <2>2 DEF IdsKnown
<1>2. IdsKnown => RevocationIsFinal
  BY DEF IdsKnown, RevocationIsFinal
<1>3. TokensShape /\ TokensShape' /\ [TokensNext]_tokensVars /\ IdsKnown => IdsKnown'
  BY IdsStayKnown
<1> QED  BY <1>1, <1>2, <1>3, TokensShapeInvariant, PTL DEF TokensSpec

-----------------------------------------------------------------------------
(* No token is minted that was not asked for.  Issued tokens alone are not  *)
(* inductive: a submission on its way to the mint may add one.              *)

MintPCs == {"gate", "handler", "mint"}

\* The tabs whose submission has not been answered yet.
Minting == { t \in Tabs : req[t] = Mint /\ pc[t] \in MintPCs }

MintBudget ==
  /\ IsFiniteSet(Issued) /\ IsFiniteSet(Minting)
  /\ Cardinality(Issued) + Cardinality(Minting) <= submits

\* Every step but a submission and the answer of the mint.
NoMint == Issued' = Issued /\ submits' = submits /\ Minting' \subseteq Minting

\* A submission of the form.
MintAsked ==
  /\ Issued' = Issued /\ submits' = submits + 1
  /\ \E t \in Tabs : t \notin Minting /\ Minting' = Minting \cup {t}

\* mural-mcp has answered: at most one token more.
MintDone ==
  /\ submits' = submits
  /\ \E id \in TokenIds : Issued' \in {Issued, Issued \cup {id}}
  /\ \E t \in Minting : Minting' = Minting \ {t}

LEMMA ArriveMints ==
  ASSUME TokensShape, NEW t \in Tabs, NEW r \in TokenRequests, Arrive(t, r),
         pc[t] \in {"rest", "redirected"}
  PROVE  Minting' = IF r = Mint THEN Minting \cup {t} ELSE Minting
<1>1. t \notin Minting
  BY DEF Minting, MintPCs
<1>2. /\ req' = [req EXCEPT ![t] = r]
      /\ pc' = [pc EXCEPT ![t] = EntryPoint(r)]
  BY DEF Arrive, Load
<1>3. EntryPoint(Mint) = "gate"
  BY DEF EntryPoint, Mint, Get, GatedRoutes
<1>4. pc \in [Tabs -> TokenPCs] /\ req \in [Tabs -> TokenRequests \cup {Nowhere, LinkingPage}]
  BY DEF TokensShape, TokensTypeOK
<1>5. \A u \in Tabs : u # t => (u \in Minting' <=> u \in Minting)
  BY <1>2, <1>4 DEF Minting
<1>6. t \in Minting' <=> r = Mint
  BY <1>2, <1>3, <1>4 DEF Minting, MintPCs
<1> QED  BY <1>1, <1>5, <1>6 DEF Minting

LEMMA HandlersMint ==
  ASSUME TokensShape, NEW t \in Tabs, TokenHandler(t)
  PROVE  NoMint \/ MintDone
<1>1. /\ req' = req /\ submits' = submits
      /\ pc \in [Tabs -> TokenPCs] /\ pc[t] \in {"gate", "failAction", "handler", "list", "mint", "revoke"}
  BY DEF TokenHandler, AskListing, ListingAnswered, RejectMint, AskMint, MintAnswered, ServeCreated,
         AskRevoke, RevokeAnswered, ServeForm, Gate, GatePasses, GateRefuses, HandlerFrame, tokenVars,
         TokensShape, TokensTypeOK
<1>2. CASE MintAnswered(t)
  <2>1. req[t] = Mint /\ pc[t] = "mint"
    BY <1>2 DEF MintAnswered, TokensShape, TokensServed
  <2>2. pc' = [pc EXCEPT ![t] = "done"]
    BY <1>2 DEF MintAnswered, HandOver, Render, Redirect, Await
  <2>3. t \in Minting /\ Minting' = Minting \ {t}
    BY <1>1, <2>1, <2>2 DEF Minting, MintPCs
  <2>4. PICK id \in TokenIds, issued \in BOOLEAN : Issue(id, issued)
    BY <1>2 DEF MintAnswered
  <2>5. Issued' \in {Issued, Issued \cup {id}}
    BY <2>4 DEF Issue, Issued, TokensShape, TokensTypeOK
  <2> QED  BY <1>1, <2>3, <2>5 DEF MintDone
<1>3. CASE ~MintAnswered(t)
  <2>1. Issued' = Issued
    <3>1. CASE RevokeAnswered(t)
      BY <3>1 DEF RevokeAnswered, RevokeReply, Remove, Issued, TokensShape, TokensTypeOK
    <3>2. CASE ~RevokeAnswered(t)
      BY <1>3, <3>2 DEF TokenHandler, AskListing, ListingAnswered, RejectMint, AskMint, ServeCreated,
                        AskRevoke, Issued, tokenVars
    <3> QED  BY <3>1, <3>2
  <2>2. \/ \E x \in {"list", "revoke", "done"} : pc' = [pc EXCEPT ![t] = x]
        \/ pc[t] = "gate" /\ pc' = [pc EXCEPT ![t] = "handler"]
        \/ pc[t] = "handler" /\ pc' = [pc EXCEPT ![t] = "mint"]
    BY <1>3 DEF TokenHandler, AskListing, ListingAnswered, ShowListing, ShowRevokeForm, RejectMint,
                AskMint, ServeCreated, ShowSecret, AskRevoke, RevokeAnswered, FinishRevoke, ServeForm,
                Gate, GatePasses, GateRefuses, Render, Redirect, Await
  <2>3. Minting' \subseteq Minting
    BY <1>1, <2>2 DEF Minting, MintPCs
  <2> QED  BY <1>1, <2>1, <2>3 DEF NoMint
<1> QED  BY <1>2, <1>3

LEMMA EveryStepMints ==
  ASSUME TokensShape, [TokensNext]_tokensVars
  PROVE  NoMint \/ MintAsked \/ MintDone
<1>1. pc \in [Tabs -> TokenPCs] /\ req \in [Tabs -> TokenRequests \cup {Nowhere, LinkingPage}]
  BY DEF TokensShape, TokensTypeOK
<1>2. ASSUME UNCHANGED <<requestVars, tokens, submits>>  PROVE NoMint
  BY <1>2 DEF NoMint, Issued, Minting, requestVars
<1>3. ASSUME NEW t \in Tabs, TokenUser(t)  PROVE NoMint \/ MintAsked
  <2>1. ASSUME NEW r \in TokenRequests, OpenTokens(t, r)  PROVE NoMint \/ MintAsked
    <3>1. Issued' = Issued /\ submits' = IF r = Mint THEN submits + 1 ELSE submits
      BY <2>1 DEF OpenTokens, Issued
    <3>2. pc[t] = "rest" /\ t \notin Minting
      BY <2>1 DEF OpenTokens, Begin, Minting, MintPCs
    <3>3. Minting' = IF r = Mint THEN Minting \cup {t} ELSE Minting
      BY <2>1, <3>2, ArriveMints DEF OpenTokens, Begin
    <3> QED  BY <3>1, <3>2, <3>3 DEF NoMint, MintAsked
  <2>2. ASSUME RefreshSecret(t)  PROVE NoMint
    <3>1. req[t] = Created /\ Created \in TokenRequests /\ Created # Mint /\ pc[t] = "rest"
      BY <2>2, TokenRequestsClosed DEF RefreshSecret, TokensShape, TokensServed
    <3>2. Minting' = Minting
      BY <2>2, <3>1, ArriveMints DEF RefreshSecret, Begin
    <3> QED  BY <2>2, <3>2 DEF RefreshSecret, NoMint, Issued
  <2>3. ASSUME GiveUp(t), UNCHANGED tokenVars  PROVE NoMint
    BY <1>1, <2>3 DEF GiveUp, NoMint, Issued, Minting, MintPCs, tokenVars
  <2> QED  BY <1>3, <2>1, <2>2, <2>3 DEF TokenUser
<1>4. ASSUME NEW t \in Tabs, TokenPortal(t)  PROVE NoMint \/ MintDone
  <2>1. CASE Respond(t) /\ UNCHANGED <<gateVars, tokenVars>>
    BY <1>1, <2>1 DEF Respond, NoMint, Issued, Minting, MintPCs, tokenVars
  <2>2. CASE Display(t)
    BY <1>1, <2>2 DEF Display, Deliver, NoMint, Issued, Minting, MintPCs
  <2>3. CASE Follow(t, TokenRoutes) /\ UNCHANGED <<gateVars, tokenVars>>
    <3>1. /\ goto[t] \in TokenRequests /\ goto[t] # Mint /\ pc[t] = "redirected" /\ Arrive(t, goto[t])
      BY <2>3, TokenRequestsClosed DEF Follow, TokensShape, TokensTypeOK
    <3> QED  BY <2>3, <3>1, ArriveMints DEF NoMint, Issued, tokenVars
  <2>4. CASE Leave(t, TokenRoutes) /\ UNCHANGED <<gateVars, tokenVars>>
    BY <1>1, <2>4 DEF Leave, NoMint, Issued, Minting, MintPCs, tokenVars
  <2> QED  BY <1>4, <2>1, <2>2, <2>3, <2>4, HandlersMint DEF TokenPortal
<1>5. ASSUME NEW id \in TokenIds, Expire(id)  PROVE NoMint
  <2>1. Issued' = Issued
    BY <1>5 DEF Expire, Issued, TokensShape, TokensTypeOK
  <2> QED  BY <1>5, <2>1 DEF Expire, NoMint, Minting, requestVars
<1> QED  BY <1>2, <1>3, <1>4, <1>5 DEF TokensNext, tokensVars, tokenVars, LinkChanges

LEMMA BudgetKept ==
  ASSUME TokensShape, [TokensNext]_tokensVars, MintBudget
  PROVE  MintBudget'
<1>1. /\ IsFiniteSet(Issued) /\ Cardinality(Issued) \in Nat
      /\ IsFiniteSet(Minting) /\ Cardinality(Minting) \in Nat
      /\ Cardinality(Issued) + Cardinality(Minting) <= submits /\ submits \in Nat
  BY FS_CardinalityType, MaxSubmitsAssumption DEF MintBudget, TokensShape, TokensTypeOK
<1>2. CASE NoMint
  <2>1. /\ IsFiniteSet(Minting') /\ Cardinality(Minting') \in Nat
        /\ Cardinality(Minting') <= Cardinality(Minting)
    BY <1>1, <1>2, FS_Subset, FS_CardinalityType DEF NoMint
  <2> QED  BY <1>1, <1>2, <2>1 DEF NoMint, MintBudget
<1>3. CASE MintAsked
  <2>1. IsFiniteSet(Minting') /\ Cardinality(Minting') = Cardinality(Minting) + 1
    BY <1>1, <1>3, FS_AddElement DEF MintAsked
  <2> QED  BY <1>1, <1>3, <2>1 DEF MintAsked, MintBudget
<1>4. CASE MintDone
  <2>1. IsFiniteSet(Minting') /\ Cardinality(Minting') = Cardinality(Minting) - 1
    BY <1>1, <1>4, FS_RemoveElement DEF MintDone
  <2>2. /\ IsFiniteSet(Issued') /\ Cardinality(Issued') \in Nat
        /\ Cardinality(Issued') <= Cardinality(Issued) + 1
    <3>1. PICK id \in TokenIds : Issued' \in {Issued, Issued \cup {id}}
      BY <1>4 DEF MintDone
    <3>2. /\ IsFiniteSet(Issued \cup {id})
          /\ Cardinality(Issued \cup {id}) \in {Cardinality(Issued), Cardinality(Issued) + 1}
      BY <1>1, FS_AddElement
    <3> QED  BY <1>1, <3>1, <3>2
  <2> QED  BY <1>1, <1>4, <2>1, <2>2 DEF MintDone, MintBudget
<1> QED  BY <1>2, <1>3, <1>4, EveryStepMints

\* No token is issued that the user has not submitted the form for, whatever
\* replies are lost and pages refreshed, and however many tabs submit.
THEOREM NoTokenUnasked == TokensSpec => []NoUnaskedToken
<1>1. TokensInit => MintBudget
  <2> SUFFICES ASSUME TokensInit  PROVE MintBudget
    OBVIOUS
  <2>1. Issued = {} /\ Minting = {} /\ submits = 0
    BY DEF TokensInit, GateInit, RequestInit, Issued, Minting, MintPCs
  <2> QED  BY <2>1, FS_EmptySet DEF MintBudget
<1>2. TokensShape /\ MintBudget => NoUnaskedToken
  BY FS_CardinalityType, MaxSubmitsAssumption DEF MintBudget, NoUnaskedToken, TokensShape, TokensTypeOK
<1>3. TokensShape /\ [TokensNext]_tokensVars /\ MintBudget => MintBudget'
  BY BudgetKept
<1> QED  BY <1>1, <1>2, <1>3, TokensShapeInvariant, PTL DEF TokensSpec

=============================================================================
