------------------------ MODULE TokenJourney_proofs ------------------------
(***************************************************************************)
(* Proofs about the secret of a token of a user with one tab, for every    *)
(* set of token ids and every bound.                                       *)
(***************************************************************************)
EXTENDS TokenJourney, PersonalTokens_proofs

OneTab == \E t : Tabs = {t}

-----------------------------------------------------------------------------
(* Observing PersonalTokens changes nothing in it.                         *)

LEMMA SecretsAreTokens == SecretsSpec => TokensSpec
<1>1. SecretsInit => TokensInit
  BY DEF SecretsInit
<1>2. [SecretsNext]_secretVars => [TokensNext]_tokensVars
  BY DEF SecretsNext, secretVars
<1> QED  BY <1>1, <1>2, PTL DEF SecretsSpec, TokensSpec

LEMMA SecretsIssuedInvariant == TokensSpec => []SecretsIssued
<1>1. TokensInit => SecretsIssued
  <2>1. EmptySession.newPersonalToken \in Seq(Issued)
    BY BlankFields
  <2>2. TokensInit =>
          /\ stored = EmptySession
          /\ \A t \in Tabs : ses[t] = EmptySession /\ page[t] = BlankPage
    BY DEF TokensInit, GateInit, RequestInit
  <2> QED  BY <2>1, <2>2, BlankFields DEF SecretsIssued
<1>2. TokensShape /\ [TokensNext]_tokensVars /\ SecretsIssued => SecretsIssued'
  BY SecretsStayIssued
<1> QED  BY <1>1, <1>2, TokensShapeInvariant, PTL DEF TokensSpec

LEMMA SecretsOfFlash ==
  ASSUME NEW S, NEW flash \in Seq(S)
  PROVE  /\ SecretsIn(<<>>) = {}
         /\ flash # <<>> => First(flash) \in SecretsIn(flash)
         /\ SecretsIn(flash) \subseteq S
         /\ \A id \in S : SecretsIn(Append(flash, id)) = SecretsIn(flash) \cup {id}
<1>1. SecretsIn(<<>>) = {}
  BY DEF SecretsIn
<1>2. ASSUME flash # <<>>  PROVE First(flash) \in SecretsIn(flash)
  <2>1. Len(flash) \in Nat /\ Len(flash) # 0 /\ First(flash) = flash[1]
    BY <1>2 DEF First
  <2> QED  BY <2>1 DEF SecretsIn
<1>3. SecretsIn(flash) \subseteq S
  BY DEF SecretsIn
<1>4. ASSUME NEW id \in S
      PROVE  SecretsIn(Append(flash, id)) = SecretsIn(flash) \cup {id}
  <2> DEFINE n == Len(flash)
             longer == Append(flash, id)
  <2>1. /\ n \in Nat /\ Len(longer) = n + 1 /\ longer[n + 1] = id
        /\ \A i \in 1..n : longer[i] = flash[i]
    OBVIOUS
  <2>2. 1..(n + 1) = (1..n) \cup {n + 1}
    BY <2>1
  <2> HIDE DEF longer, n
  <2>3. { longer[i] : i \in 1..(n + 1) } = { flash[i] : i \in 1..n } \cup {id}
    BY <2>1, <2>2
  <2> QED  BY <2>1, <2>3 DEF SecretsIn, longer, n
<1> QED  BY <1>1, <1>2, <1>3, <1>4

-----------------------------------------------------------------------------
(* What a step of a tab does to the secrets on their way.                  *)

\* Outside its handler, a request is opened, answered, displayed or given up.
TabLives(t) ==
  \/ pc[t] \in {"rest", "redirected"} /\ \E r \in TokenRequests : Arrive(t, r)
  \/ Respond(t) \/ Display(t) \/ GiveUp(t) \/ Leave(t, TokenRoutes)

\* A handler or the gate keeps the flash, takes it to show its first secret, or
\* adds the secret of a token just issued.
Keeps(t) ==
  ses'[t].newPersonalToken = ses[t].newPersonalToken /\ page'[t].secret = "none"

Takes(t) ==
  /\ ReadsSecrets(t)
  /\ ses'[t].newPersonalToken = <<>> /\ dirty'[t]
  /\ page'[t].secret = First(ses[t].newPersonalToken)

Adds(t) ==
  /\ Hands(t)
  /\ \E id \in Issued' \ Issued :
       ses'[t].newPersonalToken = Append(ses[t].newPersonalToken, id)
  /\ page'[t].secret = "none"

TabWorks(t) ==
  /\ pc[t] \notin {"rest", "done", "sent", "redirected"}
  /\ pc'[t] \notin {"rest", "sent", "redirected"}
  /\ UNCHANGED <<storage, stored, screen>>
  /\ dirty'[t] \/ (ses'[t] = ses[t] /\ dirty'[t] = dirty[t])
  /\ Keeps(t) \/ Takes(t) \/ Adds(t)

\* What all that works has in common.
LEMMA KeepersWork ==
  ASSUME TokensShape, NEW t \in Tabs, HandlerFrame, UNCHANGED screen,
         pc[t] \notin {"rest", "done", "sent", "redirected"},
         \E label \in {"handler", "list", "mint", "revoke", "done"} : Await(t, label),
         \/ NoTouch
         \/ \E s : Touch(t, s) /\ s.newPersonalToken = ses[t].newPersonalToken,
         \/ page' = page
         \/ \E p : page' = [page EXCEPT ![t] = p] /\ p.secret = "none"
  PROVE  TabWorks(t)
<1>1. /\ pc \in [Tabs -> TokenPCs] /\ ses \in [Tabs -> TokenSessions]
      /\ dirty \in [Tabs -> BOOLEAN] /\ page \in [Tabs -> TokenPages]
  BY DEF TokensShape, TokensTypeOK
<1>2. page[t].secret = "none"
  BY DEF TokensShape, TokensServed
<1>3. pc'[t] \notin {"rest", "sent", "redirected"}
  BY <1>1 DEF Await
<1>4. /\ dirty'[t] \/ (ses'[t] = ses[t] /\ dirty'[t] = dirty[t])
      /\ ses'[t].newPersonalToken = ses[t].newPersonalToken
  BY <1>1 DEF NoTouch, Touch
<1>5. page'[t].secret = "none"
  BY <1>1, <1>2
<1> QED  BY <1>3, <1>4, <1>5 DEF TabWorks, Keeps, HandlerFrame

LEMMA QuietWork ==
  ASSUME TokensShape, NEW t \in Tabs,
         AskListing(t) \/ RejectMint(t) \/ AskMint(t) \/ AskRevoke(t)
           \/ ((ServeForm(t) \/ Gate(t)) /\ UNCHANGED tokenVars)
  PROVE  TabWorks(t)
<1>1. ses[t] \in TokenSessions
  BY DEF TokensShape, TokensTypeOK
<1>2. HandlerFrame /\ UNCHANGED screen
  BY DEF AskListing, RejectMint, AskMint, AskRevoke, ServeForm, Gate, GatePasses, GateRefuses, tokenVars
<1>3. /\ pc[t] \notin {"rest", "done", "sent", "redirected"}
      /\ \E label \in {"handler", "list", "mint", "revoke", "done"} : Await(t, label)
  BY DEF AskListing, RejectMint, AskMint, AskRevoke, ServeForm, Gate, GatePasses, GateRefuses,
         Render, Redirect
<1>4. \/ NoTouch
      \/ \E s : Touch(t, s) /\ s.newPersonalToken = ses[t].newPersonalToken
  BY <1>1, FlashFields
  DEF AskListing, RejectMint, AskMint, AskRevoke, ServeForm, Gate, GatePasses, GateRefuses
<1>5. \/ page' = page
      \/ \E p : page' = [page EXCEPT ![t] = p] /\ p.secret = "none"
  BY BlankFields
  DEF AskListing, RejectMint, AskMint, AskRevoke, ServeForm, Gate, GatePasses, GateRefuses,
      Render, Redirect
<1> QED  BY <1>2, <1>3, <1>4, <1>5, KeepersWork

LEMMA ListingWork ==
  ASSUME TokensShape, NEW t \in Tabs, ListingAnswered(t)
  PROVE  TabWorks(t)
<1>1. PICK listing : IF req[t].route = "tokens" THEN ShowListing(t, listing)
                     ELSE ShowRevokeForm(t, listing)
  BY DEF ListingAnswered
<1>2. HandlerFrame /\ UNCHANGED screen /\ pc[t] = "list"
  BY DEF ListingAnswered, tokenVars
<1>3. ses[t] \in TokenSessions
  BY DEF TokensShape, TokensTypeOK
<1>4. CASE req[t].route # "tokens"
  <2>1. /\ NoTouch /\ Await(t, "done")
        /\ page' = page \/ page' = [page EXCEPT ![t] = BlankPage]
    BY <1>1, <1>4 DEF ShowRevokeForm, Render, Redirect
  <2> QED  BY <1>2, <2>1, BlankFields, KeepersWork
<1>5. CASE req[t].route = "tokens"
  <2> DEFINE p == [BlankPage EXCEPT !.revoked = First(ses[t].revokedPersonalToken),
                                    !.revocable = Revocable(listing)]
  <2>1. Touch(t, TakeRevoked(ses[t])) /\ Await(t, "done") /\ page' = [page EXCEPT ![t] = p]
    BY <1>1, <1>5 DEF ShowListing, Render
  <2>2. p.secret = "none" /\ TakeRevoked(ses[t]).newPersonalToken = ses[t].newPersonalToken
    BY <1>3, BlankFields, FlashFields
  <2> HIDE DEF p
  <2> QED  BY <1>2, <2>1, <2>2, KeepersWork
<1> QED  BY <1>4, <1>5

LEMMA RevokeWork ==
  ASSUME TokensShape, NEW t \in Tabs, RevokeAnswered(t)
  PROVE  TabWorks(t)
<1>1. PICK result : FinishRevoke(t, result)
  BY DEF RevokeAnswered
<1>2. HandlerFrame /\ UNCHANGED screen /\ pc[t] = "revoke"
  BY DEF RevokeAnswered
<1>3. ses[t] \in TokenSessions
  BY DEF TokensShape, TokensTypeOK
<1>4. /\ \/ NoTouch
         \/ \E s : Touch(t, s) /\ s.newPersonalToken = ses[t].newPersonalToken
      /\ Await(t, "done")
      /\ page' = page \/ page' = [page EXCEPT ![t] = BlankPage]
  BY <1>1, <1>3, FlashFields DEF FinishRevoke, Render, Redirect
<1> QED  BY <1>2, <1>4, BlankFields, KeepersWork

LEMMA CreatedWork ==
  ASSUME TokensShape, NEW t \in Tabs, ServeCreated(t)
  PROVE  TabWorks(t)
<1> DEFINE token == First(ses[t].newPersonalToken)
<1>1. /\ pc \in [Tabs -> TokenPCs] /\ ses \in [Tabs -> TokenSessions] /\ ses[t] \in TokenSessions
      /\ dirty \in [Tabs -> BOOLEAN] /\ page \in [Tabs -> TokenPages]
  BY DEF TokensShape, TokensTypeOK
<1>2. /\ pc[t] = "handler" /\ req[t].route = "created" /\ HandlerFrame /\ UNCHANGED screen
      /\ Touch(t, TakeTokens(ses[t])) /\ ShowSecret(t, token)
  BY DEF ServeCreated, tokenVars
<1>3. page[t].secret = "none"
  BY <1>2 DEF TokensShape, TokensServed
<1> HIDE DEF token
<1>4. pc'[t] = "done" /\ (page'[t] = [BlankPage EXCEPT !.secret = token] \/ (page' = page /\ token = "none"))
  BY <1>1, <1>2 DEF ShowSecret, Render, Redirect, Await
<1>5. page'[t].secret = token
  <2>1. [BlankPage EXCEPT !.secret = token].secret = token
    BY BlankFields
  <2> QED  BY <1>3, <1>4, <2>1
<1>6. ses'[t].newPersonalToken = <<>> /\ dirty'[t]
  BY <1>1, <1>2, FlashFields DEF Touch
<1>7. Takes(t)
  BY <1>2, <1>4, <1>5, <1>6 DEF Takes, ReadsSecrets, token
<1> QED  BY <1>2, <1>4, <1>6, <1>7 DEF TabWorks, HandlerFrame

LEMMA MintWork ==
  ASSUME TokensShape, NEW t \in Tabs, MintAnswered(t)
  PROVE  TabWorks(t)
<1>1. PICK id \in TokenIds : \E reply \in Failures \cup {Reply(200, id)}, issued \in BOOLEAN :
        /\ MintReply(reply, id, issued)
        /\ Issue(id, issued)
        /\ HandOver(t, MintToken(reply))
  BY DEF MintAnswered
<1>2. PICK reply \in Failures \cup {Reply(200, id)}, issued \in BOOLEAN :
        /\ MintReply(reply, id, issued)
        /\ Issue(id, issued)
        /\ HandOver(t, MintToken(reply))
  BY <1>1
<1>3. HandlerFrame /\ UNCHANGED screen /\ pc[t] = "mint"
  BY DEF MintAnswered
<1>4. CASE reply # Reply(200, id)
  <2>1. NoTouch /\ Await(t, "done") /\ page' = [page EXCEPT ![t] = BlankPage]
    BY <1>2, <1>4, MintAnswers DEF HandOver, Render
  <2> QED  BY <1>3, <2>1, BlankFields, KeepersWork
<1>5. CASE reply = Reply(200, id)
  <2>1. id \in Issued' \ Issued
    BY <1>2, <1>5, MintAnswers DEF MintReply, Issue, Issued, TokensShape, TokensTypeOK
  <2>2. Touch(t, FlashToken(ses[t], id)) /\ Redirect(t, Created)
    BY <1>2, <1>5, MintAnswers DEF HandOver
  <2>3. /\ pc \in [Tabs -> TokenPCs] /\ ses \in [Tabs -> TokenSessions] /\ ses[t] \in TokenSessions
        /\ dirty \in [Tabs -> BOOLEAN] /\ goto \in [Tabs -> {Nowhere, LinkingPage, Listing, Created}]
    BY DEF TokensShape, TokensTypeOK
  <2>4. pc'[t] = "done" /\ goto'[t] = Created /\ page' = page /\ dirty'[t]
    BY <2>2, <2>3 DEF Touch, Redirect, Await
  <2>5. ses'[t].newPersonalToken = Append(ses[t].newPersonalToken, id)
    BY <2>2, <2>3, FlashFields DEF Touch
  <2>6. page[t].secret = "none"
    BY <1>3 DEF TokensShape, TokensServed
  <2>7. Adds(t)
    BY <1>3, <2>1, <2>4, <2>5, <2>6 DEF Adds, Hands
  <2> QED  BY <1>3, <2>4, <2>7 DEF TabWorks, HandlerFrame
<1> QED  BY <1>4, <1>5

LEMMA TabsLiveOrWork ==
  ASSUME TokensShape, NEW t \in Tabs, TokenUser(t) \/ TokenPortal(t)
  PROVE  TabLives(t) \/ TabWorks(t)
<1>1. CASE TokenUser(t)
  <2>1. CASE RefreshSecret(t)
    <3>1. req[t] \in TokenRequests
      BY <2>1, TokenRequestsClosed DEF RefreshSecret, TokensShape, TokensServed
    <3> QED  BY <2>1, <3>1 DEF RefreshSecret, Begin, TabLives
  <2> QED  BY <1>1, <2>1 DEF TokenUser, OpenTokens, Begin, TabLives
<1>2. CASE TokenHandler(t)
  BY <1>2, QuietWork, ListingWork, RevokeWork, CreatedWork, MintWork DEF TokenHandler
<1>3. CASE Follow(t, TokenRoutes)
  <2>1. goto[t] \in TokenRequests
    BY <1>3, TokenRequestsClosed DEF Follow, TokensShape, TokensTypeOK
  <2> QED  BY <1>3, <2>1 DEF Follow, TabLives
<1> QED  BY <1>1, <1>2, <1>3 DEF TokenPortal, TabLives

-----------------------------------------------------------------------------
\* A secret that has been displayed is nowhere it could be displayed from again.
ShownIsGone ==
  /\ shown \in [TokenIds -> 0..1]
  /\ \A id \in TokenIds : shown[id] > 0 =>
       /\ id \in Issued
       /\ id \notin SecretsIn(stored.newPersonalToken)
       /\ \A t \in Tabs : /\ id \notin SecretsIn(ses[t].newPersonalToken)
                          /\ page[t].secret # id
  /\ \A t \in Tabs :
       /\ page[t].secret # "none" => ses[t].newPersonalToken = <<>> /\ dirty[t]
       /\ pc[t] = "sent" /\ storage = "server" /\ dirty[t] => stored = ses[t]

-----------------------------------------------------------------------------
(* What is observed of the step of the only tab.                           *)

\* A secret comes onto the screen when a response is displayed.
LEMMA ScreensShow ==
  ASSUME TokensShape, NEW t \in Tabs, TokenUser(t) \/ TokenPortal(t)
  PROVE  Display(t) \/ screen'[t] = "none" \/ screen' = screen
<1>1. t \in DOMAIN screen
  BY DEF TokensShape, TokensTypeOK
<1>2. CASE TokenUser(t)
  BY <1>1, <1>2 DEF TokenUser, OpenTokens, RefreshSecret, tokenVars
<1>3. CASE TokenPortal(t) /\ ~TokenHandler(t)
  BY <1>3 DEF TokenPortal, tokenVars
<1>4. CASE TokenHandler(t)
  <2>1. screen' = screen
    BY <1>4 DEF TokenHandler, AskListing, ListingAnswered, RejectMint, AskMint, MintAnswered,
                ServeCreated, AskRevoke, RevokeAnswered, tokenVars
  <2> QED  BY <2>1
<1> QED  BY <1>2, <1>3, <1>4

LEMMA OneObserved ==
  ASSUME NEW t, Tabs = {t}, ObserveSecrets
  PROVE  /\ handed' = handed \cup
              (IF Hands(t) THEN SecretsIn(ses'[t].newPersonalToken) ELSE {})
         /\ shown' = [id \in TokenIds |-> IF shown[id] < 2 /\ Displays(t, id)
                                         THEN shown[id] + 1 ELSE shown[id]]
         /\ discarded \subseteq discarded'
         /\ ReadsSecrets(t) =>
              SecretsIn(ses[t].newPersonalToken) \ {page'[t].secret} \subseteq discarded'
<1> DEFINE adds(u) == SecretsIn(ses'[u].newPersonalToken)
           drops(u) == SecretsIn(ses[u].newPersonalToken) \ {page'[u].secret}
           handers == {u \in Tabs : Hands(u)}
           readers == {u \in Tabs : ReadsSecrets(u)}
<1>1. /\ handed' = handed \cup UNION { adds(u) : u \in handers }
      /\ discarded' = discarded \cup UNION { drops(u) : u \in readers }
  BY DEF ObserveSecrets
<1>2. /\ handers = IF Hands(t) THEN {t} ELSE {}
      /\ ReadsSecrets(t) => t \in readers
  OBVIOUS
<1>3. \A id : (\E u \in Tabs : Displays(u, id)) <=> Displays(t, id)
  OBVIOUS
<1>4. shown' = [id \in TokenIds |-> IF shown[id] < 2 /\ Displays(t, id)
                                    THEN shown[id] + 1 ELSE shown[id]]
  BY <1>3 DEF ObserveSecrets
<1>5. UNION { adds(u) : u \in handers } = IF Hands(t) THEN adds(t) ELSE {}
  <2> HIDE DEF adds, handers
  <2> QED  BY <1>2
<1>6. ReadsSecrets(t) => drops(t) \subseteq UNION { drops(u) : u \in readers }
  <2> HIDE DEF drops, readers
  <2> QED  BY <1>2
<1> QED  BY <1>1, <1>4, <1>5, <1>6

\* Displaying a secret that has not been displayed counts it; nothing else counts.
LEMMA ShownCounts ==
  ASSUME TokensShape, NEW t, Tabs = {t}, ObserveSecrets, ShownIsGone,
         TokenUser(t) \/ TokenPortal(t)
  PROVE  IF Display(t) /\ page[t].secret # "none"
         THEN shown' = [shown EXCEPT ![page[t].secret] = 1]
         ELSE shown' = shown
<1>1. shown' = [id \in TokenIds |-> IF shown[id] < 2 /\ Displays(t, id)
                                    THEN shown[id] + 1 ELSE shown[id]]
  BY OneObserved
<1>2. /\ shown \in [TokenIds -> 0..1] /\ screen \in [Tabs -> TokenIds \cup {"none"}]
      /\ page[t].secret \in TokenIds \cup {"none"}
  BY DEF ShownIsGone, TokensShape, TokensTypeOK, TokenPages
<1>3. "none" \notin TokenIds
  BY TokenIdsAssumption
<1>4. CASE Display(t)
  <2>1. screen[t] = "none" /\ screen'[t] = page[t].secret
    BY <1>2, <1>4 DEF Display, Deliver, TokensShape, TokensServed
  <2>2. \A id : Displays(t, id) <=> id = page[t].secret
    BY <2>1 DEF Displays
  <2>3. \A id \in TokenIds : id = page[t].secret => shown[id] = 0
    BY <1>2 DEF ShownIsGone
  <2> HIDE DEF Displays
  <2>4. \A id \in TokenIds : shown'[id] = IF id = page[t].secret THEN 1 ELSE shown[id]
    BY <1>1, <1>2, <2>2, <2>3
  <2> QED  BY <1>1, <1>2, <1>3, <1>4, <2>4
<1>5. CASE ~Display(t)
  <2>1. \A id \in TokenIds : ~Displays(t, id)
    BY <1>2, <1>3, <1>5, ScreensShow DEF Displays
  <2> QED  BY <1>1, <1>2, <1>5, <2>1
<1> QED  BY <1>4, <1>5

\* A step that no tab takes is not observed.
LEMMA NobodyMoves ==
  ASSUME UNCHANGED <<requestVars, screen>>, ObserveSecrets, shown \in [TokenIds -> 0..1]
  PROVE  UNCHANGED <<handed, shown, discarded>>
<1>1. \A u \in Tabs : ~Hands(u) /\ ~ReadsSecrets(u)
  BY DEF requestVars, Hands, ReadsSecrets
<1>2. \A u \in Tabs, id \in TokenIds : ~Displays(u, id)
  BY TokenIdsAssumption DEF Displays
<1>3. handed' = handed /\ discarded' = discarded
  BY <1>1 DEF ObserveSecrets
<1>4. shown' = shown
  BY <1>2 DEF ObserveSecrets
<1> QED  BY <1>3, <1>4

-----------------------------------------------------------------------------
(* A secret is shown once.                                                 *)

LEMMA CopiesTyped ==
  ASSUME TokensShape, SecretsIssued, NEW t \in Tabs
  PROVE  /\ ses[t].newPersonalToken \in Seq(TokenIds)
         /\ SecretsIn(ses[t].newPersonalToken) \subseteq Issued
         /\ First(ses[t].newPersonalToken)
              \in SecretsIn(ses[t].newPersonalToken) \cup {"none"}
         /\ page[t].secret \in Issued \cup {"none"}
         /\ Issued \subseteq TokenIds
<1>1. ses[t].newPersonalToken \in Seq(TokenIds) /\ ses[t].newPersonalToken \in Seq(Issued)
  BY DEF TokensShape, TokensTypeOK, TokenSessions, SecretsIssued
<1>2. ses[t].newPersonalToken = <<>> => First(ses[t].newPersonalToken) = "none"
  BY DEF First
<1> QED  BY <1>1, <1>2, SecretsOfFlash DEF SecretsIssued, Issued

LEMMA LifeShowsOnce ==
  ASSUME TokensShape, SecretsIssued, NEW t, Tabs = {t}, ShownIsGone, TabLives(t),
         Issued \subseteq Issued',
         IF Display(t) /\ page[t].secret # "none"
         THEN shown' = [shown EXCEPT ![page[t].secret] = 1]
         ELSE shown' = shown
  PROVE  ShownIsGone'
<1>1. /\ pc \in [Tabs -> TokenPCs] /\ ses \in [Tabs -> TokenSessions]
      /\ dirty \in [Tabs -> BOOLEAN] /\ page \in [Tabs -> TokenPages]
      /\ storage \in {"cookie", "server"} /\ shown \in [TokenIds -> 0..1]
  BY StoragesAssumption DEF TokensShape, TokensTypeOK, ShownIsGone
<1>2. page[t].secret \in Issued \cup {"none"} /\ Issued \subseteq TokenIds /\ "none" \notin TokenIds
  BY CopiesTyped, TokenIdsAssumption
<1>3. SecretsIn(<<>>) = {}
  BY DEF SecretsIn
<1>4. CASE Display(t)
  <2>1. /\ pc[t] = "sent" /\ pc'[t] # "sent"
        /\ ses'[t].newPersonalToken = <<>> /\ page'[t].secret = "none"
        /\ stored' = IF storage = "cookie" /\ dirty[t] THEN ses[t] ELSE stored
    BY <1>1, <1>4, BlankFields DEF Display, Deliver, Commit, Release
  <2>2. page[t].secret # "none" => stored'.newPersonalToken = <<>>
    BY <1>1, <2>1 DEF ShownIsGone
  <2>3. shown' \in [TokenIds -> 0..1]
    BY <1>1, <1>2
  <2>4. ASSUME NEW id \in TokenIds, shown'[id] > 0
        PROVE  id \in Issued' /\ id \notin SecretsIn(stored'.newPersonalToken)
    <3>1. CASE id = page[t].secret
      BY <1>2, <1>3, <2>2, <3>1
    <3>2. CASE id # page[t].secret
      <4>1. shown[id] > 0
        BY <1>1, <1>2, <2>4, <3>2
      <4> QED  BY <2>1, <4>1 DEF ShownIsGone
    <3> QED  BY <3>1, <3>2
  <2> QED  BY <1>2, <1>3, <2>1, <2>3, <2>4 DEF ShownIsGone
<1>5. CASE ~Display(t)
  <2>1. shown' = shown
    BY <1>5
  <2>2. /\ ses'[t] = ses[t] \/ ses'[t] = stored \/ ses'[t].newPersonalToken = <<>>
        /\ stored' = stored \/ stored' = ses[t]
        /\ page'[t].secret = "none" \/ page'[t].secret = page[t].secret
    BY <1>1, <1>5, BlankFields
    DEF TabLives, Arrive, Load, Respond, GiveUp, Leave, Release, Commit
  <2>3. \A id \in TokenIds : shown'[id] > 0 =>
          /\ id \in Issued'
          /\ id \notin SecretsIn(stored'.newPersonalToken)
          /\ id \notin SecretsIn(ses'[t].newPersonalToken)
          /\ page'[t].secret # id
    BY <1>2, <1>3, <2>1, <2>2 DEF ShownIsGone
  <2>4. page'[t].secret # "none" => ses'[t].newPersonalToken = <<>> /\ dirty'[t]
    <3>1. CASE Respond(t)
      BY <3>1 DEF Respond, ShownIsGone
    <3>2. CASE ~Respond(t)
      <4>1. page'[t].secret = "none"
        BY <1>1, <1>5, <3>2, BlankFields
        DEF TabLives, Arrive, Load, GiveUp, Leave, Release, TokensShape, TokensServed
      <4> QED  BY <4>1
    <3> QED  BY <3>1, <3>2
  <2>5. pc'[t] = "sent" /\ storage' = "server" /\ dirty'[t] => stored' = ses'[t]
    <3>1. CASE Respond(t)
      BY <3>1 DEF Respond, Commit
    <3>2. CASE ~Respond(t)
      <4>1. \A r \in TokenRequests : EntryPoint(r) # "sent"
        BY TokenRequestsClosed
      <4>2. pc'[t] # "sent"
        BY <1>1, <1>5, <3>2, <4>1 DEF TabLives, Arrive, Load, GiveUp, Leave
      <4> QED  BY <4>2
    <3> QED  BY <3>1, <3>2
  <2> QED  BY <1>1, <2>1, <2>3, <2>4, <2>5 DEF ShownIsGone
<1> QED  BY <1>4, <1>5

LEMMA WorkShowsOnce ==
  ASSUME TokensShape, SecretsIssued, NEW t, Tabs = {t}, ShownIsGone, TabWorks(t),
         Issued \subseteq Issued', shown' = shown
  PROVE  ShownIsGone'
<1>1. page[t].secret = "none" /\ "none" \notin TokenIds
  BY TokenIdsAssumption DEF TabWorks, TokensShape, TokensServed
<1>2. stored' = stored /\ pc'[t] # "sent"
  BY DEF TabWorks
<1>3. page'[t].secret # "none" => ses'[t].newPersonalToken = <<>> /\ dirty'[t]
  BY DEF TabWorks, Keeps, Takes, Adds
<1>4. ASSUME NEW id \in TokenIds, shown[id] > 0
      PROVE  id \notin SecretsIn(ses'[t].newPersonalToken) /\ page'[t].secret # id
  <2>1. id \in Issued /\ id \notin SecretsIn(ses[t].newPersonalToken)
    BY <1>4 DEF ShownIsGone
  <2>2. CASE Keeps(t)
    BY <1>1, <2>1, <2>2 DEF Keeps
  <2>3. CASE Takes(t)
    BY <1>1, <2>1, <2>3, CopiesTyped, SecretsOfFlash DEF Takes
  <2>4. CASE Adds(t)
    <3>1. PICK new \in Issued' \ Issued :
            ses'[t].newPersonalToken = Append(ses[t].newPersonalToken, new)
      BY <2>4 DEF Adds
    <3>2. new \in TokenIds
      BY DEF Issued
    <3>3. SecretsIn(ses'[t].newPersonalToken) = SecretsIn(ses[t].newPersonalToken) \cup {new}
      BY <3>1, <3>2, CopiesTyped, SecretsOfFlash
    <3> QED  BY <1>1, <2>1, <2>4, <3>1, <3>3 DEF Adds
  <2> QED  BY <2>2, <2>3, <2>4 DEF TabWorks
<1> QED  BY <1>2, <1>3, <1>4 DEF ShownIsGone

LEMMA ShownIsGoneInvariant ==
  ASSUME OneTab
  PROVE  SecretsSpec => []ShownIsGone
<1>1. SecretsInit => ShownIsGone
  <2> SUFFICES ASSUME SecretsInit  PROVE ShownIsGone
    OBVIOUS
  <2>1. /\ shown = [id \in TokenIds |-> 0]
        /\ \A t \in Tabs : page[t] = BlankPage /\ pc[t] = "rest"
    BY DEF SecretsInit, TokensInit, GateInit, RequestInit
  <2> QED  BY <2>1, BlankFields DEF ShownIsGone
<1>2. TokensShape /\ SecretsIssued /\ ShownIsGone /\ [SecretsNext]_secretVars => ShownIsGone'
  <2> SUFFICES ASSUME TokensShape, SecretsIssued, ShownIsGone, [SecretsNext]_secretVars
               PROVE  ShownIsGone'
    OBVIOUS
  <2>1. PICK t : Tabs = {t}
    BY DEF OneTab
  <2>2. Issued \subseteq Issued'
    BY TokensOnlyAge DEF SecretsNext, secretVars, Issued
  <2>3. ASSUME UNCHANGED <<requestVars, shown>>  PROVE ShownIsGone'
    BY <2>2, <2>3 DEF requestVars, ShownIsGone
  <2>4. ASSUME ObserveSecrets, TokenUser(t) \/ TokenPortal(t)  PROVE ShownIsGone'
    <3>1. TabLives(t) \/ TabWorks(t)
      BY <2>1, <2>4, TabsLiveOrWork
    <3>2. IF Display(t) /\ page[t].secret # "none"
          THEN shown' = [shown EXCEPT ![page[t].secret] = 1]
          ELSE shown' = shown
      BY <2>1, <2>4, ShownCounts
    <3>3. TabWorks(t) => ~Display(t)
      BY DEF TabWorks, Display, Deliver
    <3> QED  BY <2>1, <2>2, <3>1, <3>2, <3>3, LifeShowsOnce, WorkShowsOnce
  <2>5. ASSUME ObserveSecrets, UNCHANGED <<requestVars, screen>>  PROVE ShownIsGone'
    BY <2>3, <2>5, NobodyMoves DEF ShownIsGone
  <2>6. ASSUME NEW id, Expire(id)  PROVE UNCHANGED <<requestVars, screen>>
    BY <2>6 DEF Expire
  <2>7. ASSUME NEW l, LinkChanges(l), UNCHANGED tokenVars  PROVE UNCHANGED <<requestVars, screen>>
    BY <2>7 DEF LinkChanges, tokenVars
  <2> QED  BY <2>1, <2>3, <2>4, <2>5, <2>6, <2>7
      DEF SecretsNext, TokensNext, secretVars, tokensVars
<1> QED  BY <1>1, <1>2, SecretsAreTokens, TokensShapeInvariant, SecretsIssuedInvariant, PTL
    DEF SecretsSpec

\* The secret of a token of a user with one tab is displayed at most once: the
\* GET takes it from the session, and no refresh, lost response or redirect
\* brings it back (controller.js:23, 91).
THEOREM SecretsAreShownOnce ==
  ASSUME OneTab
  PROVE  SecretsSpec => []SecretShownOnce
<1>1. ShownIsGone => SecretShownOnce
  BY DEF ShownIsGone, SecretShownOnce
<1> QED  BY <1>1, ShownIsGoneInvariant, PTL

-----------------------------------------------------------------------------
(* No secret is lost.                                                      *)

\* The session as the user's last response leaves it.
Session(t) == IF pc[t] \in {"rest", "redirected"} THEN stored ELSE ses[t]

\* The request's copy is what is stored, or will be.
CopyCurrent(t) ==
  \/ pc[t] \in {"rest", "redirected"}
  \/ dirty[t] /\ ~(pc[t] = "sent" /\ storage = "server")
  \/ ses[t] = stored

\* What SecretNotLost rests on: every secret handed over is in the one session
\* there is.
SecretKept(t) ==
  /\ CopyCurrent(t)
  /\ handed \subseteq TokenIds
  /\ \A id \in handed :
       \/ shown[id] > 0
       \/ id \in discarded
       \/ id \in SecretsIn(Session(t).newPersonalToken)
       \/ page[t].secret = id

LEMMA LifeKeepsSession ==
  ASSUME TokensTypeOK, NEW t \in Tabs, CopyCurrent(t), TabLives(t), ~GiveUp(t)
  PROVE  CopyCurrent(t)' /\ Session(t)' = Session(t)
<1> USE DEF TokensTypeOK, CopyCurrent, Session
<1>1. CASE \E r \in TokenRequests : Arrive(t, r) /\ pc[t] \in {"rest", "redirected"}
  <2>1. pc'[t] \in {"gate", "handler", "failAction"} /\ ses'[t] = stored /\ stored' = stored
    BY <1>1, TokenRequestsClosed DEF Arrive, Load
  <2> QED  BY <1>1, <2>1
<1>2. CASE Respond(t)
  BY <1>2 DEF Respond, Commit
<1>3. CASE Deliver(t)
  <2>1. pc'[t] \in {"rest", "redirected"} /\ pc[t] = "sent" /\ stored' = ses[t]
    BY <1>3, StoragesAssumption DEF Deliver, Commit
  <2> QED  BY <2>1
<1>4. CASE Leave(t, TokenRoutes)
  BY <1>4 DEF Leave
<1> QED  BY <1>1, <1>2, <1>3, <1>4 DEF TabLives, Display

LEMMA LifeKeepsSecrets ==
  ASSUME TokensShape, SecretsIssued, NEW t, Tabs = {t}, ShownIsGone, SecretKept(t),
         TabLives(t), ~GiveUp(t), ObserveSecrets,
         IF Display(t) /\ page[t].secret # "none"
         THEN shown' = [shown EXCEPT ![page[t].secret] = 1]
         ELSE shown' = shown
  PROVE  SecretKept(t)'
<1>1. CopyCurrent(t)' /\ Session(t)' = Session(t)
  BY LifeKeepsSession DEF TokensShape, SecretKept
<1>2. pc[t] \in {"rest", "redirected", "done", "sent"}
  BY DEF TabLives, Respond, Display, Deliver, GiveUp, Leave
<1>3. handed' = handed /\ discarded \subseteq discarded'
  BY <1>2, OneObserved DEF Hands
<1>4. shown \in [TokenIds -> 0..1] /\ page \in [Tabs -> TokenPages]
  BY DEF ShownIsGone, TokensShape, TokensTypeOK
<1>5. \A id \in TokenIds : shown[id] > 0 => shown'[id] > 0
  BY <1>4
<1>6. ASSUME NEW id \in TokenIds, page[t].secret = id
      PROVE  page'[t].secret = id \/ shown'[id] > 0
  <2>1. id # "none"
    BY TokenIdsAssumption
  <2>2. CASE Display(t)
    BY <1>4, <1>6, <2>1, <2>2
  <2>3. CASE ~Display(t)
    BY <1>4, <1>6, <2>3 DEF TabLives, Arrive, Load, Respond, Leave
  <2> QED  BY <2>2, <2>3
<1> QED  BY <1>1, <1>3, <1>5, <1>6 DEF SecretKept

LEMMA WorkKeepsSecrets ==
  ASSUME TokensShape, SecretsIssued, NEW t, Tabs = {t}, SecretKept(t), TabWorks(t),
         ObserveSecrets, shown' = shown, TokensTypeOK'
  PROVE  SecretKept(t)'
<1> DEFINE before == SecretsIn(ses[t].newPersonalToken)
           after == SecretsIn(ses'[t].newPersonalToken)
<1>1. page[t].secret = "none" /\ "none" \notin TokenIds
  BY TokenIdsAssumption DEF TabWorks, TokensShape, TokensServed
<1>2. CopyCurrent(t)' /\ Session(t) = ses[t] /\ Session(t)' = ses'[t]
  BY DEF TabWorks, SecretKept, CopyCurrent, Session
<1>3. handed \subseteq handed' /\ handed' \subseteq handed \cup after /\ discarded \subseteq discarded'
  BY OneObserved
<1>4. after \subseteq TokenIds
  <2>1. ses'[t].newPersonalToken \in Seq(TokenIds)
    BY DEF TokensTypeOK, TokenSessions
  <2> QED  BY <2>1, SecretsOfFlash
<1>5. \A id \in before : id \in after \/ id \in discarded' \/ page'[t].secret = id
  <2>1. CASE Keeps(t)
    BY <2>1 DEF Keeps
  <2>2. CASE Takes(t)
    BY <2>2, OneObserved DEF Takes
  <2>3. CASE Adds(t)
    <3>1. PICK new \in Issued' \ Issued :
            ses'[t].newPersonalToken = Append(ses[t].newPersonalToken, new)
      BY <2>3 DEF Adds
    <3>2. new \in TokenIds
      BY DEF Issued
    <3> QED  BY <3>1, <3>2, CopiesTyped, SecretsOfFlash
  <2> QED  BY <2>1, <2>2, <2>3 DEF TabWorks
<1> HIDE DEF before, after
<1>6. \A id \in handed : \/ shown'[id] > 0 \/ id \in discarded'
                         \/ id \in after \/ page'[t].secret = id
  BY <1>1, <1>2, <1>3, <1>5 DEF SecretKept, before
<1> QED  BY <1>2, <1>3, <1>4, <1>6 DEF SecretKept, after

LEMMA SecretKeptInvariant ==
  ASSUME OneTab, MaxAborts = 0
  PROVE  SecretsSpec => [](\A t \in Tabs : SecretKept(t))
<1>1. SecretsInit => \A t \in Tabs : SecretKept(t)
  BY DEF SecretsInit, TokensInit, GateInit, RequestInit, SecretKept, CopyCurrent
<1>2. /\ TokensShape /\ TokensShape' /\ SecretsIssued /\ ShownIsGone
      /\ \A t \in Tabs : SecretKept(t)
      /\ [SecretsNext]_secretVars
      => (\A t \in Tabs : SecretKept(t))'
  <2> SUFFICES ASSUME TokensShape, TokensTypeOK', SecretsIssued, ShownIsGone,
                      \A t \in Tabs : SecretKept(t), [SecretsNext]_secretVars, NEW t \in Tabs
               PROVE  SecretKept(t)'
    BY DEF TokensShape
  <2>1. Tabs = {t}
    BY DEF OneTab
  <2>2. ~GiveUp(t)
    BY DEF GiveUp, TokensShape, TokensTypeOK
  <2>3. ASSUME UNCHANGED <<requestVars, handed, shown, discarded>>  PROVE SecretKept(t)'
    BY <2>3 DEF requestVars, SecretKept, CopyCurrent, Session
  <2>4. ASSUME ObserveSecrets, TokenUser(t) \/ TokenPortal(t)  PROVE SecretKept(t)'
    <3>1. TabLives(t) \/ TabWorks(t)
      BY <2>4, TabsLiveOrWork
    <3>2. IF Display(t) /\ page[t].secret # "none"
          THEN shown' = [shown EXCEPT ![page[t].secret] = 1]
          ELSE shown' = shown
      BY <2>1, <2>4, ShownCounts
    <3>3. TabWorks(t) => ~Display(t)
      BY DEF TabWorks, Display, Deliver
    <3> QED  BY <2>1, <2>2, <2>4, <3>1, <3>2, <3>3, LifeKeepsSecrets, WorkKeepsSecrets
  <2>5. ASSUME ObserveSecrets, UNCHANGED <<requestVars, screen>>  PROVE SecretKept(t)'
    BY <2>3, <2>5, NobodyMoves DEF ShownIsGone
  <2>6. ASSUME NEW id, Expire(id)  PROVE UNCHANGED <<requestVars, screen>>
    BY <2>6 DEF Expire
  <2>7. ASSUME NEW l, LinkChanges(l), UNCHANGED tokenVars  PROVE UNCHANGED <<requestVars, screen>>
    BY <2>7 DEF LinkChanges, tokenVars
  <2> QED  BY <2>1, <2>3, <2>4, <2>5, <2>6, <2>7
      DEF SecretsNext, TokensNext, secretVars, tokensVars
<1> QED  BY <1>1, <1>2, SecretsAreTokens, TokensShapeInvariant, SecretsIssuedInvariant,
             ShownIsGoneInvariant, PTL DEF SecretsSpec

\* The secret of a token of a user with one tab whose responses all arrive is
\* displayed, or on its way to be, or one a GET took along with the one it
\* showed; mural-mcp would have no other copy of it (controller.js:74-75).
THEOREM SecretsAreNotLost ==
  ASSUME OneTab, MaxAborts = 0
  PROVE  SecretsSpec => []SecretNotLost
<1>1. OneTab /\ (\A t \in Tabs : SecretKept(t)) => SecretNotLost
  <2> SUFFICES ASSUME OneTab, \A t \in Tabs : SecretKept(t), NEW id \in handed
               PROVE  \/ shown[id] > 0 \/ id \in discarded
                      \/ id \in SecretsIn(stored.newPersonalToken)
                      \/ \E t \in Tabs : InTransit(t, id)
    BY DEF SecretNotLost
  <2>1. PICK t \in Tabs : SecretKept(t)
    BY DEF OneTab
  <2> QED  BY <2>1 DEF SecretKept, CopyCurrent, Session, InTransit
<1> QED  BY <1>1, SecretKeptInvariant, PTL

=============================================================================
