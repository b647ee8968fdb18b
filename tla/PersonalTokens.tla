--------------------------- MODULE PersonalTokens ---------------------------
(***************************************************************************)
(* Personal access tokens (pages/account/tokens): minting one and being    *)
(* shown its secret, the listing, and revoking one.  The secret and the    *)
(* banner of a revocation travel from the POST to the GET that shows them  *)
(* as flashes in the session.  A token stands for its id, its secret and   *)
(* its label.                                                              *)
(***************************************************************************)
EXTENDS MuralGate, TokenServices, FiniteSets

CONSTANTS
  TokenIds,    \* the token ids there may ever be
  MaxSubmits   \* bound: submissions of the generate form

ASSUME TokenIdsAssumption == TokenIds \cap {"none", "null", "thrown", "valid", "invalid"} = {}
ASSUME MaxSubmitsAssumption == MaxSubmits \in Nat

VARIABLES
  tokens,      \* [TokenIds -> status] as mural-mcp has them
  submits,     \* how often the user has submitted the generate form
  screen       \* [Tabs -> token] whose secret is on the tab's screen

tokenVars == <<tokens, submits, screen>>

tokensVars == <<requestVars, gateVars, tokenVars>>

TokenRoutes == { "tokens", "newToken", "mint", "created", "revokeForm", "revoke" }

Listing == Page("tokens")
Created == Page("created")
Mint == Get("mint", "valid")

TokenRequests ==
  { Listing, Page("newToken"), Mint, Get("mint", "invalid"), Created }
    \cup { Get("revokeForm", id) : id \in TokenIds }
    \cup { Get("revoke", id) : id \in TokenIds }

\* "absent" is an id not issued yet, "foreign" one that is another user's.
Statuses == { "absent", "foreign", "active", "expired", "revoked" }

Issued == { id \in TokenIds : tokens[id] \in {"active", "expired", "revoked"} }

-----------------------------------------------------------------------------
(* mural-mcp's token store. *)

ListReplies == Answers({Reply(200, "tokens")}, Failures)

\* A token expires.
Expire(id) ==
  /\ tokens[id] = "active"
  /\ tokens' = [tokens EXCEPT ![id] = "expired"]
  /\ UNCHANGED <<requestVars, gateVars, submits, screen>>

\* A token is issued and returned.  When the reply is lost, a 500 or garbled,
\* it may have been issued all the same.
MintReply(reply, id, issued) ==
  /\ tokens[id] = "absent"
  /\ \/ reply = Reply(200, id) /\ issued
     \/ upsets < MaxUpsets /\ reply \in Failures /\ (ResponseOk(reply) => issued)

Issue(id, issued) ==
  tokens' = IF issued THEN [tokens EXCEPT ![id] = "active"] ELSE tokens

\* An active token is revoked with a 204; any other is answered 404.
RevokeFailures == { NetworkError, Reply(500, Null) }

RevokeReply(reply, id, removed) ==
  \/ reply = Reply(204, Null) /\ tokens[id] = "active" /\ removed
  \/ reply = Reply(404, Null) /\ tokens[id] # "active" /\ ~removed
  \/ upsets < MaxUpsets /\ reply \in RevokeFailures /\ (removed => tokens[id] = "active")

Remove(id, removed) ==
  tokens' = IF removed THEN [tokens EXCEPT ![id] = "revoked"] ELSE tokens

-----------------------------------------------------------------------------
(* The flashes. *)

\* Mutant: yar.set for yar.flash.
FlashToken_Set(s, id) == [s EXCEPT !.newPersonalToken = id]

FlashToken(s, id) == [s EXCEPT !.newPersonalToken = Append(@, id)]

FlashRevoked(s, id) == [s EXCEPT !.revokedPersonalToken = Append(@, id)]

\* request.yar.flash(key)[0]: all are taken, the first is used.
First(flash) == IF flash = <<>> THEN "none" ELSE Head(flash)

\* Mutant: yar.get for yar.flash, which does not clear.
TakeTokens_Get(s) == s

TakeTokens(s) == [s EXCEPT !.newPersonalToken = <<>>]

\* Mutant: every flash is taken.
TakeRevoked_All(s) == [s EXCEPT !.revokedPersonalToken = <<>>, !.newPersonalToken = <<>>]

TakeRevoked(s) == [s EXCEPT !.revokedPersonalToken = <<>>]

-----------------------------------------------------------------------------
(* GET /account/tokens and GET /account/tokens/{tokenId}/revoke: both list *)
(* the tokens first.                                                       *)

AskListing(t) ==
  /\ pc[t] = "handler"
  /\ req[t].route \in {"tokens", "revokeForm"}
  /\ Await(t, "list")
  /\ NoTouch
  /\ HandlerFrame
  /\ UNCHANGED <<page, goto, gateVars, tokenVars>>

\* canRevoke, of the tokens a listing contains.
Revocable(listing) ==
  IF listing = "listed" THEN {id \in TokenIds : tokens[id] = "active"} ELSE {}

\* The lookup of the revoke form ignores the status of the token.
Found(listing, id) == listing = "listed" /\ id \in Issued

ShowListing(t, listing) ==
  /\ Touch(t, TakeRevoked(ses[t]))
  /\ Render(t, [BlankPage EXCEPT !.revoked = First(ses[t].revokedPersonalToken),
                                 !.revocable = Revocable(listing)])

ShowRevokeForm(t, listing) ==
  /\ IF Found(listing, req[t].arg) THEN Render(t, BlankPage) ELSE Redirect(t, Listing)
  /\ NoTouch

ListingAnswered(t) ==
  /\ pc[t] = "list"
  /\ \E reply \in ListReplies :
       /\ Tally(reply, Failures)
       /\ IF req[t].route = "tokens" THEN ShowListing(t, ListTokens(reply))
          ELSE ShowRevokeForm(t, ListTokens(reply))
  /\ HandlerFrame
  /\ UNCHANGED <<link, tokenVars>>

-----------------------------------------------------------------------------
(* POST /account/tokens/new *)

\* postNewTokenFailAction: the form again, with status 400.
RejectMint(t) ==
  /\ pc[t] = "failAction"
  /\ Render(t, BlankPage)
  /\ NoTouch
  /\ HandlerFrame
  /\ UNCHANGED <<gateVars, tokenVars>>

AskMint(t) ==
  /\ pc[t] = "handler"
  /\ req[t] = Mint
  /\ Await(t, "mint")
  /\ NoTouch
  /\ HandlerFrame
  /\ UNCHANGED <<page, goto, gateVars, tokenVars>>

\* Mutant: the answer to the POST shows the secret.
HandOver_InTheAnswer(t, token) ==
  /\ Render(t, IF token = "thrown" THEN BlankPage ELSE [BlankPage EXCEPT !.secret = token])
  /\ NoTouch

\* The secret is handed to the next GET through the session; an exception is
\* answered with the error page.
HandOver(t, token) ==
  IF token = "thrown" THEN Render(t, BlankPage) /\ NoTouch
  ELSE Touch(t, FlashToken(ses[t], token)) /\ Redirect(t, Created)

MintAnswered(t) ==
  /\ pc[t] = "mint"
  /\ \E id \in TokenIds : \E reply \in Failures \cup {Reply(200, id)}, issued \in BOOLEAN :
       /\ MintReply(reply, id, issued)
       /\ Issue(id, issued)
       /\ Tally(reply, Failures)
       /\ HandOver(t, MintToken(reply))
  /\ HandlerFrame
  /\ UNCHANGED <<link, submits, screen>>

-----------------------------------------------------------------------------
(* GET /account/tokens/created *)

\* Mutant: without a secret, the created page is tried again.
ShowSecret_Again(t, token) ==
  IF token = "none" THEN Redirect(t, Created)
  ELSE Render(t, [BlankPage EXCEPT !.secret = token])

ShowSecret(t, token) ==
  IF token = "none" THEN Redirect(t, Listing)
  ELSE Render(t, [BlankPage EXCEPT !.secret = token])

ServeCreated(t) ==
  /\ pc[t] = "handler"
  /\ req[t].route = "created"
  /\ Touch(t, TakeTokens(ses[t]))
  /\ ShowSecret(t, First(ses[t].newPersonalToken))
  /\ HandlerFrame
  /\ UNCHANGED <<gateVars, tokenVars>>

-----------------------------------------------------------------------------
(* POST /account/tokens/{tokenId}/revoke *)

AskRevoke(t) ==
  /\ pc[t] = "handler"
  /\ req[t].route = "revoke"
  /\ Await(t, "revoke")
  /\ NoTouch
  /\ HandlerFrame
  /\ UNCHANGED <<page, goto, gateVars, tokenVars>>

\* Mutant: a 404 leaves the banner too.
FinishRevoke_Always(t, result) ==
  \/ result # "thrown" /\ Touch(t, FlashRevoked(ses[t], req[t].arg)) /\ Redirect(t, Listing)
  \/ result = "thrown" /\ NoTouch /\ Render(t, BlankPage)

\* A 404 is not an error, but only a success leaves a banner.
FinishRevoke(t, result) ==
  \/ result = "success" /\ Touch(t, FlashRevoked(ses[t], req[t].arg)) /\ Redirect(t, Listing)
  \/ result = "notFound" /\ NoTouch /\ Redirect(t, Listing)
  \/ result = "thrown" /\ NoTouch /\ Render(t, BlankPage)

RevokeAnswered(t) ==
  /\ pc[t] = "revoke"
  /\ \E reply \in RevokeFailures \cup {Reply(204, Null), Reply(404, Null)}, removed \in BOOLEAN :
       /\ RevokeReply(reply, req[t].arg, removed)
       /\ Remove(req[t].arg, removed)
       /\ Tally(reply, RevokeFailures)
       /\ FinishRevoke(t, RevokeToken(reply))
  /\ HandlerFrame
  /\ UNCHANGED <<link, submits, screen>>

-----------------------------------------------------------------------------

TokenHandler(t) ==
  \/ AskListing(t)
  \/ ListingAnswered(t)
  \/ RejectMint(t)
  \/ AskMint(t)
  \/ MintAnswered(t)
  \/ ServeCreated(t)
  \/ AskRevoke(t)
  \/ RevokeAnswered(t)
  \/ (ServeForm(t) \/ Gate(t)) /\ UNCHANGED tokenVars

\* The user goes to a page or submits a form.  An id is known from a listing,
\* from one that has changed since, or is not the user's at all; none is known
\* before it has been issued.
OpenTokens(t, r) ==
  /\ Begin(t, r)
  /\ r.route \in {"revokeForm", "revoke"} => tokens[r.arg] # "absent"
  /\ r = Mint => submits < MaxSubmits
  /\ submits' = IF r = Mint THEN submits + 1 ELSE submits
  /\ screen' = [screen EXCEPT ![t] = "none"]
  /\ UNCHANGED <<gateVars, tokens>>

\* The user refreshes a page that shows a secret: the browser repeats the
\* request the page came from.
RefreshSecret(t) ==
  /\ screen[t] # "none"
  /\ Begin(t, req[t])
  /\ screen' = [screen EXCEPT ![t] = "none"]
  /\ UNCHANGED <<gateVars, tokens, submits>>

\* The response is displayed, the secret with it.
Display(t) ==
  /\ Deliver(t)
  /\ screen' = [screen EXCEPT ![t] = page[t].secret]
  /\ UNCHANGED <<gateVars, tokens, submits>>

TokenUser(t) ==
  \/ \E r \in TokenRequests : OpenTokens(t, r)
  \/ RefreshSecret(t)
  \/ GiveUp(t) /\ UNCHANGED <<gateVars, tokenVars>>

TokenPortal(t) ==
  \/ TokenHandler(t)
  \/ Respond(t) /\ UNCHANGED <<gateVars, tokenVars>>
  \/ Display(t)
  \/ (Follow(t, TokenRoutes) \/ Leave(t, TokenRoutes)) /\ UNCHANGED <<gateVars, tokenVars>>

TokensNext ==
  \/ \E t \in Tabs : TokenUser(t) \/ TokenPortal(t)
  \/ \E id \in TokenIds : Expire(id)
  \/ \E l \in Links : LinkChanges(l) /\ UNCHANGED tokenVars

TokensInit ==
  /\ GateInit
  /\ tokens \in [TokenIds -> {"absent", "foreign"}]
  /\ Cardinality({id \in TokenIds : tokens[id] = "absent"}) >= MaxSubmits
  /\ submits = 0
  /\ screen = [t \in Tabs |-> "none"]

\* As in MuralLinking: what the portal, the network and the browser do by
\* themselves gets done; what the user or the account may do need not be.
TokensSpec ==
  /\ TokensInit
  /\ [][TokensNext]_tokensVars
  /\ \A t \in Tabs : WF_tokensVars(TokenPortal(t))

-----------------------------------------------------------------------------
(* Properties. *)

TokenSessions ==
  [ muralLinkRequired    : TokenRequests \cup {Nowhere},
    linkingOutcome       : {<<>>},
    newPersonalToken     : Seq(TokenIds),
    revokedPersonalToken : Seq(TokenIds),
    boardRequest         : {"none"} ]

TokenPages ==
  [ message   : {"none"},
    required  : {Nowhere},
    status    : {"none"},
    check     : {NoCheck},
    url       : {"none"},
    secret    : TokenIds \cup {"none"},
    revoked   : TokenIds \cup {"none"},
    revocable : SUBSET TokenIds,
    request   : {"none"} ]

TokenPCs == { "rest", "failAction", "gate", "handler", "list", "mint", "revoke",
              "done", "sent", "redirected" }

\* Type invariant of the token pages.
TokensTypeOK ==
  /\ storage \in Storages
  /\ stored \in TokenSessions
  /\ pc \in [Tabs -> TokenPCs]
  /\ req \in [Tabs -> TokenRequests \cup {Nowhere, LinkingPage}]
  /\ ses \in [Tabs -> TokenSessions]
  /\ dirty \in [Tabs -> BOOLEAN]
  /\ page \in [Tabs -> TokenPages]
  /\ goto \in [Tabs -> {Nowhere, LinkingPage, Listing, Created}]
  /\ aborts \in 0..MaxAborts
  /\ link \in Links
  /\ upsets \in 0..MaxUpsets
  /\ tokens \in [TokenIds -> Statuses]
  /\ submits \in 0..MaxSubmits
  /\ screen \in [Tabs -> TokenIds \cup {"none"}]

\* Safety: the banner "has been revoked and no longer works" is only shown of a
\* token mural-mcp has revoked, and the same page does not offer to revoke it,
\* however tabs overwrite each other's sessions and whatever reply was lost
\* (controller.js:45, 151-153; page.njk's notification).
RevokedBannerTruthful ==
  \A t \in Tabs : page[t].revoked # "none" =>
    /\ tokens[page[t].revoked] = "revoked"
    /\ page[t].revoked \notin page[t].revocable

\* Safety: a user who is sent on from a revocation to the listing has a token
\* that works no longer, whether the answer was a success or a 404; when the
\* request failed they see the error page instead (controller.js:139-155).
RevocationIsFinal ==
  \A t \in Tabs :
    req[t].route = "revoke" /\ goto[t] = Listing => tokens[req[t].arg] # "active"

\* Safety: no token is issued that the user has not submitted the form for:
\* neither a refresh of the page with the secret nor a failed reply mints
\* another one (controller.js:71-75).
NoUnaskedToken ==
  Cardinality(Issued) <= submits

\* Safety: the secret shown is one mural-mcp has issued to the user, and never
\* to a tab that asked for something else than the created page.
SecretsAreIssued ==
  \A t \in Tabs : page[t].secret # "none" =>
    page[t].secret \in Issued /\ req[t].route = "created"

\* Safety: a user whose connection to Mural has lapsed can revoke a token
\* (controller.js:33-36).
LapsedUserCanRevoke ==
  \A t \in Tabs : req[t].route = "revoke" => goto[t] # LinkingPage

\* Liveness: every request for a token page ends in a page, or leaves for the
\* linking page; in particular the created page and the listing never send a
\* user round between them (controller.js:101-103).
TokenRequestsEnd == \A t \in Tabs : pc[t] # "rest" ~> pc[t] = "rest"

=============================================================================
