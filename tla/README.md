# The Mural MCP portal in TLA+

A verification project for the portal in `src/` (a hapi server that lets a signed-in
user connect a Mural account, mint personal access tokens and request boards, all of it
kept by the upstream service `mural-mcp`). The modules are translated from the code;
comments and line numbers refer to it.

## The system

| Component | State it keeps | Operations | What makes it correct |
| --- | --- | --- | --- |
| HTTP client `infra/mural/client.js` | none | `request` | a reply becomes a value, an expected refusal or an exception, and only a 2xx carries data |
| Linking service `services/mural-linking.js`, `infra/mural/linking.js` | none | status, URL, test, complete | gate fails closed, pages fail soft, the test fails to "unavailable" |
| Token service `services/personal-tokens.js`, `infra/mural/tokens.js` | none | list, mint, revoke | list fails soft, mint and revoke do not |
| Board service `services/board-requests.js`, `infra/mural/approvals.js` | none | submit (get, list and approvals have no page) | 409 is a conflict, nothing else is |
| Session (yar, `server/plugins/session-cache/`) | one session per browser, in its cookie or in the server's cache | load on request, write back on response | keys of concurrent requests should not destroy each other (they can) |
| Gate `server/plugins/mural-connection.js` | session key `muralLinkRequired` | check, stash, redirect | a gated handler runs only for a linked user; the user comes back where they were stopped |
| Linking page and callback `pages/linking` | session key `linkingOutcome` (flash) | show, return, cancel, complete | tells the truth about the connection; refusals are used once; no redirect loop |
| Dashboard `pages/dashboard` | none | show the connection | tells the truth |
| Token pages `pages/account/tokens` | flashes `newPersonalToken`, `revokedPersonalToken` | list, mint, show the secret, revoke | no token nobody asked for; a secret shown once and not lost; banners true |
| Board request pages `pages/board-requests/new` | session key `boardRequest` | form, submit, confirm | only accepted requests are confirmed, once |
| Sign-in `server/plugins/auth.js`, `pages/login` | the `auth-session` cache, and the id in the browser's cookie | sign in, validate, refresh, sign out | nobody is let in without a session; only its sign-out ends one; a signed-out session stays out; the next user inherits nothing |
| Approvals and boards lists `services/board-requests.js` | none | filter, match the IAO | see "Not modelled" |
| Server, router, configuration, views, logging, health probe | none that others read | | |

**How they interact.** A page handler calls a service, which calls `mural-mcp` through the
client; nothing but the session survives a request. hapi runs authentication, then the
validation of the payload (whose `failAction` answers before the gate), then the gate, then
the handler, then yar's write-back. Upstream state (link, tokens, requests) changes by the
portal's calls and by itself.

**What is hard.** Node serves the requests of a user's tabs concurrently. Each holds a
private copy of the session from its arrival to its response, across every await, and
writes it back as a whole: updates are lost, and what was consumed returns. Replies are
lost after they took effect. Redirect chains cross gate, page and callback, each hop a new
request that sees other upstream answers. The sign-in has its own races: a refresh of an expired token awaits
Entra between reading the cached session and writing it back, while a sign-out in another
tab drops it. `PROJECT.json` lists these hazards with their
lines.

## The modules

```
MuralClient ── LinkingServices ─┐
            ├─ TokenServices ─┐ │
            └─ BoardServices ┐│ │
PortalRequests ──────────────┼┼─┴─ MuralGate ── MuralLinking ─┬─ LinkingJourney
      │                      ││                     │         └─ LinkingStash
      │                      │└─────────────────────┼──── PersonalTokens ── TokenJourney
      │                      └──────────────────────┼──── BoardRequests ── BoardJourney
      │                                           Portal
      └─ AuthSessions ──────────────────────────────┘
           ├─ SessionJourney
           └─ implements SessionLife
```

Each `…_proofs` module extends the module it is named after, and the proofs of what that
module observes or composes extend those: LinkingJourney_proofs (which also has what is
proved of LinkingStash) and Portal_proofs extend MuralLinking_proofs, TokenJourney_proofs extends PersonalTokens_proofs, and
SessionJourney_proofs extends AuthSessions_proofs. BoardJourney_proofs also proves what is
about BoardRequests.

* **MuralClient**: `Request(reply, expected)` is `MuralClient.request`. A reply is a status
  and the one thing a service reads in the body; `Null` is a body that is not JSON; status 0
  is a `fetch` that rejects. `Failures` are what any call may meet.
* **LinkingServices, TokenServices, BoardServices**: one operator per service function, from
  a reply to what the page learns. The 200 with an unreadable body is kept apart from the
  error statuses: it becomes "not linked" at the gate, `statusError` on the page,
  "unavailable" for the test, *success* for the callback (which reads no body), an empty
  listing and a failed mint.
* **PortalRequests**: the life of a request. `pc[t]` is the await tab `t` is suspended at,
  `ses[t]` its copy of the session, `dirty[t]` yar's modified flag (reading a flash sets
  it), `page[t]`/`goto[t]` the response. A step is what runs between two awaits. `Respond`
  is `onPreResponse`, `Deliver` the browser's receipt; the commit is at the first when the
  session is in the cache and at the second when it is in the cookie. `storage` is chosen
  once per behaviour: yar uses the cookie up to a size and the cache beyond it, as
  `session-cache.js` leaves `maxCookieSize` alone. `GiveUp` is a response lost, or a
  redirect not followed. This module is the one place where libraries (yar, hapi, the
  browser) are modelled, from the way the code uses them; `map` marks them external.
* **MuralGate**: the `onPreHandler` gate, the linked account (`link`: none, working, or
  stored but refused by Mural), and `upsets`, the budget of failed replies and outside
  changes. The stash's reason is a fixed text of the route, so the page stands for both;
  `AsGet` is what `request.path` asks for when it is fetched later.
* **MuralLinking**: linking page, callback, dashboard, and two gated form pages. One action
  per await of `getMuralLinkingPage` (status, url, test, reconnect) and of the callback.
  `ConnectionStep`, `CheckStep`, `NeedsReconnect` and `Offer` are what the view model makes of
  the replies: the properties speak of what the page shows, not of what the handler knew.
* **PersonalTokens**: the six token routes over a token store (absent, foreign, active,
  expired, revoked). `screen` is what a tab displays, so that a refresh of a page with a
  secret repeats the request it came from.
* **BoardRequests**: form, submission, confirmation over the governance store.
* **LinkingJourney, LinkingStash, TokenJourney, BoardJourney**: the same systems with history
  variables that are functions of a step (`Observe…`); no action is added or restrained. They
  let a property speak of what happened before: the last outcome, the refusal that led here,
  the links there were during the request and whether its last call failed (LinkingJourney),
  the refusals that may still lead somewhere (LinkingStash), the secrets handed out, the
  acceptances due and the tabs in use. In LinkingStash a refusal becomes outstanding when it
  is made. When a refusal or a return *takes effect* (the response that carries it writes the
  session back) it supersedes, or uses up, every other, except those that requests under way
  hold at that moment: these can, and do, come back with a late write of the session.
* **AuthSessions**: the session strategy and the login routes. `cache` is
  `server.app.cache`, `cookie` the id the browser holds, `sid[t]` the id a request came with
  (a request keeps it, whatever another tab does to the cookie meanwhile), `jar[t]` what the
  response will do to the cookie. `LookUp` is `_validateSessionToken` up to its second await,
  `RefreshAnswered`/`RefreshTimesOut` the end of the `fetch`, `SaveRefreshed` the
  `cache.set`. A 2xx answer of Entra is stored whatever it holds (auth.js:247-255), so
  `Grants` has any subset of the two tokens: a missing access token is an entry that is
  `"invalid"`, as an expired one is, and the request is let in all the same; without a
  refresh token that refresh is the last of its session. `StoreSession` and `DropSession` are
  those of sign-in and sign-out. A call to
  the cache that fails may have taken effect. Rejections of `validate` are answered like
  `{isValid: false}`: a redirect to `/`, or the handler where the route only tries. Bell's
  dance with Entra is one step that succeeds or is refused.
* **SessionLife**: the abstract specification of a session: new, in, out, and back in only by
  a refresh that was under way when it went out. `ImplementsSessionLife` instantiates it over
  the cache (`Lives`) and the requests at their refresh (`Refreshing`).
* **SessionJourney**: AuthSessions with two histories: which sessions were signed out, and
  which requests have seen their session usable.
* **Portal**: AuthSessions and MuralLinking over one request life. Authentication comes
  first and decides whether gate and handler run at all; `ResetSession` empties the yar
  session the linking flow keeps its stash and outcomes in. `ownPages` and `ownOutcomes` are
  histories of what the user of the moment may be told.
* **MC…**: instances for TLC, with the symmetry sets. Symmetry is used in no run with a
  liveness property.

An operator whose name has an underscore and that is marked "Mutant" is a plausible wrong
form of the definition after it. `PROJECT.json` says which property each must break.

## The runs

| Run | Instance | What it shows |
| --- | --- | --- |
| Stash | 2 tabs, cookie, two gated pages and the callback, 1 upset, 1 unshown outcome | no return for a refusal that was used or superseded; gate fails closed; every request ends, with concurrent tabs |
| Journey | 1 tab, both storages, all pages, 3 upsets, 2 outcomes | type; the linking page tells the truth and offers what fits; each refusal used once |
| Tokens | 2 tabs, cookie, 2 tokens, 1 submission, 1 lost response, 1 upset | type; banners, revocations, issued secrets |
| Secrets | 1 tab, 2 submissions, 2 upsets | a secret is shown at most once and not lost; every token request ends |
| BoardTabs | 2 tabs, 2 boards, both storages, 1 upset, 1 lost response | type; only recorded requests confirmed; conflicts real; to a user who keeps to one tab, own confirmation, once |
| Sessions | 2 tabs, 2 sign-ins, both providers, refreshing or not, 2 faults, 1 lost response | type; cookies name stored sessions; nobody let in without grounds; no request ends another's session, and a signed-out one stays out; SessionLife is implemented |
| Portal | 1 tab, 2 sign-ins, entra, refreshing, 1 fault, 1 upset, 1 lost response, callback and a gated page besides the login pages and the dashboard | what one user did is not told to the next; every request ends |

**Bounds.** Two tabs are what an interleaving needs: every conflict here is between one
request that loads the session and another that writes it. Two tokens and two boards tell
"this one" from "another". `MaxUpsets` counts failed replies and outside changes together:
one is enough for each single fault, two or three for "changed, then changed back" and a
failure after a change. `MaxFlash` is the number of callbacks not yet shown when another
starts; the flash would otherwise grow without end. `MaxAborts` and `MaxSubmits` bound
lost responses and submissions of the mint form. `SessionIds` bounds the sign-ins: two
tell an old session from a new one, and a sign-in that would need a third is not begun
(`IdsLeft`). `MaxFaults` counts failures of the cache and of Entra and everything that
expires; a refresh needs one (the token has expired) and its refusal or a failed write a
second. `Visited` is the set of routes the user opens of their own accord; the browser is
redirected to all. In Stash it has both gated pages, so that two stashes there are to mix up, and leaves the
linking page to the redirects and the dashboard to Journey, which opens everything; the
session in the server's cache is Journey's too, and what Stash checks of stash and gate is
proved for any pages, storages, tabs and lost responses. The bounds are in the guards and named. No run checks for deadlock: a
user may stop for good.

The properties of `Journey` and `Secrets` are those of a user with **one tab** whose browser
receives and follows every response. This is not modesty of the runs: with a second tab most
of them are false, as the next section shows. In `BoardTabs` there are two tabs, and
`ConfirmationFollows` and `ConfirmedOnce` speak of the user who has opened pages in one of
them only (`KeepsToOneTab`): the second tab's submission would replace what the first is to
confirm. The theorems below say of each how much of this it needs. `PagesAreTruthful`
and `OffersFit` are proved for any number of tabs; `RefusalExplained` and
`SecretShownOnce` hold of one tab whatever is lost; `SentBackOnce` needs every response only
where the session is in the cookie, since a lost response then takes the clearing of the stash
with it; `LatestOutcomeShown` and `SecretNotLost` need every response: TLC finds them violated
after one is lost. What remains of `SentBackOnce` with more tabs is `OnlyOutstandingReturns`.

**Fairness.** Weak fairness on each tab's `…Portal` actions: Node resumes a handler once its
reply has come, and a reply or an error does come, as `client.js` sets no timeout and
undici's default ones reject a fetch that hangs; hapi sends its response and the browser
follows a redirect. Nothing is assumed of the user, of losses, or of the account. Liveness
matters because gate and linking page redirect to each other: the argument TLC confirms is
that a return clears the stash in the very request that redirects, so a second round needs
a new refusal, and a refusal after a successful check needs an upset. In AuthSessions and
Portal an answer of Entra's token endpoint is **not** among the fair actions, but the
`AbortSignal` of the refresh is (`auth.js:175`): `PortalRequestsEnd` is the claim that the
timeout is enough. Expiries are faults, and so finite and never owed; without that bound a
token that is refreshed for `/` and has expired, and is refused a refresh, for `/dashboard`,
again and again, would keep the user between the two.

## Where the code and its words differ

Each of the five is a run whose property TLC finds violated.

1. `LapsedRevoke`: every token route is gated, the revocation too, though
   `controller.js:33` explains why the page must not be: a user with a lapsed connection
   cannot revoke a token.
2. `SecretTwice`: "the secret, shown once" is shown twice to two tabs that load it at once.
3. `StaleOutcome`: the linking page shows the oldest unshown outcome, not the last.
4. `RedStep`: a 502 of the connection test, or a 2xx that does not say 'success', marks the
   connection FAILED, and step 3 of the linking page turns red, though
   `constants/connection-checks.js:5-8` reserves that for a refusal by Mural; and when the
   call for the URL to reconnect with fails too, the page offers nothing, though
   `page.njk:94-95` means to offer a way out rather than leave "a red step with nothing to
   do about it". `PagesAreTruthful` and `OffersFit` say what does hold: a page that *blames*
   the connection is right to, and a red step lacks a way out in that one case only.
5. `SignOut`: the sign-out "signs the user out" (README.md:115-116), but a request that was
   refreshing its token in another tab stores the session again under its old id.
   `SignedOutStaysOut` shows that this cannot happen when refreshing is off, the default, and
   `ImplementsSessionLife` that such a refresh is the only way.

Noted without a run: README.md:115 also says the user is signed out of Entra, which the code
never contacts at sign-out; `controller.js:62` of the login says `/logout` "clears the
session", but when the session does not validate (an expired token, a failing cache) nothing
is cleared; a second sign-in leaves the first session in the cache until it lapses; the
response to a sign-out that arrives after that of a new sign-in removes the new cookie; a
callback of Mural whose session has lapsed loses its code at the redirect to `/`; the created
page takes every flashed secret and shows one (`tokens/controller.js:74` says each survives
one GET); another tab's write-back erases the stash the linking page should explain
(`mural-connection.js:17`); a refresh that Entra answers without an access token lets the
request in and stores `undefined` for the token; the README's feature flag says
`/board-requests/*` answers 404 when
off, but the confirmation route is registered whatever the flag; an invalid POST of a user
without a link is answered with the form and 400, as validation precedes the gate;
`services/board-requests.js` calls `listAccessRequests`, which `infra/mural/approvals.js`
does not export.

## What is proved

`MuralLinking_proofs`, checked by TLAPS for every set of tabs and every value of the bounds.
The assumptions are those on the constants: `Storages` has no third storage, the bounds are
naturals.

* `LinkingTypeCorrect`: `LinkingSpec => []LinkingTypeOK`. The type invariant is inductive as
  it stands; there is a lemma for each step of a request's life and for each group of
  handlers, over lemmas on what the services can answer and on the session keys.
* `GatedPagesAreGuarded`: `LinkingSpec => GateFailsClosed`. Only `GatePasses` takes a tab
  from the gate to its handler (`OneTabMoves`), and no failing reply passes
  (`StatusAnswers`).

`AuthSessions_proofs`, from the assumptions on the ids and the configuration:

* `AuthTypeCorrect`: `AuthSpec => []AuthTypeOK`.
* `CookiesNameStored`: `AuthSpec => []CookieNamesStored`. An id travels from the sign-in's
  response to the cookie and from there to requests, and no step takes it from elsewhere.
* `OnlySignOutEndsSessions`: `AuthSpec => OnlySignOutEnds`. `CacheWrites` lists what a step
  of a request may do to the cache: nothing, an entry that is usable (`GrantedIsUsable`: a
  request refreshes only where tokens are refreshed, so either token granted will do), or the
  end of its own session, by the drop of a sign-out or by saving an answer with neither token.
* `SessionsImplementLife`: `AuthSpec => ImplementsSessionLife`. The strengthening
  `SidsMatter` says that a request at a refresh, a save or a drop came with an id, and
  `CookieNamesStored` that the id had been given out, so that what is saved is a session that
  had lived. Each action maps to a step of SessionLife or a stutter; where two tabs refresh
  one session, the set of refreshing sessions changes only with the last of them.

`SessionJourney_proofs` lifts these to the histories (`JourneyIsAuth`: a behaviour of the
journey is one of AuthSessions):

* `SignedOutForGood`: `SessionJourneySpec => []SignedOutStaysOut`. The inductive `StaysOut`
  says more: signed-out sessions had been given out, and without refreshing no request is at
  a refresh and their entries are absent. `Undecided` (no redirect is set while a request is
  in service) tells the drop that answered from the one that failed.
* `NobodyWithoutGrounds`: `SessionJourneySpec => []LetInOnGrounds`. The inductive `Grounded`
  says that a request that refreshes, or is let in, has grounds; `WellFormed` that an
  entry without a token is the absent one.

`PersonalTokens_proofs`, for any tabs and token ids, with sessions overwriting each other:

* `TokensTypeCorrect`: `TokensSpec => []TokensTypeOK`, from the inductive `TokensShape`, which
  adds which request a tab in service has (a mint is under way only for `Mint`, a secret is
  only on a finished created page). Most of what follows needs it.
* `SecretsShownAreIssued` and `BannersAreTruthful`: `StepMoves` says that a step leaves a
  flash, loads it, takes it, or appends to it an id that mural-mcp has just answered for, and
  `TokensOnlyAge` that issued stays issued and revoked stays revoked. So `SecretsIssued` and
  `BannersTrue`, which speak of the session at rest and of every copy of it, are inductive
  where the properties, which speak of pages, are not.
* `RevocationsAreFinal`: a 404 is also the answer for the token of somebody else, so the
  strengthening is that the id in a revocation is not absent, and stays so.
* `NoTokenUnasked`: the mints under way and the tokens issued together are at most the forms
  submitted (`Cardinality`); a refresh repeats the request of the created page, never the mint.

`TokenJourney_proofs`, for one tab:

* `SecretsAreShownOnce`, whatever is lost. The inductive `ShownIsGone` says that a secret that
  has been displayed is in no session, copy or page, and why a display cannot bring it back:
  the copy its page was read from is empty and dirty, or already stored.
* `SecretsAreNotLost`, when every response arrives. With one tab there is one session at a
  time, at rest or in the request's copy (`Session`, `CopyCurrent`), and `SecretKept` finds
  each secret handed over there, on the page, on the screen, or discarded.

`BoardJourney_proofs`:

* `BoardsTypeCorrect`, `ConflictsAreReal`, `ConfirmationsAreTruthful` for any tabs. The last
  is inductive over every copy (`RecordedOnly`): the id in a session is only copied, and
  written only with a 2xx.
* `ConfirmationsFollow` and `ConfirmationsAreOnce` for any tabs of which the user keeps to
  one, whatever is lost (`Followed`: the session a redirect leads to holds what was accepted;
  `DueOnly`: what it holds has not been confirmed).

`LinkingJourney_proofs`:

* `PagesAreTrue` and `OffersFitTheStatus`, for any tabs: `PagesGrounded` says of each page, by
  the await it is suspended at, what it knows so far and that the link was so at a moment of
  its request (`Staged`, `Grounded`); the properties speak only of what is shown. `WithoutUrl`
  adds that a page with a failed check and no URL is one whose last call failed.
* `RefusalsAreExplained`, one tab: `RefusalKept` follows the stash from the gate through the
  session to the page. A lost response loses refusal and cause together, so that none need
  arrive.
* `ReturnsAreOwed`, one tab and no write lost (`NoStashLost`): `OwedStashed`.
* `LatestOutcomesAreShown`, one tab and every response received: `OutcomeFresh` says that the
  flash holds at most one outcome, the latest.
* `ReturnsAreOutstanding`: `StashSpec => OnlyOutstandingReturns`, for any tabs and storages and
  whatever is lost. The inductive `StashOutstanding` speaks of all the places a stash can be:
  the session at rest, each request's copy, each page; and it says of a copy about to be
  written back that it is what its request made of the stash, the new refusal or none.

`Portal_proofs`, for any tabs, sign-ins, providers and settings; the first theorem with the
session in its cookie (`KeptInCookie`), as the reset of one in the cache is not modelled:

* `UsersAreToldTheirOwn`: `PortalSpec => []ToldTheirOwn`, and in every behaviour a sign-out that
  reaches the browser while the other tabs rest leaves an empty session and nothing the next
  user may be told. The first half exempts what other tabs' requests held at the sign-out, since
  their responses may write it back; the second says that there is no other exemption, however
  many tabs there are (`SignOutsLeaveNothing`, from `RestsEmpty`: a tab at rest holds nothing).
  `TabsStep` reduces the composed
  next-state relation to what authentication (`Authenticates`) and the linking flow (`Serves`)
  do to the session; `OwnHeld` says of the session at rest, every copy, page and redirect that
  what it holds is the present user's. It survives a sign-out because the copy that goes with
  the cleared cookie is the empty one (`PortalServed`), so that only what other requests hold
  at that moment remains; `ownPages` therefore has their redirects too.
* `PortalImplementsLife`, `PortalCookiesNameStored`, `PortalOnlySignOutEnds` and
  `PortalPagesAreGuarded`: the composition keeps what its parts promise of sessions and of the
  gate, whatever the yar session holds. AuthSessions' own theorems do not carry over, since there every request
  ends in the sign-in's pages and the yar session stays empty; but the lemmas they rest on
  assume only `SignInTyped` (the types of the sign-in's variables, and that a request let in
  goes to the gate or to its handler). `PortalParts` splits a step of the portal into one of
  the sign-in, one of the linking flow, which leaves the sign-in's variables alone and neither
  starts nor ends at one of its awaits (`LinkingMoves`), and one elsewhere; `SignInKept` is
  the invariant. They were model-checked on the Portal, with one tab and with two, before they
  were proved; the runs keep checking the same properties of the parts (`Sessions.cfg`,
  `Stash.cfg`).

Every inductive invariant named here was model-checked on the run of its module before it was
proved. Only model-checked: all liveness (`RequestsEnd`, `TokenRequestsEnd` and
`PortalRequestsEnd`), which is out of the prover's reach, and the five violations, which are
counterexamples. `ToldTheirOwn` in a Portal whose session is in the server's cache is neither
checked nor proved; nor is what a user is told after a session that lapsed, or whose sign-out
was skipped because it no longer validated.

## Not modelled, and why

* The composition of the sign-in with the token and board pages: there every request is
  authenticated and has an e-mail address. `server.auth.default('session')` turns others
  away, as Portal models, and the gate's own test is then unreachable.
* Entra's side of a sign-in, and the verification of the id_token: a step that succeeds or is
  refused.
* `yar.reset` when the session is in the server's cache, where it drops the entry and takes
  a new id: Portal is instantiated with the session in the cookie only.
* The boards listing and the approvals functions. `listBoards` and `listApprovalsForIao` call
  `approvalsApi.listAccessRequests`, which `infra/mural/approvals.js` does not export, so
  every call throws a TypeError (their tests are skipped); no registered page calls them, nor
  `getBoardRequest`, and `/approvals` is a placeholder. There is no behaviour to model.
* A session whose cache is not ready, and the first visit that has no session id yet.
* A revocation without a label (blank labels leave no banner; the form always sends one);
  the text of labels, reasons, dates and messages; the sort order of lists.
* The feature flag: `SELF_SERVICE_ACCESS_ENABLED` is taken to be on.
* Views, assets, headers, logging, tracing, pulse, configuration, redis, the health probe
  and the mock consent page: no state the rest reads.

## Plan

The model covers every part that keeps state, every safety property the passing runs check is
a theorem, and the composition implements the abstract specification of its sign-in. What is
left would be:

1. `yar.reset` of a session in the server's cache, which drops the entry and takes a new id,
   so that Portal can be checked, and `UsersAreToldTheirOwn` proved, without `KeptInCookie`.
2. The token and board pages behind the same sign-in, and `ToldTheirOwn` for their flashes and
   the board request they keep.
