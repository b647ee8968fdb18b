---------------------------- MODULE TokenJourney ----------------------------
(***************************************************************************)
(* What becomes of the secret of a token on its way from the mint to the   *)
(* user's screen.  PersonalTokens, observed by history variables.          *)
(***************************************************************************)
EXTENDS PersonalTokens

VARIABLES
  handed,      \* the tokens whose secret mural-mcp has handed to the portal
  shown,       \* [TokenIds -> 0..2] how often a secret was displayed, up to 2
  discarded    \* the secrets a GET took from the session and did not show

secretVars == <<tokensVars, handed, shown, discarded>>

Displays(t, id) == screen[t] = "none" /\ screen'[t] = id

\* GET /account/tokens/created has read the flash.
ReadsSecrets(t) == req[t].route = "created" /\ pc[t] = "handler" /\ pc'[t] = "done"

SecretsIn(flash) == { flash[i] : i \in 1..Len(flash) }

\* POST /account/tokens/new has flashed the secret.
Hands(t) == pc[t] = "mint" /\ pc'[t] = "done" /\ goto'[t] = Created

ObserveSecrets ==
  /\ handed' = handed \cup
       UNION { SecretsIn(ses'[t].newPersonalToken) : t \in {u \in Tabs : Hands(u)} }
  /\ shown' = [id \in TokenIds |->
                 IF shown[id] < 2 /\ \E t \in Tabs : Displays(t, id)
                 THEN shown[id] + 1 ELSE shown[id]]
  /\ discarded' = discarded \cup
       UNION { SecretsIn(ses[t].newPersonalToken) \ {page'[t].secret} :
               t \in {u \in Tabs : ReadsSecrets(u)} }

SecretsInit ==
  /\ TokensInit
  /\ handed = {}
  /\ shown = [id \in TokenIds |-> 0]
  /\ discarded = {}

SecretsNext == TokensNext /\ ObserveSecrets

\* Observing takes no step of its own, so PersonalTokens' fairness is kept as it is.
SecretsSpec ==
  /\ SecretsInit
  /\ [][SecretsNext]_secretVars
  /\ \A t \in Tabs : WF_tokensVars(TokenPortal(t))

-----------------------------------------------------------------------------
(* Properties. *)

\* Safety: GET /account/tokens/created is "the secret, shown once"
\* (controller.js:91), read once and gone (controller.js:23).  True of a user
\* with one tab.
SecretShownOnce == \A id \in TokenIds : shown[id] <= 1

\* A request's copy of the session, or the page being made, still carries it.
InTransit(t, id) ==
  \/ dirty[t] /\ id \in SecretsIn(ses[t].newPersonalToken)
  \/ page[t].secret = id

\* Safety: a secret the portal has been handed is displayed, or still on its way
\* to be: in the session, in the copy a request will commit, or on the page; the
\* GET that takes several secrets at once is the only place one can be lost.
\* mural-mcp has kept only its hash, so a secret lost is lost for good
\* (controller.js:74-75, infra/mural/tokens.js:25-27).
SecretNotLost ==
  \A id \in handed :
    \/ shown[id] > 0
    \/ id \in discarded
    \/ id \in SecretsIn(stored.newPersonalToken)
    \/ \E t \in Tabs : InTransit(t, id)

=============================================================================
