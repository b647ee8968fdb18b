--------------------------- MODULE SessionJourney ---------------------------
(***************************************************************************)
(* What becomes of a session after its sign-out, and on what grounds a     *)
(* request is let in.  AuthSessions, observed by history variables.        *)
(***************************************************************************)
EXTENDS AuthSessions

VARIABLES
  signedOut,   \* the sessions a sign-out has dropped
  grounds      \* the tabs whose session was usable at some moment of the request

sessionJourneyVars == <<authVars, signedOut, grounds>>

-----------------------------------------------------------------------------

Drops(t) == pc[t] = "drop" /\ goto'[t] = Home

ObserveSessions ==
  /\ signedOut' = signedOut \cup { sid[t] : t \in {u \in Tabs : Drops(u)} }
  /\ grounds' = { t \in Tabs : /\ pc'[t] \notin {"rest", "redirected"}
                               /\ \/ t \in grounds
                                  \/ sid'[t] # "none" /\ Usable(cache[sid'[t]]) }

SessionJourneyInit == AuthInit /\ signedOut = {} /\ grounds = {}

SessionJourneyNext == AuthNext /\ ObserveSessions

\* Observing takes no step of its own, so AuthSessions' fairness is kept as it is.
SessionJourneySpec ==
  /\ SessionJourneyInit
  /\ [][SessionJourneyNext]_sessionJourneyVars
  /\ \A t \in Tabs : WF_authVars(AuthPortal(t))

-----------------------------------------------------------------------------
(* Properties. *)

\* Safety: a request is authenticated only with a session that was alive while
\* the request was in service: stored, and unexpired or able to be refreshed
\* (auth.js:226-259).
LetInOnGrounds == \A t \in Tabs : authed[t] => t \in grounds

\* Safety: when tokens are not refreshed, as is the default (config.js:308), a
\* session that was signed out is never usable again, whatever the other tabs
\* had under way (login/controller.js:67-77).
SignedOutStaysOut == ~refreshes => \A s \in signedOut : ~Usable(cache[s])

\* Safety: the sign-out link "signs the user out" (README.md:115-116), whatever
\* the configuration.
SignOutIsFinal == \A s \in signedOut : ~Usable(cache[s])

=============================================================================
