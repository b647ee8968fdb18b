---------------------------- MODULE SessionLife ----------------------------
(***************************************************************************)
(* What the sign-in promises of a session, whatever the portal does to     *)
(* keep it: its id is given out once, and once it is out (signed out, or   *)
(* lapsed) it is out for good, unless a refresh of its token was under way *)
(* when it went out.  The README says "signs the user out", without that   *)
(* exception; the exception is the code's.                                 *)
(***************************************************************************)
CONSTANT SessionIds

VARIABLES
  life,        \* [SessionIds -> {"new", "in", "out"}]
  refreshing   \* the sessions some request is refreshing

lifeVars == <<life, refreshing>>

SignIn(s) ==
  /\ life[s] = "new"
  /\ life' = [life EXCEPT ![s] = "in"]
  /\ UNCHANGED refreshing

BeginRefresh(s) ==
  /\ life[s] = "in"
  /\ refreshing' = refreshing \cup {s}
  /\ UNCHANGED life

EndRefresh(s) ==
  /\ refreshing' = refreshing \ {s}
  /\ UNCHANGED life

GoOut(s) ==
  /\ life[s] = "in"
  /\ life' = [life EXCEPT ![s] = "out"]
  /\ UNCHANGED refreshing

\* A refresh that was under way brings the session back; others may remain.
Return(s) ==
  /\ life[s] = "out"
  /\ s \in refreshing
  /\ life' = [life EXCEPT ![s] = "in"]
  /\ refreshing' \in {refreshing, refreshing \ {s}}

LifeNext ==
  \E s \in SessionIds :
    SignIn(s) \/ BeginRefresh(s) \/ EndRefresh(s) \/ GoOut(s) \/ Return(s)

LifeInit ==
  /\ life = [s \in SessionIds |-> "new"]
  /\ refreshing = {}

LifeSpec == LifeInit /\ [][LifeNext]_lifeVars

=============================================================================
