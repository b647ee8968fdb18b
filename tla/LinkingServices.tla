-------------------------- MODULE LinkingServices --------------------------
(***************************************************************************)
(* services/mural-linking.js over infra/mural/linking.js: what each call   *)
(* of the linking API tells the pages, as a function of the reply.  Which  *)
(* failure becomes which answer (fails closed, fails soft, fails visibly)  *)
(* is decided here.                                                        *)
(***************************************************************************)
EXTENDS MuralClient

\* linkingOutcomes of constants/linking-outcomes.js.
Outcomes == { "success", "validation_failed", "failed", "cancelled" }

\* connectionChecks and connectionFailureReasons of constants/.
CheckStates == { "verified", "failed", "unavailable" }
FailureReasons == { "unauthorized", "mural_api_error", "none" }

\* Mutant: a check that fails lets the user through.
IsMuralLinked_FailsOpen(reply) ==
  LET response == Request(reply, {})
  IN  Readable(response) => response.data = "linked"

\* Mutant: the check reads a property the reply has not.
IsMuralLinked_WrongField(reply) ==
  LET response == Request(reply, {})
  IN  Readable(response) /\ response.data = "undefined"

(***************************************************************************)
(* isMuralLinked: any failure is "not connected", so that the gate fails   *)
(* closed.                                                                 *)
(***************************************************************************)
IsMuralLinked(reply) ==
  LET response == Request(reply, {})
  IN  Readable(response) /\ response.data = "linked"

(***************************************************************************)
(* The first request of getLinkingStatus, made through _fetchLinkingStatus *)
(***************************************************************************)
LinkingStatus(reply) ==
  LET response == Request(reply, {})
  IN  IF Readable(response) THEN response.data ELSE "statusError"

(***************************************************************************)
(* _fetchAuthorizationUrl: "url" or, when it throws, "none".               *)
(***************************************************************************)
AuthorizationUrl(reply) ==
  IF Readable(Request(reply, {})) THEN "url" ELSE "none"

\* _mapTestFailureReason.
TestFailureReason(status) ==
  IF status = 401 THEN "unauthorized"
  ELSE IF status = 502 THEN "mural_api_error" ELSE "none"

CheckResult(state, reason) == [state |-> state, reason |-> reason]

NoCheck == CheckResult("none", "none")

\* Mutant: what could not be asked or read has failed too.
VerifyConnection_NeverUnavailable(reply) ==
  LET response == Request(reply, {401, 502})
  IN  IF response.result = "ok" /\ response.data = "success"
      THEN CheckResult("verified", "none")
      ELSE CheckResult("failed", TestFailureReason(response.status))

(***************************************************************************)
(* verifyConnection: 401 and 502 are expected and mean FAILED, as does a   *)
(* 2xx whose status field is not 'success'; what could not be asked, or    *)
(* not be read, is UNAVAILABLE.                                            *)
(***************************************************************************)
VerifyConnection(reply) ==
  LET response == Request(reply, {401, 502})
  IN  IF response.result = "thrown" \/ (response.result = "ok" /\ ~Readable(response))
      THEN CheckResult("unavailable", "none")
      ELSE IF response.data = "success" THEN CheckResult("verified", "none")
      ELSE CheckResult("failed", TestFailureReason(response.status))

\* Mutant: an expected 400 is given a code the enumeration has not.
CompleteLinking_Undefined(reply) ==
  LET response == Request(reply, {400})
  IN  IF response.result = "ok" THEN "success"
      ELSE IF response.result = "notOk" THEN "undefined"
      ELSE "failed"

(***************************************************************************)
(* completeLinking: only 400 is expected; the body is never read.          *)
(***************************************************************************)
CompleteLinking(reply) ==
  LET response == Request(reply, {400})
  IN  IF response.result = "ok" THEN "success"
      ELSE IF response.result = "notOk" THEN "validation_failed"
      ELSE "failed"

=============================================================================
