--------------------------- MODULE BoardServices ---------------------------
(***************************************************************************)
(* services/board-requests.js over infra/mural/approvals.js: what          *)
(* submitting a board request tells the page, as a function of the reply.  *)
(***************************************************************************)
EXTENDS MuralClient

\* Mutant: a reply that is not ok is not looked at.
SubmitBoardRequest_Unchecked(reply) ==
  IF Request(reply, {409}).result = "thrown" THEN "thrown" ELSE "success"

\* Mutant: every failure is taken for the expected 409.
SubmitBoardRequest_AnyFailure(reply) ==
  IF Request(reply, {409}).result = "ok" THEN "success" ELSE "conflict"

(***************************************************************************)
(* submitBoardRequest: 409 is expected and is an answer of its own; the    *)
(* body is never read.                                                     *)
(***************************************************************************)
SubmitBoardRequest(reply) ==
  LET response == Request(reply, {409})
  IN  IF response.result = "ok" THEN "success"
      ELSE IF response.result = "notOk" THEN "conflict"
      ELSE "thrown"

=============================================================================
