--------------------------- MODULE TokenServices ---------------------------
(***************************************************************************)
(* services/personal-tokens.js over infra/mural/tokens.js: what each call  *)
(* of the token API tells the pages, as a function of the reply.           *)
(***************************************************************************)
EXTENDS MuralClient

(***************************************************************************)
(* listTokens fails soft: a request that throws is a listError, a 2xx      *)
(* whose body is not JSON is an empty listing (res.data ?? []).  What is   *)
(* listed is the callers' part; this is which of the three they get.       *)
(***************************************************************************)
ListTokens(reply) ==
  LET response == Request(reply, {})
  IN  IF response.result # "ok" THEN "listError"
      ELSE IF response.data = Null THEN "empty" ELSE "listed"

(***************************************************************************)
(* mintToken does not fail soft: the token, or an exception.               *)
(***************************************************************************)
MintToken(reply) ==
  LET response == Request(reply, {})
  IN  IF Readable(response) THEN response.data ELSE "thrown"

\* Mutant: every failure is taken for the expected 404.
RevokeToken_AnyFailure(reply) ==
  IF Request(reply, {404}).result = "ok" THEN "success" ELSE "notFound"

(***************************************************************************)
(* revokeToken: 404 is expected and is an answer of its own.               *)
(***************************************************************************)
RevokeToken(reply) ==
  LET response == Request(reply, {404})
  IN  IF response.result = "ok" THEN "success"
      ELSE IF response.result = "notOk" THEN "notFound"
      ELSE "thrown"

=============================================================================
