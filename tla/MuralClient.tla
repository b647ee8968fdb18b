---------------------------- MODULE MuralClient ----------------------------
(***************************************************************************)
(* The HTTP client of the portal for the mural-mcp REST API                *)
(* (infra/mural/client.js): how a reply on the wire becomes the value, or  *)
(* the exception, a service sees.  A reply is a status and a body; a body  *)
(* is abstracted to the one thing the services read in it, or to Null when *)
(* response.json() fails.  A fetch that rejects is the reply of status 0.  *)
(***************************************************************************)
EXTENDS Naturals

Null == "null"

Reply(status, body) == [status |-> status, body |-> body]

NetworkError == Reply(0, Null)

\* The part of every upstream outage: the connection fails, mural-mcp
\* answers 500, or it answers 200 with a body that is not JSON.
Failures == { NetworkError, Reply(500, Null), Reply(200, Null) }

ResponseOk(reply) == reply.status \in 200..299

(***************************************************************************)
(* MuralClient.request: {ok: true, data} for a 2xx, {ok: false} for a      *)
(* status the caller listed as expected, MuralMcpError (or the rejection   *)
(* of fetch) for anything else.  Only a 2xx carries its data out.          *)
(***************************************************************************)
Request(reply, expected) ==
  [ result |-> IF ResponseOk(reply) THEN "ok"
               ELSE IF reply.status \in expected THEN "notOk"
               ELSE "thrown",
    status |-> reply.status,
    data   |-> IF ResponseOk(reply) THEN reply.body ELSE Null ]

\* Whether a service can read a property of the data: it throws when the
\* request threw, and when the body was Null (a TypeError, which the service's
\* own catch, or hapi, handles like the other).
Readable(response) == response.result = "ok" /\ response.data # Null

=============================================================================
