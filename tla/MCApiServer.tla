---------------------------- MODULE MCApiServer ----------------------------
(* An instance of ApiServer for TLC: a listener and a command that retries  *)
(* share a transport, and a request comes in on another one.                *)
EXTENDS ApiServer, TLC

CONSTANTS unix, vsock, l, q, r

MCVia  == (l :> unix) @@ (r :> unix) @@ (q :> vsock)
MCKind == (l :> "listen") @@ (r :> "retry") @@ (q :> "request")
=============================================================================
