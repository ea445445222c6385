----------------------------- MODULE MCDbClient -----------------------------
(* Model of the database client: five calls over three request ids, so ids  *)
(* wrap, up to three calls in flight, any number of lost connections.        *)
EXTENDS DbClient
=============================================================================
