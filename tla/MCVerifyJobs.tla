---------------------------- MODULE MCVerifyJobs ----------------------------
(* Small instances of VerifyJobs: two configured databases.                *)
EXTENDS VerifyJobs

MCConfigured == <<"orders", "billing">>
MCOneDatabase == <<"orders">>

\* Any Runner: it may also return the context's error as it is.
AnyRunner == {"ok", "error", "canceled"}
============================================================================
