-------------------------- MODULE MCRpcClientSync --------------------------
(***************************************************************************)
(* Instances of RpcClientSync for TLC: the calls of each run.              *)
(***************************************************************************)
EXTENDS RpcClientSync

Some(kinds, timed) == [kind : kinds, timed : timed]

\* Calls of every kind, with a time-out and without.
EveryCall == Some(Kinds, BOOLEAN)

\* Two calls that the server serves.
ServedCalls == Some({"served"}, BOOLEAN)

\* Calls that the server rejects.
RejectedCalls == Some({"INVALID_REQUEST", "INVALID_SERVICE"}, {FALSE})
=============================================================================
