----------------------------- MODULE MCExecutor -----------------------------
(* Requests and configurations for TLC.                                     *)
EXTENDS Executor

Ping == [size |-> "whole", marked |-> TRUE, ours |-> TRUE,
         opcode |-> "CMD_READ", op |-> "ping"]

\* Requests that differ from a ping in one respect.
Others ==
  {[Ping EXCEPT !.size = "short"], [Ping EXCEPT !.size = "header"],
   [Ping EXCEPT !.marked = FALSE], [Ping EXCEPT !.ours = FALSE],
   [Ping EXCEPT !.op = "malformed"], [Ping EXCEPT !.op = "unknown"],
   [Ping EXCEPT !.op = "timeout"],
   [Ping EXCEPT !.opcode = "CMD_WRITE"], [Ping EXCEPT !.opcode = "other"]}

\* Each of them, and a burst that makes the pool grow.
Bursts == {<<r>> : r \in Others} \cup {<<Ping, Ping, Ping>>}

Entry(number, hard, step) == [number |-> number, hard |-> hard, step |-> step]

\* Adjusted, not adjusted in two ways, refused, and a setting left out.
Starts ==
  {Entry(1, 2, 1), Entry(1, 2, 0), Entry(2, 2, 1), Entry(1, 3, 1),
   [number |-> 1, step |-> 1]}

\* More threads, a step of 0, refused, and a setting left out.
Runtimes == {Entry(2, 2, 1), Entry(1, 2, 0), Entry(0, 2, 1), [number |-> 1, hard |-> 2]}
=============================================================================
