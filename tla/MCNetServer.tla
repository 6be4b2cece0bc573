---------------------------- MODULE MCNetServer ----------------------------
(***************************************************************************)
(* Instances of NetServer for TLC: the configurations of each run.         *)
(***************************************************************************)
EXTENDS NetServer

CONSTANTS home, away     \* two client addresses

Conf(speed, limit, safe) ==
  [service_enable |-> TRUE, service_speed |-> speed, service_concurrency |-> limit,
   safe_ip |-> safe, ops_cancel_time_out |-> 10, send_max_msg_size |-> 0,
   recv_max_msg_size |-> 0, rest_ok |-> TRUE]

\* Admission: a speed limit from the start, one switched on or off, none; limits
\* that change; configurations that do not load; a server that is not enabled.
AdmissionInit ==
  {Conf(0, 1, {}), Conf(2, 2, {home}),
   [Conf(0, 1, {}) EXCEPT !.service_enable = FALSE]}
AdmissionNew ==
  {Conf(2, 1, {}), Conf(2, 2, {home, Blank}), Conf(0, 2, {}), Conf(-1, 1, {}),
   Conf(2, -1, {}), [Conf(2, 1, {}) EXCEPT !.recv_max_msg_size = 32],
   [Conf(2, 1, {}) EXCEPT !.send_max_msg_size = 32],
   [Conf(2, 1, {}) EXCEPT !.rest_ok = FALSE]}

\* A limit of connections that nobody changes.
ConcurrencyInit == {Conf(0, 1, {})}

\* A speed limit that is changed.
RespeedInit == {Conf(1, 0, {})}
RespeedNew == {Conf(2, 0, {})}
=============================================================================
