--------------------------- MODULE RpcClientSync ---------------------------
(***************************************************************************)
(* The synchronous client: RpcClientImpl::call_RPC with a respload, over   *)
(* Client/TcpConnSync.cpp, with the timer of rpc_call_timeout.             *)
(*                                                                         *)
(*   Callers     threads calling call_RPC on one RpcClient, one at a time  *)
(*               under call_mutex_;                                        *)
(*   the timer   the io_service thread running rpc_call_timeout, which     *)
(*               takes no lock and shares was_timeout_ and conn_sync_ with *)
(*               them.                                                     *)
(*                                                                         *)
(* Requests and responses are whole messages (TcpConnAsync specifies the   *)
(* framing).  The server answers as Dispatcher, RpcInstance and the        *)
(* services do: it serves a request, or rejects it with a status and       *)
(* neither service nor opcode, or never answers.                           *)
(***************************************************************************)
EXTENDS Integers, Sequences

CONSTANTS
  Callers,        \* threads
  CallSet,        \* the calls they may make
  MaxCalls,       \* bound: calls made in all
  ServerMayClose  \* the server may close a connection

Ids == 1..MaxCalls

\* What becomes of a request: too long to send, served, rejected, answered with
\* a response above recv_max_msg_size, or never answered.
Kinds == {"oversize", "served", "INVALID_REQUEST", "INVALID_SERVICE", "huge",
          "silent"}

\* timed: with a time-out.
Calls == [kind : Kinds, timed : BOOLEAN]

ASSUME CallAssumption ==
  CallSet \subseteq Calls /\ MaxCalls \in Nat /\ ServerMayClose \in BOOLEAN

Status == {"none", "OK", "INVALID_REQUEST", "INVALID_SERVICE",
           "NETWORK_CONNECT_ERROR", "NETWORK_SEND_ERROR", "NETWORK_RECV_ERROR",
           "RPC_CALL_TIMEOUT", "RECV_FORMAT_ERROR"}

VARIABLES
  calls,        \* the calls made, in the order they were
  pc,           \* where each caller is
  cur,          \* the call each caller is making
  mutex,        \* call_mutex_ is held
  conn,         \* conn_sync_: "null", or the conn_stat_ of the connection
  peer_up,      \* the server has not closed the connection
  pending,      \* requests sent on the connection and not answered
  inbox,        \* responses on the connection not yet read
  was_timeout,  \* was_timeout_
  timer,        \* rpc_call_timer_: the call it waits for, or 0
  expired,      \* queued callbacks of timers that have expired
  closing,      \* rpc_call_timeout is between its two statements
  crashed,      \* it has dereferenced a null conn_sync_
  result,       \* history: what each call returned ...
  got,          \* history: ... and whose response it had read
  elapsed       \* history: calls whose own timer has expired

callVars == <<calls, cur>>
netVars == <<peer_up, pending, inbox>>
timerVars == <<timer, expired, closing, crashed, elapsed>>
vars == <<callVars, pc, mutex, conn, netVars, was_timeout, timerVars, result, got>>

Goto(c, l) == pc' = [pc EXCEPT ![c] = l]

\* call_RPC returns, and the lock_guard gives the mutex back.
Return(c, status) ==
  /\ result' = [result EXCEPT ![cur[c]] = status]
  /\ mutex' = FALSE
  /\ Goto(c, "idle")

-----------------------------------------------------------------------------
(* call_RPC.                                                                *)

Call(c, k) ==
  /\ pc[c] = "idle" /\ Len(calls) < MaxCalls /\ ~crashed
  /\ calls' = Append(calls, k)
  /\ cur' = [cur EXCEPT ![c] = Len(calls')]
  /\ Goto(c, "lock")
  /\ UNCHANGED <<mutex, conn, netVars, was_timeout, timerVars, result, got>>

\* Faulty variant: without the lock_guard.
NoLock(c) ==
  /\ pc[c] = "lock" /\ ~crashed
  /\ mutex' = TRUE
  /\ Goto(c, "connect")
  /\ UNCHANGED <<callVars, conn, netVars, was_timeout, timerVars, result, got>>

Lock(c) ==
  /\ pc[c] = "lock" /\ ~mutex /\ ~crashed
  /\ mutex' = TRUE
  /\ Goto(c, "connect")
  /\ UNCHANGED <<callVars, conn, netVars, was_timeout, timerVars, result, got>>

\* A connection is made when there is none.
Connect(c) ==
  /\ pc[c] = "connect" /\ ~crashed
  /\ Goto(c, "arm")
  /\ IF conn = "null"
     THEN conn' = "kWorking" /\ peer_up' = TRUE /\ pending' = {} /\ inbox' = <<>>
     ELSE UNCHANGED <<conn, netVars>>
  /\ UNCHANGED <<callVars, mutex, was_timeout, timerVars, result, got>>

ConnectFails(c) ==
  /\ pc[c] = "connect" /\ conn = "null" /\ ServerMayClose /\ ~crashed
  /\ Return(c, "NETWORK_CONNECT_ERROR")
  /\ UNCHANGED <<callVars, conn, netVars, was_timeout, timerVars, got>>

\* set_rpc_call_timeout: only a call with a time-out touches the timer and
\* was_timeout_.  A callback that is queued already cannot be cancelled.
set_rpc_call_timeout(c) ==
  /\ pc[c] = "arm" /\ ~crashed
  /\ Goto(c, "send")
  /\ IF calls[cur[c]].timed
     THEN timer' = cur[c] /\ was_timeout' = FALSE
     ELSE UNCHANGED <<timer, was_timeout>>
  /\ UNCHANGED <<callVars, mutex, conn, netVars, expired, closing, crashed, elapsed,
                 result, got>>

\* send_net_message and do_write.
Send(c) ==
  /\ pc[c] = "send" /\ ~crashed
  /\ calls[cur[c]].kind # "oversize" /\ conn = "kWorking"
  /\ pending' = pending \cup {cur[c]}
  /\ Goto(c, "recv")
  /\ UNCHANGED <<callVars, mutex, conn, peer_up, inbox, was_timeout, timerVars,
                 result, got>>

\* The request is too long, the connection is closed, or the write fails and
\* handle_socket_ec closes it.
SendFails(c) ==
  /\ pc[c] = "send" /\ ~crashed
  /\ \/ calls[cur[c]].kind = "oversize" /\ UNCHANGED conn
     \/ calls[cur[c]].kind # "oversize" /\ conn = "kClosed" /\ UNCHANGED conn
     \/ calls[cur[c]].kind # "oversize" /\ ~peer_up /\ conn' = "kClosed"
  /\ Goto(c, "send_failed")
  /\ UNCHANGED <<callVars, mutex, netVars, was_timeout, timerVars, result, got>>

\* The header of the response to call n: RpcInstance::reply_rpc_message fills in
\* service and opcode of the request, RpcInstance::reject only a status.
Header(n) ==
  IF calls[n].kind = "served" THEN [named |-> TRUE, status |-> "OK"]
                              ELSE [named |-> FALSE, status |-> calls[n].kind]

\* call_RPC looks at service and opcode first, then at the status.
StatusOf(h) == IF h.named THEN h.status ELSE "RECV_FORMAT_ERROR"

\* recv_net_message reads a response, which is parsed and checked.
Recv(c) ==
  /\ pc[c] = "recv" /\ conn = "kWorking" /\ inbox # <<>> /\ ~crashed
  /\ calls[Head(inbox)].kind # "huge"
  /\ inbox' = Tail(inbox)
  /\ got' = [got EXCEPT ![cur[c]] = Head(inbox)]
  /\ Return(c, StatusOf(Header(Head(inbox))))
  /\ UNCHANGED <<callVars, conn, peer_up, pending, was_timeout, timerVars>>

\* The connection is or gets closed (kWorking is tested before a read, a read
\* on a closed socket fails), or the response is refused by its header and the
\* connection closed.
RecvFails(c) ==
  /\ pc[c] = "recv" /\ ~crashed
  /\ \/ conn = "kClosed"
     \/ conn = "kWorking" /\ inbox = <<>> /\ ~peer_up
     \/ conn = "kWorking" /\ inbox # <<>> /\ calls[Head(inbox)].kind = "huge"
  /\ conn' = "kClosed"
  /\ Goto(c, "recv_failed")
  /\ UNCHANGED <<callVars, mutex, netVars, was_timeout, timerVars, result, got>>

\* conn_sync_.reset()
Reset(c) ==
  /\ pc[c] \in {"send_failed", "recv_failed"} /\ ~crashed
  /\ conn' = "null"
  /\ Goto(c, IF pc[c] = "send_failed" THEN "send_error" ELSE "recv_error")
  /\ UNCHANGED <<callVars, mutex, netVars, was_timeout, timerVars, result, got>>

ReturnError(c) ==
  /\ pc[c] \in {"send_error", "recv_error"} /\ ~crashed
  /\ Return(c, CASE was_timeout -> "RPC_CALL_TIMEOUT"
                 [] ~was_timeout /\ pc[c] = "send_error" -> "NETWORK_SEND_ERROR"
                 [] OTHER -> "NETWORK_RECV_ERROR")
  /\ UNCHANGED <<callVars, conn, netVars, was_timeout, timerVars, got>>

-----------------------------------------------------------------------------
(* The timer.  A call that returns does not cancel it.                      *)

TimerExpire ==
  /\ timer # 0 /\ ~crashed
  /\ expired' = expired + 1 /\ timer' = 0
  /\ elapsed' = elapsed \cup {timer}
  /\ UNCHANGED <<callVars, pc, mutex, conn, netVars, was_timeout, closing, crashed,
                 result, got>>

\* rpc_call_timeout with no error ...
rpc_call_timeout ==
  /\ expired > 0 /\ ~closing /\ ~crashed
  /\ expired' = expired - 1 /\ closing' = TRUE
  /\ was_timeout' = TRUE
  /\ UNCHANGED <<callVars, pc, mutex, conn, netVars, timer, crashed, elapsed,
                 result, got>>

\* Faulty variant: the socket is left open.
CloseNothing ==
  /\ closing /\ ~crashed
  /\ closing' = FALSE
  /\ UNCHANGED <<callVars, pc, mutex, conn, netVars, was_timeout, timer, expired,
                 crashed, elapsed, result, got>>

\* ... then closes whatever connection there is now.
shutdown_and_close_socket ==
  /\ closing /\ ~crashed
  /\ closing' = FALSE
  /\ IF conn = "null"
     THEN crashed' = TRUE /\ UNCHANGED conn
     ELSE conn' = "kClosed" /\ UNCHANGED crashed
  /\ UNCHANGED <<callVars, pc, mutex, netVars, was_timeout, timer, expired, elapsed,
                 result, got>>

-----------------------------------------------------------------------------
(* The server.                                                              *)

\* A request is served or rejected, and the response sent.
Answer ==
  /\ ~crashed
  /\ \E n \in pending :
       /\ calls[n].kind # "silent"
       /\ pending' = pending \ {n}
       /\ inbox' = Append(inbox, n)
  /\ UNCHANGED <<callVars, pc, mutex, conn, peer_up, was_timeout, timerVars, result,
                 got>>

ServerClose ==
  /\ ServerMayClose /\ peer_up /\ conn = "kWorking" /\ ~crashed
  /\ peer_up' = FALSE
  /\ UNCHANGED <<callVars, pc, mutex, conn, pending, inbox, was_timeout, timerVars,
                 result, got>>

-----------------------------------------------------------------------------
Init ==
  /\ calls = <<>> /\ cur = [c \in Callers |-> 0]
  /\ pc = [c \in Callers |-> "idle"] /\ mutex = FALSE
  /\ conn = "null" /\ peer_up = TRUE /\ pending = {} /\ inbox = <<>>
  /\ was_timeout = FALSE /\ timer = 0 /\ expired = 0 /\ closing = FALSE
  /\ crashed = FALSE /\ elapsed = {}
  /\ result = [n \in Ids |-> "none"] /\ got = [n \in Ids |-> 0]

CallStep(c) ==
  \/ Lock(c) \/ Connect(c) \/ ConnectFails(c) \/ set_rpc_call_timeout(c)
  \/ Send(c) \/ SendFails(c) \/ Recv(c) \/ RecvFails(c) \/ Reset(c)
  \/ ReturnError(c)

TimerStep == rpc_call_timeout \/ shutdown_and_close_socket

Next ==
  \/ \E c \in Callers : CallStep(c)
  \/ \E c \in Callers, k \in CallSet : Call(c, k)
  \/ TimerExpire \/ TimerStep \/ Answer \/ ServerClose

Spec == Init /\ [][Next]_vars

\* The threads run and armed timers expire; nothing is assumed of the server,
\* nor of the order in which call_mutex_ is given.
Fairness ==
  /\ WF_vars(TimerExpire) /\ WF_vars(TimerStep)
  /\ \A c \in Callers : WF_vars(CallStep(c))

FairSpec == Spec /\ Fairness

-----------------------------------------------------------------------------
CallTypeOK ==
  /\ calls \in Seq(Calls) /\ Len(calls) <= MaxCalls
  /\ cur \in [Callers -> 0..MaxCalls]
  /\ pc \in [Callers -> {"idle", "lock", "connect", "arm", "send", "recv",
                         "send_failed", "recv_failed", "send_error", "recv_error"}]

FlagTypeOK ==
  /\ mutex \in BOOLEAN /\ peer_up \in BOOLEAN /\ was_timeout \in BOOLEAN
  /\ closing \in BOOLEAN /\ crashed \in BOOLEAN

NetTypeOK ==
  /\ conn \in {"null", "kWorking", "kClosed"}
  /\ pending \in SUBSET Ids /\ inbox \in Seq(Ids)

TimerTypeOK ==
  /\ timer \in 0..MaxCalls /\ expired \in Nat /\ elapsed \in SUBSET Ids

ResultTypeOK == result \in [Ids -> Status] /\ got \in [Ids -> 0..MaxCalls]

\* Among others, every status returned is one of RpcClientStatus and every
\* response belongs to a request.
TypeOK == CallTypeOK /\ FlagTypeOK /\ NetTypeOK /\ TimerTypeOK /\ ResultTypeOK

\* RpcClientImpl.h, at call_mutex_: calls do not cross-talk.  A call only ever
\* reads the response to its own request, whatever calls failed, timed out or
\* were closed on the way; and only a served request returns OK.
NoCrossTalk ==
  \A n \in Ids :
    /\ got[n] # 0 => got[n] = n
    /\ result[n] = "OK" => got[n] = n /\ calls[n].kind = "served"

\* rpc_call_timeout says of the timer "normal cancel, request handled in-time": it
\* strikes no other call.  A call that times out has had its own time-out, and the
\* timer finds the connection it is to close.
TimerIsOwn ==
  /\ \A n \in Ids : result[n] = "RPC_CALL_TIMEOUT" => n \in elapsed
  /\ ~crashed

\* RpcClientStatus.h: the statuses of the server are those of the client.
StatusPassedOn ==
  \A n \in Ids :
    got[n] # 0 /\ calls[got[n]].kind \in {"INVALID_REQUEST", "INVALID_SERVICE"} =>
      result[n] = calls[got[n]].kind

\* A call with a time-out returns, whatever the server does (unless the timer
\* has used a null conn_sync_, see TimerIsOwn): closing the socket ends the
\* receive under way.
TimedCallsReturn ==
  \A c \in Callers :
    (pc[c] = "recv" /\ calls[cur[c]].timed) ~> (pc[c] = "idle" \/ crashed)
=============================================================================
