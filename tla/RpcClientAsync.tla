--------------------------- MODULE RpcClientAsync ---------------------------
(***************************************************************************)
(* The asynchronous client: RpcClientImpl::call_RPC without a respload,    *)
(* over Client/TcpConnAsync.cpp, with the timer of rpc_call_timeout.       *)
(*                                                                         *)
(*   the caller   whichever thread holds call_mutex_, for the whole call;  *)
(*   strands      one for each connection, running its read and write      *)
(*                handlers and with them the application's handler;        *)
(*   the timer    the io_service thread running rpc_call_timeout, which    *)
(*                takes no lock.                                           *)
(*                                                                         *)
(* A connection that the client lets go of (conn_async_.reset()) lives on  *)
(* as long as a handler holds it, so all connections ever made are kept.   *)
(* do_read and do_read_msg test conn_stat_ and start the read in one step: *)
(* when the socket is closed in between, the read fails and its handler    *)
(* finds the connection closed.  do_write is two steps, since send_status_ *)
(* and conn_stat_ are tested before bound_mutex_ is taken.                 *)
(***************************************************************************)
EXTENDS Buffer, SequencesExt

CONSTANTS
  Scripts,        \* the calls that may be made: a set of sequences of calls
  MaxCalls,       \* bound: calls made in all
  BlockLen,       \* kFixedIoBufferSize
  SendMax,        \* send_max_msg_size_, 0 for no limit
  RecvMax,        \* recv_max_msg_size_, 0 for no limit
  ServerMayClose  \* the server may refuse or close a connection

Ids == 1..MaxCalls

\* What the server does with a request: serve it, reject it, or never answer.
Kinds == {"served", "INVALID_REQUEST", "INVALID_SERVICE", "silent"}

\* timed: with a time-out; len and reply: payload lengths of the request and of
\* its response, which hold at least an RpcRequestHeader and an RpcResponseHeader.
Calls == [kind : Kinds, timed : BOOLEAN, len : Nat \ {0}, reply : Nat \ {0}]

ASSUME AsyncAssumption ==
  /\ MaxCalls \in Nat
  /\ \A s \in Scripts : s \in Seq(Calls) /\ Len(s) <= MaxCalls
  /\ BlockLen \in Nat /\ BlockLen >= HeaderLen
  /\ SendMax \in Nat /\ RecvMax \in Nat /\ ServerMayClose \in BOOLEAN

VARIABLES
  calls,        \* the calls made, in the order they were
  pc,           \* where the caller is
  conn,         \* conn_async_: the connection in use, or 0
  conns,        \* the connections made, in the order they were
  was_timeout,  \* was_timeout_
  timer,        \* rpc_call_timer_: the call it waits for, or 0
  expired,      \* queued callbacks of timers that have expired
  closing,      \* rpc_call_timeout is between its two statements
  crashed,      \* it has dereferenced a null conn_async_
  result,       \* history: what each call returned
  on            \* history: the connection it was put on, or 0

timerVars == <<was_timeout, timer, expired, closing, crashed>>
clientVars == <<calls, pc, conn, timerVars, result, on>>
vars == <<clientVars, conns>>

Oversize(k) == SendMax # 0 /\ k.len > SendMax

-----------------------------------------------------------------------------
(* A connection: its members, the asynchronous operations under way, the    *)
(* server's end of it, and what the application's handler was called with.  *)

NoRead == [kind |-> "none", need |-> 0, st |-> "none", n |-> 0]
Reading(kind, need) == [kind |-> kind, need |-> need, st |-> "pending", n |-> 0]
NoHeader == [magic |-> FALSE, len |-> 0]

NewConn ==
  [stat |-> "kWorking", pc |-> "idle",
   recv_buffer |-> <<>>, recv_header |-> NoHeader,
   read_op |-> Reading("head", HeaderLen), rcvd |-> 0,
   send_buffer |-> <<>>, io_block |-> <<>>, send_status |-> "kDone",
   write_ops |-> <<>>, write_done |-> <<>>,
   peer_up |-> TRUE, requests |-> <<>>, wire |-> <<>>, answers |-> <<>>,
   called |-> <<>>]

\* All bytes put into send_bound_.buffer_, and all the server has sent.
Appended(r) == FlattenSeq([i \in 1..Len(r.requests) |->
                             NetStr(r.requests[i], calls[r.requests[i]].len)])
Stream(r) == FlattenSeq([i \in 1..Len(r.answers) |->
                           NetStr(r.answers[i], calls[r.answers[i]].reply)])

Put(c, r) == conns' = [conns EXCEPT ![c] = r] /\ UNCHANGED clientVars

\* sock_shutdown_and_close: what is under way completes with operation_aborted.
Shut(r) ==
  IF r.stat = "kClosed" THEN r
  ELSE [r EXCEPT !.stat = "kClosed",
                 !.read_op.st = IF @ = "pending" THEN "aborted" ELSE @,
                 !.write_done = @ \o [i \in 1..Len(r.write_ops) |-> "aborted"],
                 !.write_ops = <<>>]

\* handle_socket_ec: operation_aborted leaves the connection alone.
handle_socket_ec(r, ec) == IF ec = "aborted" THEN r ELSE Shut(r)

\* from_net_endian and the memcpy into header_.
Decode(hs) ==
  LET n == hs[1][1] IN
  IF n \in 1..Len(calls) /\ hs = NetStr(n, 0)
  THEN [magic |-> TRUE, len |-> calls[n].reply]
  ELSE NoHeader

HeaderOK(h) == h.magic /\ (RecvMax # 0 => h.len <= RecvMax)

\* parse_header on at least HeaderLen bytes, and where it leads.
ParseHeader(r) ==
  LET h == Decode(ConsumeStore(r.recv_buffer, HeaderLen))
      s == [r EXCEPT !.recv_header = h, !.recv_buffer = FrontErase(@, HeaderLen)]
  IN  IF HeaderOK(h) THEN [s EXCEPT !.pc = "do_read_msg"]
                     ELSE Shut([s EXCEPT !.pc = "idle"])

\* async_recv_wrapper: the status and respload that handler_ is called with.
async_recv_wrapper(payload) ==
  LET whose == {n \in 1..Len(calls) : payload = Payload(n, calls[n].reply)} IN
  CASE \E n \in whose : calls[n].kind = "served" -> [status |-> "OK", rsp |-> payload]
    [] \E n \in whose : calls[n].kind # "served" ->
         [status |-> calls[CHOOSE n \in whose : TRUE].kind, rsp |-> <<>>]
    [] whose = {} -> [status |-> "RECV_FORMAT_ERROR", rsp |-> <<>>]

\* Faulty variants: the beginning of the next response goes along; the chain ends
\* with the response.
ParseMsgBodyAll(r) ==
  [r EXCEPT !.recv_buffer = <<>>, !.pc = "do_read",
            !.called = Append(@, async_recv_wrapper(r.recv_buffer))]
ParseMsgBodyLast(r) ==
  [r EXCEPT !.recv_buffer = FrontErase(@, r.recv_header.len), !.pc = "idle",
            !.called = Append(@, async_recv_wrapper(
                                   ConsumeStore(r.recv_buffer, r.recv_header.len)))]

\* parse_msg_body on at least header_.length bytes, the handler, then do_read.
ParseMsgBody(r) ==
  [r EXCEPT !.recv_buffer = FrontErase(@, r.recv_header.len), !.pc = "do_read",
            !.called = Append(@, async_recv_wrapper(
                                   ConsumeStore(r.recv_buffer, r.recv_header.len)))]

-----------------------------------------------------------------------------
(* The read chain, on the strand of connection c.                           *)

do_read(c) ==
  LET r == conns[c] IN
  /\ r.pc = "do_read"
  /\ \/ /\ r.stat # "kWorking"
        /\ Put(c, [r EXCEPT !.pc = "idle"])
     \/ /\ r.stat = "kWorking" /\ Len(r.recv_buffer) < HeaderLen
        /\ Put(c, [r EXCEPT !.pc = "idle",
                     !.read_op = Reading("head", HeaderLen - Len(r.recv_buffer))])
     \/ /\ r.stat = "kWorking" /\ Len(r.recv_buffer) >= HeaderLen
        /\ Put(c, ParseHeader(r))

\* Faulty variant: more is asked for than io_block_ holds.
BodyNeedWhole(r) == r.recv_header.len - Len(r.recv_buffer)

\* Bytes of the body that are missing, or a block when that is less.
BodyNeed(r) == Smaller(r.recv_header.len - Len(r.recv_buffer), BlockLen)

do_read_msg(c) ==
  LET r == conns[c] IN
  /\ r.pc = "do_read_msg"
  /\ \/ /\ r.stat # "kWorking"
        /\ Put(c, [r EXCEPT !.pc = "idle"])
     \/ /\ r.stat = "kWorking" /\ Len(r.recv_buffer) < r.recv_header.len
        /\ Put(c, [r EXCEPT !.pc = "idle", !.read_op = Reading("body", BodyNeed(r))])
     \/ /\ r.stat = "kWorking" /\ Len(r.recv_buffer) >= r.recv_header.len
        /\ Put(c, ParseMsgBody(r))

\* The connection after append_internal of the bytes the read brought.
Received(r) ==
  [r EXCEPT !.recv_buffer = @ \o SubSeq(Stream(r), r.rcvd + 1, r.rcvd + r.read_op.n),
            !.rcvd = @ + r.read_op.n,
            !.read_op = NoRead]

read_handler(c) ==
  LET r == conns[c] IN
  /\ r.pc = "idle" /\ r.read_op.kind = "head" /\ r.read_op.st = "ok"
  /\ LET s == Received(r) IN
     Put(c, IF Len(s.recv_buffer) < HeaderLen THEN [s EXCEPT !.pc = "do_read"]
                                              ELSE ParseHeader(s))

read_msg_handler(c) ==
  LET r == conns[c] IN
  /\ r.pc = "idle" /\ r.read_op.kind = "body" /\ r.read_op.st = "ok"
  /\ LET s == Received(r) IN
     Put(c, IF Len(s.recv_buffer) < s.recv_header.len
            THEN [s EXCEPT !.pc = "do_read_msg"] ELSE ParseMsgBody(s))

\* Either handler with an error code.
ReadHandlerEc(c) ==
  LET r == conns[c] IN
  /\ r.pc = "idle" /\ r.read_op.st \in {"aborted", "error"}
  /\ Put(c, handle_socket_ec([r EXCEPT !.read_op = NoRead], r.read_op.st))

-----------------------------------------------------------------------------
(* The write chain: do_write is called by the strand and by the caller.     *)

\* do_write under bound_mutex_; on a socket closed since the test the write fails.
WriteBlock(r) ==
  LET to_write == Smaller(Len(r.send_buffer), BlockLen) IN
  IF r.send_buffer = <<>> THEN r
  ELSE [r EXCEPT
          !.io_block = ConsumeBlock(@, r.send_buffer, to_write),
          !.send_buffer = FrontErase(@, to_write),
          !.send_status = "kSend",
          !.write_ops = IF r.stat = "kClosed" THEN @
                        ELSE Append(@, [len |-> to_write, pos |-> 0]),
          !.write_done = IF r.stat = "kClosed" THEN Append(@, "error") ELSE @]

StrandWriteTest(c) ==
  LET r == conns[c] IN
  /\ r.pc = "do_write"
  /\ Put(c, [r EXCEPT !.pc = IF r.send_status = "kDone" /\ r.stat = "kWorking"
                             THEN "write_lock" ELSE "idle"])

StrandWrite(c) ==
  /\ conns[c].pc = "write_lock"
  /\ Put(c, WriteBlock([conns[c] EXCEPT !.pc = "idle"]))

\* Faulty variant: the rest of the buffer is not written.
WriteHandlerDone(c) ==
  LET r == conns[c] IN
  /\ r.pc = "idle" /\ r.write_done # <<>> /\ Head(r.write_done) = "ok"
  /\ Put(c, [r EXCEPT !.write_done = Tail(@), !.send_status = "kDone"])

write_handler(c) ==
  LET r == conns[c] IN
  /\ r.pc = "idle" /\ r.write_done # <<>> /\ Head(r.write_done) = "ok"
  /\ Put(c, [r EXCEPT !.write_done = Tail(@), !.send_status = "kDone",
                      !.pc = "do_write"])

\* With an error code: send_status_ stays kSend.
WriteHandlerEc(c) ==
  LET r == conns[c] IN
  /\ r.pc = "idle" /\ r.write_done # <<>> /\ Head(r.write_done) # "ok"
  /\ Put(c, handle_socket_ec([r EXCEPT !.write_done = Tail(@)], Head(r.write_done)))

-----------------------------------------------------------------------------
(* call_RPC, by the thread that holds call_mutex_.                          *)

Cur == Len(calls)

Return(status) == result' = [result EXCEPT ![Cur] = status] /\ pc' = "idle"

\* k is the next call of some script.
NextCall(k) ==
  \E s \in Scripts : Len(calls) < Len(s) /\ SubSeq(s, 1, Len(calls)) = calls
                    /\ k = s[Len(calls) + 1]

\* A connection is made when there is none, and recv_net_message starts the
\* first read.
Call(k) ==
  /\ pc = "idle" /\ NextCall(k)
  /\ calls' = Append(calls, k)
  /\ IF conn = 0
     THEN conns' = Append(conns, NewConn) /\ conn' = Len(conns')
     ELSE UNCHANGED <<conns, conn>>
  /\ pc' = "arm"
  /\ UNCHANGED <<timerVars, result, on>>

ConnectFails(k) ==
  /\ pc = "idle" /\ NextCall(k) /\ conn = 0 /\ ServerMayClose
  /\ calls' = Append(calls, k)
  /\ result' = [result EXCEPT ![Len(calls')] = "NETWORK_CONNECT_ERROR"]
  /\ UNCHANGED <<pc, conn, conns, timerVars, on>>

\* Only a call with a time-out touches the timer and was_timeout_.
set_rpc_call_timeout ==
  /\ pc = "arm"
  /\ pc' = "send"
  /\ IF calls[Cur].timed THEN timer' = Cur /\ was_timeout' = FALSE
                         ELSE UNCHANGED <<timer, was_timeout>>
  /\ UNCHANGED <<calls, conn, conns, expired, closing, crashed, result, on>>

\* send_net_message up to do_write.
send_net_message ==
  /\ pc = "send"
  /\ \/ /\ Oversize(calls[Cur])
        /\ pc' = "failed"
        /\ UNCHANGED <<conns, on>>
     \/ /\ ~Oversize(calls[Cur])
        /\ conns' = [conns EXCEPT
                       ![conn].send_buffer = BufferAppend(@, Cur, calls[Cur].len),
                       ![conn].requests = Append(@, Cur)]
        /\ on' = [on EXCEPT ![Cur] = conn]
        /\ pc' = "do_write"
  /\ UNCHANGED <<calls, conn, timerVars, result>>

\* Faulty variant: a write that is out makes do_write fail.
CallWriteTestFails ==
  /\ pc = "do_write"
  /\ IF conns[conn].send_status = "kDone" /\ conns[conn].stat = "kWorking"
     THEN pc' = "write_lock" ELSE pc' = "failed"
  /\ UNCHANGED <<calls, conn, conns, timerVars, result, on>>

\* do_write up to the lock: a write that is out will trigger the rest, whether
\* or not the connection still works.
CallWriteTest ==
  /\ pc = "do_write"
  /\ \/ /\ conns[conn].send_status # "kDone"
        /\ Return("OK")
     \/ /\ conns[conn].send_status = "kDone"
        /\ pc' = IF conns[conn].stat = "kWorking" THEN "write_lock" ELSE "failed"
        /\ UNCHANGED result
  /\ UNCHANGED <<calls, conn, conns, timerVars, on>>

CallWrite ==
  /\ pc = "write_lock"
  /\ conns' = [conns EXCEPT ![conn] = WriteBlock(@)]
  /\ Return("OK")
  /\ UNCHANGED <<calls, conn, timerVars, on>>

\* conn_async_.reset(): the connection is let go of, not closed ...
Reset ==
  /\ pc = "failed"
  /\ conn' = 0 /\ pc' = "error"
  /\ UNCHANGED <<calls, conns, timerVars, result, on>>

\* ... then was_timeout_ is looked at.
ReturnError ==
  /\ pc = "error"
  /\ Return(IF was_timeout THEN "RPC_CALL_TIMEOUT" ELSE "NETWORK_SEND_ERROR")
  /\ UNCHANGED <<calls, conn, conns, timerVars, on>>

-----------------------------------------------------------------------------
(* The timer.  A response does not cancel it, the next timed call does.     *)

TimerExpire ==
  /\ timer # 0
  /\ expired' = expired + 1 /\ timer' = 0
  /\ UNCHANGED <<calls, pc, conn, conns, was_timeout, closing, crashed, result, on>>

rpc_call_timeout ==
  /\ expired > 0 /\ ~closing
  /\ expired' = expired - 1 /\ closing' = TRUE /\ was_timeout' = TRUE
  /\ UNCHANGED <<calls, pc, conn, conns, timer, crashed, result, on>>

\* Faulty variant: the socket is left open.
CloseNothing ==
  /\ closing
  /\ closing' = FALSE
  /\ UNCHANGED <<calls, pc, conn, conns, was_timeout, timer, expired, crashed,
                 result, on>>

\* The connection closed is the one in use now, whichever the timer was set for.
shutdown_and_close_socket ==
  /\ closing
  /\ closing' = FALSE
  /\ IF conn = 0
     THEN crashed' = TRUE /\ UNCHANGED conns
     ELSE conns' = [conns EXCEPT ![conn] = Shut(@)] /\ UNCHANGED crashed
  /\ UNCHANGED <<calls, pc, conn, was_timeout, timer, expired, result, on>>

-----------------------------------------------------------------------------
(* The network and the server, external.                                    *)

ReadComplete(c) ==
  LET r == conns[c] IN
  /\ r.read_op.st = "pending"
  /\ \E n \in r.read_op.need..BlockLen :
       /\ r.rcvd + n <= Len(Stream(r))
       /\ Put(c, [r EXCEPT !.read_op.st = "ok", !.read_op.n = n])

ReadFail(c) ==
  LET r == conns[c] IN
  /\ r.read_op.st = "pending" /\ ~r.peer_up
  /\ Put(c, [r EXCEPT !.read_op.st = "error"])

\* The oldest queued write sends k bytes, which it reads from io_block_ now.
Transmit(c) ==
  LET r == conns[c] IN
  /\ r.write_ops # <<>>
  /\ LET op == Head(r.write_ops) IN
     \E k \in 1..(op.len - op.pos) :
       LET s == [r EXCEPT !.wire = @ \o SubSeq(r.io_block, op.pos + 1, op.pos + k)] IN
       Put(c, IF op.pos + k = op.len
              THEN [s EXCEPT !.write_ops = Tail(@), !.write_done = Append(@, "ok")]
              ELSE [s EXCEPT !.write_ops = Append(Tail(@), [op EXCEPT !.pos = @ + k])])

WriteFail(c) ==
  LET r == conns[c] IN
  /\ r.write_ops # <<>> /\ ~r.peer_up
  /\ Put(c, [r EXCEPT !.write_ops = Tail(@), !.write_done = Append(@, "error")])

\* The server has all of the i-th request: what it has got up to there is what
\* was appended.
Arrived(r, i) ==
  IsPrefix(Appended([r EXCEPT !.requests = SubSeq(@, 1, i)]), r.wire)

\* A request is served or rejected, in any order.
Answer(c) ==
  LET r == conns[c] IN
  /\ r.peer_up
  /\ \E i \in 1..Len(r.requests) :
       /\ Arrived(r, i) /\ calls[r.requests[i]].kind # "silent"
       /\ \A j \in 1..Len(r.answers) : r.answers[j] # r.requests[i]
       /\ Put(c, [r EXCEPT !.answers = Append(@, r.requests[i])])

ServerClose(c) ==
  LET r == conns[c] IN
  /\ ServerMayClose /\ r.peer_up /\ r.stat = "kWorking"
  /\ Put(c, [r EXCEPT !.peer_up = FALSE])

-----------------------------------------------------------------------------
Init ==
  /\ calls = <<>> /\ pc = "idle" /\ conn = 0 /\ conns = <<>>
  /\ was_timeout = FALSE /\ timer = 0 /\ expired = 0 /\ closing = FALSE
  /\ crashed = FALSE
  /\ result = [n \in Ids |-> "none"] /\ on = [n \in Ids |-> 0]

Strand(c) ==
  \/ do_read(c) \/ do_read_msg(c) \/ read_handler(c) \/ read_msg_handler(c)
  \/ ReadHandlerEc(c) \/ StrandWriteTest(c) \/ StrandWrite(c)
  \/ write_handler(c) \/ WriteHandlerEc(c)

CallStep ==
  \/ set_rpc_call_timeout \/ send_net_message \/ CallWriteTest \/ CallWrite
  \/ Reset \/ ReturnError

TimerStep == TimerExpire \/ rpc_call_timeout \/ shutdown_and_close_socket

Network(c) ==
  ReadComplete(c) \/ ReadFail(c) \/ Transmit(c) \/ WriteFail(c) \/ Answer(c)

\* What happens by itself, as long as the process lives.
Progress ==
  /\ ~crashed
  /\ \/ CallStep \/ TimerStep
     \/ \E c \in 1..Len(conns) : Strand(c) \/ Network(c)

Next ==
  \/ Progress
  \/ ~crashed /\ \E k \in UNION {Range(s) : s \in Scripts} : Call(k) \/ ConnectFails(k)
  \/ ~crashed /\ \E c \in 1..Len(conns) : ServerClose(c)

Spec == Init /\ [][Next]_vars

\* The threads run, armed timers expire, the network moves what it can, and the
\* server answers a request unless it is one of the silent kind.  Each of them is
\* asked to go on on its own; since MaxCalls calls take finitely many steps, this
\* is the same as asking that they do not all stop.
Fairness == WF_vars(Progress)

FairSpec == Spec /\ Fairness

-----------------------------------------------------------------------------
ReadOp == [kind : {"none", "head", "body"}, need : 0..BlockLen,
           st : {"none", "pending", "ok", "aborted", "error"}, n : 0..BlockLen]

ConnOK(r) ==
  /\ r.stat \in {"kWorking", "kClosed"} /\ r.peer_up \in BOOLEAN
  /\ r.pc \in {"idle", "do_read", "do_read_msg", "do_write", "write_lock"}
  /\ r.recv_buffer \in Seq(Byte) /\ r.recv_header \in [magic : BOOLEAN, len : Nat]
  /\ r.read_op \in ReadOp /\ r.rcvd \in 0..Len(Stream(r))
  /\ r.send_buffer \in Seq(Byte) /\ r.io_block \in Seq(Byte)
  /\ Len(r.io_block) <= BlockLen /\ r.send_status \in {"kSend", "kDone"}
  /\ \A i \in 1..Len(r.write_ops) :
       r.write_ops[i].pos < r.write_ops[i].len /\ r.write_ops[i].len <= Len(r.io_block)
  /\ r.write_done \in Seq({"ok", "aborted", "error"})
  /\ r.requests \in Seq(Ids) /\ r.answers \in Seq(Ids) /\ r.wire \in Seq(Byte)

\* Among others, no read or write reaches beyond io_block_, nothing is read that
\* the server has not sent, and a call in progress has a connection.
TypeOK ==
  /\ calls \in Seq(Calls) /\ Len(calls) <= MaxCalls
  /\ pc \in {"idle", "arm", "send", "do_write", "write_lock", "failed", "error"}
  /\ conn \in 0..Len(conns) /\ (pc \notin {"idle", "error"} => conn # 0)
  /\ \A c \in 1..Len(conns) : ConnOK(conns[c])
  /\ was_timeout \in BOOLEAN /\ closing \in BOOLEAN /\ crashed \in BOOLEAN
  /\ timer \in 0..Len(calls) /\ expired \in Nat
  /\ result \in [Ids -> {"none", "OK", "NETWORK_CONNECT_ERROR", "NETWORK_SEND_ERROR",
                         "RPC_CALL_TIMEOUT"}]
  /\ on \in [Ids -> 0..Len(conns)]

\* What the handler is to be called with for the response to call n.
Outcome(n) ==
  IF calls[n].kind = "served"
  THEN [status |-> "OK", rsp |-> Payload(n, calls[n].reply)]
  ELSE [status |-> calls[n].kind, rsp |-> <<>>]

\* However the responses are cut into reads, and whatever is closed meanwhile, the
\* handler is called once for each response that the server has sent on the
\* connection, in the order they came, with its status and its own payload.
HandlerCorrect ==
  \A c \in 1..Len(conns) :
    /\ Len(conns[c].called) <= Len(conns[c].answers)
    /\ \A i \in 1..Len(conns[c].called) :
         conns[c].called[i] = Outcome(conns[c].answers[i])

\* A connection that works listens, with one read: also one the client has let go
\* of, since its responses are still to be handled.
OneReadChain ==
  \A c \in 1..Len(conns) :
    LET r == conns[c]
        inChain == r.pc \in {"do_read", "do_read_msg"}
    IN  /\ ~(r.read_op.kind # "none" /\ inChain)
        /\ r.stat = "kWorking" => r.read_op.kind # "none" \/ inChain

\* No request on a working connection waits for a write nobody will make.
NoLostWakeup ==
  \A c \in 1..Len(conns) :
    LET r == conns[c] IN
    r.stat = "kWorking" /\ r.send_buffer # <<>> =>
      \/ r.write_ops # <<>> \/ r.write_done # <<>>
      \/ r.pc \in {"do_write", "write_lock"}
      \/ conn = c /\ pc \in {"do_write", "write_lock"}

\* ~RpcClientImpl's comment: a connection that is let go of without being closed
\* piles up at the server.  A request that is too long does that to the connection
\* in use; no other way of failing does.
LetGoIsClosed ==
  (\A n \in 1..Len(calls) : ~Oversize(calls[n])) =>
    \A c \in 1..Len(conns) : c # conn => conns[c].stat = "kClosed"

\* The handler has been called for call n.
Handled(n) ==
  on[n] # 0 /\ \E i \in 1..Len(conns[on[n]].called) : conns[on[n]].answers[i] = n

\* Two async_writes have shared io_block_ (see WireIntact of TcpConnAsync).
Garbled(c) == ~IsPrefix(conns[c].wire, Appended(conns[c]))

\* A call that was accepted, unless it has no time-out and the server never answers,
\* comes to an end: its handler is called, or its connection is closed, or was let
\* go of or garbled.  A time-out may thus be late or end other calls too, but it is
\* never lost (unless the timer has used a null conn_async_).
AcceptedSettles ==
  \A n \in Ids :
    (/\ result[n] = "OK"
     /\ calls[n].timed \/ calls[n].kind # "silent") ~>
      (\/ Handled(n) \/ conn # on[n] \/ crashed
       \/ on[n] # 0 /\ (conns[on[n]].stat = "kClosed" \/ Garbled(on[n])))

\* RpcClient.h, at the asynchronous call_RPC: the handler is called when the call
\* is over, and its status tells what went wrong.
AcceptedIsHandled == \A n \in Ids : result[n] = "OK" ~> Handled(n)
=============================================================================
