---------------------------- MODULE TcpConnAsync ----------------------------
(***************************************************************************)
(* One server-side connection: Network/TcpConnAsync.cpp over NetConn.h,    *)
(* with the threads that touch it.                                         *)
(*                                                                         *)
(*   "strand"  the io_service threads running the handlers that are        *)
(*             wrapped in strand_ (read, read_msg and write handlers); the *)
(*             strand lets one of them run at a time;                      *)
(*   "timer"   an io_service thread running ops_cancel_timeout_call, which *)
(*             is NOT wrapped in the strand;                               *)
(*   Workers   the executor threads of the services, which answer requests *)
(*             and call async_send_message directly.                       *)
(*                                                                         *)
(* The steps between which another thread may run are control points       *)
(* (pc).  do_write is two steps, because send_status_, conn_stat_ and      *)
(* was_cancelled_ are tested before bound_mutex_ is taken.                 *)
(*                                                                         *)
(* The socket, boost::asio and the peer are external: a pending read       *)
(* completes with any legal number of bytes, a pending write sends any     *)
(* number of bytes at a time, reading the io_block_ when it sends.         *)
(***************************************************************************)
EXTENDS Buffer, SequencesExt

CONSTANTS
  Workers,        \* executor threads
  Inputs,         \* what the peer may send: a set of sequences of messages
  BlockLen,       \* kFixedIoBufferSize
  RecvMax,        \* recv_max_msg_size, 0 for no limit
  SendMax,        \* send_max_msg_size, 0 for no limit
  RejectLen,      \* payload length of a reject response
  TimeOuts,       \* the values ops_cancel_time_out takes at run time
  Pipelined,      \* those it sends without waiting for responses
  PeerMayFail     \* the peer may close or reset the connection

\* A request as the model tells requests apart: whether magic and version are
\* right, the length its Header announces (and that follows), whether the RPC
\* layer executes or rejects it, and the payload length of its response.
Request == [magic : BOOLEAN, len : Nat, route : {"execute", "reject"}, reply : Nat]

\* All that the peer sends.
Stream(in) == FlattenSeq([m \in 1..Len(in) |-> NetStr(m, in[m].len)])

\* Bytes of its first k requests.
StreamLen(in, k) == Len(Stream(SubSeq(in, 1, k)))

ASSUME ConnAssumption ==
  /\ BlockLen \in Nat /\ BlockLen >= HeaderLen
  /\ RecvMax \in Nat /\ SendMax \in Nat /\ RejectLen \in Nat
  /\ TimeOuts \subseteq Nat /\ TimeOuts # {}
  /\ Pipelined \subseteq Inputs /\ PeerMayFail \in BOOLEAN
  /\ PeerMayFail => Pipelined = Inputs   \* a peer that is down sends nothing new
  /\ Workers \cap {"strand", "timer"} = {}

ASSUME InputAssumption ==
  \A in \in Inputs :
    /\ in \in Seq(Request)
    /\ \A m \in 1..Len(in) : in[m].len = 0 => in[m].route = "reject"

Threads == Workers \cup {"strand", "timer"}

VARIABLES
  input,          \* the messages of the peer
  peer,           \* "up" | "down"
  conn_stat,      \* conn_stat_
  open,           \* socket_ is not closed
  was_cancelled,  \* was_cancelled_
  ops_timer,      \* ops_cancel_timer_: "null", "armed", or "expired" (no wait pending)
  expired,        \* callbacks of expired timers that the io_service has queued
  ops_timeout,    \* server_.ops_cancel_time_out()
  assert_ok,      \* no SAFE_ASSERT has failed
  rcvd,           \* bytes of the stream read so far
  recv_buffer,    \* recv_bound_.buffer_
  recv_header,    \* recv_bound_.header_
  read_op,        \* the outstanding async_read
  delivered,      \* history: the payloads handed to the Dispatcher
  queue,          \* requests waiting for an executor thread
  job,            \* the request a worker is serving
  send_buffer,    \* send_bound_.buffer_
  io_block,       \* send_bound_.io_block_
  send_status,    \* send_status_
  write_ops,      \* outstanding async_writes, in the order of the reactor's queue
  write_done,     \* error codes of completed async_writes, awaiting the strand
  appended,       \* history: every byte appended to send_bound_.buffer_
  wire,           \* history: every byte put on the network
  pc,             \* where each thread is
  resume          \* where the strand goes on after do_write

recvVars == <<rcvd, recv_buffer, recv_header, delivered>>
sendVars == <<send_buffer, io_block, send_status, appended>>
timerVars == <<ops_timer, expired, ops_timeout, assert_ok>>
connVars == <<conn_stat, open, was_cancelled>>
rpcVars == <<queue, job>>
envVars == <<input, peer>>
vars == <<envVars, connVars, timerVars, recvVars, read_op, rpcVars, sendVars,
          write_ops, write_done, wire, pc, resume>>

\* An async_read: for the header or the body, the bytes it needs, how far it is
\* (outstanding, or completed with an error code) and the bytes it brought.
ReadOp == [kind : {"none", "head", "body"}, need : 0..BlockLen,
           st : {"none", "pending", "ok", "aborted", "error"}, n : 0..BlockLen]

NoRead == [kind |-> "none", need |-> 0, st |-> "none", n |-> 0]
\* An async_write of len bytes of io_block_, pos of which are sent; and the error
\* code it completes with.
WriteOp == [len : Nat, pos : Nat]
WriteEc == {"ok", "aborted", "error"}
NoHeader == [magic |-> FALSE, len |-> 0]

\* The state that steers the threads.
ControlTypeOK ==
  /\ peer \in {"up", "down"}
  /\ conn_stat \in {"kPending", "kWorking", "kError", "kClosed"}
  /\ open \in BOOLEAN /\ was_cancelled \in BOOLEAN
  /\ ops_timer \in {"null", "armed", "expired"} /\ expired \in Nat
  /\ ops_timeout \in TimeOuts /\ assert_ok \in BOOLEAN
  /\ send_status \in {"kSend", "kDone"}
  /\ write_ops \in Seq(WriteOp)
  /\ write_done \in Seq(WriteEc)
  /\ pc \in [Threads -> {"start", "idle", "do_read", "arm_head", "do_read_msg",
                         "arm_body", "dispatch", "reply", "do_write",
                         "write_lock", "close"}]
  /\ resume \in {"idle", "do_read"}

\* The receiving half: nothing is read that the peer has not sent, and no read
\* asks for a negative number of bytes or for more than io_block_ holds.
RecvTypeOK ==
  /\ input \in Inputs
  /\ rcvd \in 0..Len(Stream(input)) /\ recv_buffer \in Seq(Byte)
  /\ recv_header \in [magic : BOOLEAN, len : Nat]
  /\ read_op \in ReadOp

\* The sending half: no write reaches beyond what io_block_ holds.
SendTypeOK ==
  /\ delivered \in Seq(Seq(Byte))
  /\ queue \in Seq(1..Len(input)) /\ job \in [Workers -> 0..Len(input)]
  /\ send_buffer \in Seq(Byte) /\ io_block \in Seq(Byte)
  /\ Len(io_block) <= BlockLen
  /\ \A i \in 1..Len(write_ops) :
       write_ops[i].pos < write_ops[i].len /\ write_ops[i].len <= Len(io_block)
  /\ appended \in Seq(Byte) /\ wire \in Seq(Byte)

TypeOK == ControlTypeOK /\ RecvTypeOK /\ SendTypeOK

-----------------------------------------------------------------------------
(* Helpers.                                                                 *)

Goto(t, l) == pc' = [pc EXCEPT ![t] = l]

\* The test that opens do_read, do_read_msg and do_write: the connection works
\* and its operations have not been cancelled.
Usable == conn_stat = "kWorking" /\ ~was_cancelled

\* Somebody owns a shared_ptr to the connection: a handler that waits or runs,
\* a timer wait, or a worker that has locked the RpcInstance's weak pointer.
\* Otherwise ~TcpConnAsync has run.
Alive ==
  \/ read_op.kind # "none" \/ write_ops # <<>> \/ write_done # <<>>
  \/ ops_timer = "armed" \/ expired > 0
  \/ pc["strand"] # "idle" \/ pc["timer"] # "idle"
  \/ \E w \in Workers : pc[w] \in {"do_write", "write_lock"}

\* set_ops_cancel_timeout: (re)arm the one timer of the connection.  The time-out
\* is read again after the test; module_runtime may have replaced it by then.  Any
\* armed timer may expire at once, so the second value matters to the assertion
\* only.
SetOpsTimer ==
  \/ /\ ops_timeout = 0
     /\ assert_ok' = (assert_ok /\ ops_timer = "null")
     /\ UNCHANGED ops_timer
  \/ /\ ops_timeout # 0
     /\ \E again \in TimeOuts : assert_ok' = (assert_ok /\ again # 0)
     /\ ops_timer' = "armed"

\* Socket cancel and close: the operations in flight complete with
\* operation_aborted.  rop and done are the read operation and the completed
\* writes as the running handler finds them, less the one it is handling.
AbortOps(rop, done) ==
  /\ read_op' = IF rop.st = "pending" THEN [rop EXCEPT !.st = "aborted"] ELSE rop
  /\ write_done' = done \o [i \in 1..Len(write_ops) |-> "aborted"]
  /\ write_ops' = <<>>

\* Faulty variant: already kClosed when sock_shutdown_and_close tests it.
OpsCancelEarly(rop, done) ==
  /\ AbortOps(rop, done)
  /\ conn_stat' = "kClosed" /\ was_cancelled' = TRUE
  /\ UNCHANGED open

ops_cancel(rop, done) ==
  /\ AbortOps(rop, done)
  /\ conn_stat' = "kError"
  /\ was_cancelled' = TRUE
  /\ UNCHANGED open

\* handle_socket_ec, after the handler has revoked the timer: an abort that does
\* not come from ops_cancel leaves the connection alone, every other error
\* cancels it and closes it in the step that follows.
handle_socket_ec(ec, rop, done) ==
  \/ /\ ec = "error" \/ was_cancelled
     /\ ops_cancel(rop, done)
     /\ Goto("strand", "close")
  \/ /\ ec = "aborted" /\ ~was_cancelled
     /\ read_op' = rop /\ write_done' = done
     /\ Goto("strand", "idle")
     /\ UNCHANGED <<connVars, write_ops>>

-----------------------------------------------------------------------------
(* The external world: peer, network, timers, configuration.                *)

\* Payload length of the response to message m.
ReplyLen(m) == IF input[m].route = "reject" THEN RejectLen ELSE input[m].reply

\* The responses to the first n requests, one behind the other.
Replies(n) == FlattenSeq([m \in 1..n |-> NetStr(m, ReplyLen(m))])

\* The peer has sent the first k requests: all at once, or one after another,
\* each behind the complete responses to those before it.
Sent(k) == input \in Pipelined \/ k = 1 \/ Len(Replies(k - 1)) <= Len(wire)

\* async_read completes with at least need bytes of what has been sent, and at
\* most a block.
ReadComplete ==
  /\ read_op.st = "pending"
  /\ \E k \in 1..Len(input), n \in read_op.need..BlockLen :
       /\ Sent(k) /\ rcvd + n <= StreamLen(input, k)
       /\ read_op' = [read_op EXCEPT !.st = "ok", !.n = n]
  /\ UNCHANGED <<envVars, connVars, timerVars, recvVars, rpcVars, sendVars,
                 write_ops, write_done, wire, pc, resume>>

\* eof or connection_reset.
ReadFail ==
  /\ read_op.st = "pending" /\ peer = "down"
  /\ read_op' = [read_op EXCEPT !.st = "error"]
  /\ UNCHANGED <<envVars, connVars, timerVars, recvVars, rpcVars, sendVars,
                 write_ops, write_done, wire, pc, resume>>

\* The oldest queued write sends k bytes, which it reads from io_block_ now.
\* When bytes remain, the composed operation queues its next part.
Transmit ==
  /\ write_ops # <<>>
  /\ LET op == Head(write_ops) IN
     \E k \in 1..(op.len - op.pos) :
       /\ wire' = wire \o SubSeq(io_block, op.pos + 1, op.pos + k)
       /\ IF op.pos + k = op.len
          THEN /\ write_ops' = Tail(write_ops)
               /\ write_done' = Append(write_done, "ok")
          ELSE /\ write_ops' = Append(Tail(write_ops), [op EXCEPT !.pos = @ + k])
               /\ UNCHANGED write_done
  /\ UNCHANGED <<envVars, connVars, timerVars, recvVars, read_op, rpcVars,
                 sendVars, pc, resume>>

WriteFail ==
  /\ write_ops # <<>> /\ peer = "down"
  /\ write_ops' = Tail(write_ops)
  /\ write_done' = Append(write_done, "error")
  /\ UNCHANGED <<envVars, connVars, timerVars, recvVars, read_op, rpcVars,
                 sendVars, wire, pc, resume>>

PeerDown ==
  /\ PeerMayFail /\ peer = "up" /\ pc["strand"] # "start"
  /\ peer' = "down"
  /\ UNCHANGED <<input, connVars, timerVars, recvVars, read_op, rpcVars,
                 sendVars, write_ops, write_done, wire, pc, resume>>

\* The timer expires: its callback is queued, and can no longer be cancelled.
TimerExpire ==
  /\ ops_timer = "armed"
  /\ ops_timer' = "expired" /\ expired' = expired + 1
  /\ UNCHANGED <<envVars, connVars, ops_timeout, assert_ok, recvVars, read_op,
                 rpcVars, sendVars, write_ops, write_done, wire, pc, resume>>

\* NetServer::module_runtime copies a new ops_cancel_time_out.
UpdateTimeOut ==
  /\ ops_timeout' \in TimeOuts \ {ops_timeout}
  /\ UNCHANGED <<envVars, connVars, ops_timer, expired, assert_ok, recvVars,
                 read_op, rpcVars, sendVars, write_ops, write_done, wire, pc,
                 resume>>

-----------------------------------------------------------------------------
(* The read chain, on the strand.                                           *)

start ==
  /\ pc["strand"] = "start"
  /\ conn_stat' = "kWorking"
  /\ Goto("strand", "do_read")
  /\ UNCHANGED <<envVars, open, was_cancelled, timerVars, recvVars, read_op,
                 rpcVars, sendVars, write_ops, write_done, wire, resume>>

\* from_net_endian and the memcpy into header_: HeaderLen bytes are a header
\* only when they are the header of one message; anything else has no magic.
Decode(hs) ==
  LET m == hs[1][1] IN
  IF m \in 1..Len(input) /\ hs = NetStr(m, 0)
  THEN [magic |-> input[m].magic, len |-> input[m].len]
  ELSE NoHeader

HeaderOK(h) == h.magic /\ (RecvMax # 0 => h.len <= RecvMax)

\* Faulty variant: a body of exactly RecvMax bytes is refused.
ParseHeaderStrict(buf) ==
  LET h == Decode(ConsumeStore(buf, HeaderLen)) IN
  /\ recv_header' = h
  /\ recv_buffer' = FrontErase(buf, HeaderLen)
  /\ Goto("strand", IF h.magic /\ h.len < RecvMax THEN "do_read_msg" ELSE "close")

\* parse_header on a buffer of at least HeaderLen bytes: the header is consumed
\* either way, a bad one shuts the connection.
ParseHeader(buf) ==
  LET h == Decode(ConsumeStore(buf, HeaderLen)) IN
  /\ recv_header' = h
  /\ recv_buffer' = FrontErase(buf, HeaderLen)
  /\ Goto("strand", IF HeaderOK(h) THEN "do_read_msg" ELSE "close")

\* Faulty variant: takes the beginning of the next request along.
ParseMsgBodyAll(buf) ==
  /\ delivered' = Append(delivered, buf)
  /\ recv_buffer' = <<>>
  /\ Goto("strand", "dispatch")

\* parse_msg_body on a buffer of at least header_.length bytes.
ParseMsgBody(buf) ==
  /\ delivered' = Append(delivered, ConsumeStore(buf, recv_header.len))
  /\ recv_buffer' = FrontErase(buf, recv_header.len)
  /\ Goto("strand", "dispatch")

do_read ==
  /\ pc["strand"] = "do_read"
  /\ \/ /\ ~Usable
        /\ Goto("strand", "idle")
        /\ UNCHANGED <<recv_buffer, recv_header>>
     \/ /\ Usable /\ Len(recv_buffer) < HeaderLen
        /\ Goto("strand", "arm_head")
        /\ UNCHANGED <<recv_buffer, recv_header>>
     \/ /\ Usable /\ Len(recv_buffer) >= HeaderLen
        /\ ParseHeader(recv_buffer)
  /\ UNCHANGED <<envVars, connVars, timerVars, rcvd, delivered, read_op, rpcVars,
                 sendVars, write_ops, write_done, wire, resume>>

do_read_msg ==
  /\ pc["strand"] = "do_read_msg"
  /\ \/ /\ ~Usable
        /\ Goto("strand", "idle")
        /\ UNCHANGED <<recv_buffer, delivered>>
     \/ /\ Usable /\ Len(recv_buffer) < recv_header.len
        /\ Goto("strand", "arm_body")
        /\ UNCHANGED <<recv_buffer, delivered>>
     \/ /\ Usable /\ Len(recv_buffer) >= recv_header.len
        /\ ParseMsgBody(recv_buffer)
  /\ UNCHANGED <<envVars, connVars, timerVars, rcvd, recv_header, read_op,
                 rpcVars, sendVars, write_ops, write_done, wire, resume>>

\* set_ops_cancel_timeout and async_read; on a socket that was closed since the
\* test the operation fails at once.
StartRead(from, kind, need) ==
  /\ pc["strand"] = from
  /\ SetOpsTimer
  /\ read_op' = [kind |-> kind, need |-> need,
                 st |-> IF open THEN "pending" ELSE "error", n |-> 0]
  /\ Goto("strand", "idle")
  /\ UNCHANGED <<envVars, connVars, expired, ops_timeout, recvVars, rpcVars,
                 sendVars, write_ops, write_done, wire, resume>>

\* Faulty variants: the bytes of the header that are buffered already are asked
\* for again; more is asked for than io_block_ holds.
ArmHeadFull == StartRead("arm_head", "head", HeaderLen)
ArmBodyWhole == StartRead("arm_body", "body", recv_header.len - Len(recv_buffer))

ArmHead == StartRead("arm_head", "head", HeaderLen - Len(recv_buffer))

ArmBody == StartRead("arm_body", "body",
                     Smaller(recv_header.len - Len(recv_buffer), BlockLen))

\* read_handler and read_msg_handler with an error code.
ReadHandlerEc ==
  /\ pc["strand"] = "idle" /\ read_op.st \in {"aborted", "error"}
  /\ ops_timer' = "null"
  /\ handle_socket_ec(read_op.st, NoRead, write_done)
  /\ UNCHANGED <<envVars, expired, ops_timeout, assert_ok, recvVars, rpcVars,
                 sendVars, wire, resume>>

\* The buffer after append_internal of the bytes the read brought.
Received == recv_buffer \o SubSeq(Stream(input), rcvd + 1, rcvd + read_op.n)

read_handler ==
  /\ pc["strand"] = "idle" /\ read_op.kind = "head" /\ read_op.st = "ok"
  /\ ops_timer' = "null"
  /\ rcvd' = rcvd + read_op.n
  /\ read_op' = NoRead
  /\ IF Len(Received) < HeaderLen
     THEN /\ recv_buffer' = Received
          /\ Goto("strand", "do_read")
          /\ UNCHANGED recv_header
     ELSE ParseHeader(Received)
  /\ UNCHANGED <<envVars, connVars, expired, ops_timeout, assert_ok, delivered,
                 rpcVars, sendVars, write_ops, write_done, wire, resume>>

read_msg_handler ==
  /\ pc["strand"] = "idle" /\ read_op.kind = "body" /\ read_op.st = "ok"
  /\ ops_timer' = "null"
  /\ rcvd' = rcvd + read_op.n
  /\ read_op' = NoRead
  /\ IF Len(Received) < recv_header.len
     THEN /\ recv_buffer' = Received
          /\ Goto("strand", "do_read_msg")
          /\ UNCHANGED delivered
     ELSE ParseMsgBody(Received)
  /\ UNCHANGED <<envVars, connVars, expired, ops_timeout, assert_ok, recv_header,
                 rpcVars, sendVars, write_ops, write_done, wire, resume>>

\* Faulty variant: what was started after the cancelling is not aborted.
CloseWithoutAbort(t) ==
  /\ pc[t] = "close"
  /\ Goto(t, "idle")
  /\ open' = FALSE /\ conn_stat' = "kClosed"
  /\ UNCHANGED <<was_cancelled, read_op, write_ops, write_done>>
  /\ UNCHANGED <<envVars, timerVars, recvVars, rpcVars, sendVars, wire, resume>>

\* sock_shutdown_and_close: after a bad header on the strand, or as the second
\* half of a cancelling.
sock_shutdown_and_close(t) ==
  /\ pc[t] = "close"
  /\ Goto(t, "idle")
  /\ IF conn_stat = "kClosed"
     THEN UNCHANGED <<connVars, read_op, write_ops, write_done>>
     ELSE /\ AbortOps(read_op, write_done)
          /\ open' = FALSE /\ conn_stat' = "kClosed"
          /\ UNCHANGED was_cancelled
  /\ UNCHANGED <<envVars, timerVars, recvVars, rpcVars, sendVars, wire, resume>>

\* ops_cancel_timeout_call with no error: the timer has expired.
ops_cancel_timeout_call ==
  /\ expired > 0 /\ pc["timer"] = "idle"
  /\ expired' = expired - 1
  /\ ops_cancel(read_op, write_done)
  /\ Goto("timer", "close")
  /\ UNCHANGED <<envVars, ops_timer, ops_timeout, assert_ok, recvVars, rpcVars,
                 sendVars, wire, resume>>

-----------------------------------------------------------------------------
(* Requests and responses.                                                  *)

\* async_send_message up to do_write: an oversize response is dropped.
SendMessage(m, len, t, back) ==
  IF SendMax # 0 /\ len > SendMax
  THEN /\ Goto(t, back)
       /\ UNCHANGED <<send_buffer, appended>>
  ELSE /\ send_buffer' = BufferAppend(send_buffer, m, len)
       /\ appended' = appended \o NetStr(m, len)
       /\ Goto(t, "do_write")

\* Dispatcher::handle_RPC for the request just delivered: queued for the
\* executor, or rejected from the strand; do_read follows.
Dispatch ==
  /\ pc["strand"] = "dispatch"
  /\ LET m == Len(delivered) IN
     \/ /\ input[m].route = "execute"
        /\ queue' = Append(queue, m)
        /\ Goto("strand", "do_read")
        /\ UNCHANGED <<send_buffer, appended, resume>>
     \/ /\ input[m].route = "reject"
        /\ SendMessage(m, ReplyLen(m), "strand", "do_read")
        /\ resume' = "do_read"
        /\ UNCHANGED queue
  /\ UNCHANGED <<envVars, connVars, timerVars, recvVars, read_op, job, io_block,
                 send_status, write_ops, write_done, wire>>

\* executor_service_run takes a request and runs the service's handler.
Pop(w) ==
  /\ pc[w] = "idle" /\ queue # <<>>
  /\ job' = [job EXCEPT ![w] = Head(queue)]
  /\ queue' = Tail(queue)
  /\ Goto(w, "reply")
  /\ UNCHANGED <<envVars, connVars, timerVars, recvVars, read_op, sendVars,
                 write_ops, write_done, wire, resume>>

\* reply_rpc_message: nothing is sent once the connection has been released.
reply_rpc_message(w) ==
  /\ pc[w] = "reply"
  /\ IF Alive
     THEN SendMessage(job[w], ReplyLen(job[w]), w, "idle")
     ELSE /\ Goto(w, "idle")
          /\ UNCHANGED <<send_buffer, appended>>
  /\ UNCHANGED <<envVars, connVars, timerVars, recvVars, read_op, rpcVars,
                 io_block, send_status, write_ops, write_done, wire, resume>>

-----------------------------------------------------------------------------
(* The write chain.                                                         *)

\* Faulty variant: the strand does not go back to do_read after a rejection.
ReturnIdle(t) == Goto(t, "idle")

\* Where thread t goes when do_write returns.
Return(t) == Goto(t, IF t = "strand" THEN resume ELSE "idle")

\* Faulty variant: wait for the write that is out instead of leaving the rest to
\* its handler.
DoWriteTestWait(t) ==
  /\ pc[t] = "do_write" /\ (send_status = "kDone" \/ ~Usable)
  /\ IF Usable THEN Goto(t, "write_lock") ELSE Return(t)
  /\ UNCHANGED <<envVars, connVars, timerVars, recvVars, read_op, rpcVars,
                 sendVars, write_ops, write_done, wire, resume>>

\* do_write up to the lock: give up while a write is out or the connection is
\* not usable.
DoWriteTest(t) ==
  /\ pc[t] = "do_write"
  /\ IF send_status = "kDone" /\ Usable THEN Goto(t, "write_lock") ELSE Return(t)
  /\ UNCHANGED <<envVars, connVars, timerVars, recvVars, read_op, rpcVars,
                 sendVars, write_ops, write_done, wire, resume>>

\* do_write under bound_mutex_.
DoWriteLocked(t) ==
  /\ pc[t] = "write_lock"
  /\ Return(t)
  /\ \/ /\ send_buffer = <<>>
        /\ send_status' = "kDone"
        /\ UNCHANGED <<send_buffer, io_block, ops_timer, assert_ok, write_ops,
                       write_done>>
     \/ /\ send_buffer # <<>>
        /\ LET to_write == Smaller(Len(send_buffer), BlockLen) IN
           /\ io_block' = ConsumeBlock(io_block, send_buffer, to_write)
           /\ send_buffer' = FrontErase(send_buffer, to_write)
           /\ IF open
              THEN /\ write_ops' = Append(write_ops, [len |-> to_write, pos |-> 0])
                   /\ UNCHANGED write_done
              ELSE /\ write_done' = Append(write_done, "error")
                   /\ UNCHANGED write_ops
        /\ send_status' = "kSend"
        /\ SetOpsTimer
  /\ UNCHANGED <<envVars, connVars, expired, ops_timeout, recvVars, read_op,
                 rpcVars, appended, wire, resume>>

\* Faulty variant: the rest of the buffer is not written.
WriteHandlerDone ==
  /\ pc["strand"] = "idle" /\ write_done # <<>> /\ Head(write_done) = "ok"
  /\ ops_timer' = "null"
  /\ write_done' = Tail(write_done)
  /\ send_status' = "kDone"
  /\ UNCHANGED <<envVars, connVars, expired, ops_timeout, assert_ok, recvVars,
                 read_op, rpcVars, send_buffer, io_block, appended, write_ops,
                 wire, pc, resume>>

write_handler ==
  /\ pc["strand"] = "idle" /\ write_done # <<>> /\ Head(write_done) = "ok"
  /\ ops_timer' = "null"
  /\ write_done' = Tail(write_done)
  /\ send_status' = "kDone"
  /\ resume' = "idle"
  /\ Goto("strand", "do_write")
  /\ UNCHANGED <<envVars, connVars, expired, ops_timeout, assert_ok, recvVars,
                 read_op, rpcVars, send_buffer, io_block, appended, write_ops,
                 wire>>

\* write_handler with an error code: send_status_ stays kSend.
WriteHandlerEc ==
  /\ pc["strand"] = "idle" /\ write_done # <<>> /\ Head(write_done) # "ok"
  /\ ops_timer' = "null"
  /\ handle_socket_ec(Head(write_done), read_op, Tail(write_done))
  /\ UNCHANGED <<envVars, expired, ops_timeout, assert_ok, recvVars, rpcVars,
                 sendVars, wire, resume>>

-----------------------------------------------------------------------------
Init ==
  /\ input \in Inputs /\ peer = "up"
  /\ conn_stat = "kPending" /\ open = TRUE /\ was_cancelled = FALSE
  /\ ops_timer = "null" /\ expired = 0 /\ ops_timeout \in TimeOuts
  /\ assert_ok = TRUE
  /\ rcvd = 0 /\ recv_buffer = <<>> /\ recv_header = NoHeader
  /\ read_op = NoRead /\ delivered = <<>>
  /\ queue = <<>> /\ job = [w \in Workers |-> 0]
  /\ send_buffer = <<>> /\ io_block = <<>> /\ send_status = "kDone"
  /\ write_ops = <<>> /\ write_done = <<>> /\ appended = <<>> /\ wire = <<>>
  /\ pc = [t \in Threads |-> IF t = "strand" THEN "start" ELSE "idle"]
  /\ resume = "idle"

Strand ==
  \/ start \/ do_read \/ do_read_msg \/ ArmHead \/ ArmBody
  \/ ReadHandlerEc \/ read_handler \/ read_msg_handler \/ Dispatch
  \/ write_handler \/ WriteHandlerEc

Worker(w) == Pop(w) \/ reply_rpc_message(w)

Network == ReadComplete \/ ReadFail \/ Transmit \/ WriteFail

Next ==
  \/ Strand \/ Network
  \/ \E w \in Workers : Worker(w)
  \/ \E t \in Threads : DoWriteTest(t) \/ DoWriteLocked(t) \/ sock_shutdown_and_close(t)
  \/ ops_cancel_timeout_call \/ TimerExpire \/ UpdateTimeOut \/ PeerDown

Spec == Init /\ [][Next]_vars

\* The io_service threads and the executor threads keep running, the peer reads
\* what is sent to it, and a read whose data has arrived completes.  Nothing is
\* assumed of timers, of the configuration or of failures.
Fairness ==
  /\ WF_vars(Strand) /\ WF_vars(ops_cancel_timeout_call)
  /\ WF_vars(ReadComplete \/ ReadFail) /\ WF_vars(Transmit \/ WriteFail)
  /\ \A w \in Workers : WF_vars(Worker(w))
  /\ \A t \in Threads :
       WF_vars(DoWriteTest(t) \/ DoWriteLocked(t) \/ sock_shutdown_and_close(t))

FairSpec == Spec /\ Fairness

-----------------------------------------------------------------------------
(* Safety.                                                                  *)

\* Whatever way the bytes are cut into reads, the Dispatcher gets exactly the
\* payloads of the requests sent, in order and byte for byte, and none behind a
\* bad header (read_handler, read_msg_handler, parse_header, parse_msg_body).
FramingCorrect ==
  /\ Len(delivered) <= Len(input)
  /\ \A m \in 1..Len(delivered) :
       /\ delivered[m] = Payload(m, input[m].len)
       /\ HeaderOK(input[m])

\* No reply waits for a write nobody will make: the comment at do_write's test
\* of send_status_ says that the outstanding write triggers the rest.
NoLostWakeup ==
  conn_stat = "kWorking" /\ send_buffer # <<>> =>
    \/ write_ops # <<>> \/ write_done # <<>>
    \/ \E t \in Threads : pc[t] \in {"do_write", "write_lock"}

\* The strand is inside the read chain.
InReadChain ==
  \/ pc["strand"] \in {"start", "do_read", "arm_head", "do_read_msg", "arm_body",
                       "dispatch"}
  \/ pc["strand"] \in {"do_write", "write_lock"} /\ resume = "do_read"

\* A working connection always listens, with one read only: either an async_read
\* is outstanding or the strand is about to start one (or to close).
OneReadChain ==
  /\ ~(read_op.kind # "none" /\ InReadChain)
  /\ conn_stat = "kWorking" =>
       read_op.kind # "none" \/ InReadChain \/ pc["strand"] = "close"

\* A connection that is given up has its socket closed, or a thread about to
\* close it, whichever of strand and timer gave it up and however they
\* interleave on conn_stat_ (ops_cancel sets it without conn_mutex_).
GivenUpIsClosed ==
  /\ conn_stat = "kError" => \E t \in Threads : pc[t] = "close"
  /\ conn_stat = "kClosed" => ~open
  /\ was_cancelled => conn_stat \in {"kError", "kClosed"}

\* TcpConnAsync.h, at send_status_: the responses reach the client whole, in the
\* order in which they were appended.
WireIntact == IsPrefix(wire, appended)

\* Without timers and failures of the peer, only a bad header closes the
\* connection.
CloseJustified ==
  ~open => /\ Len(delivered) < Len(input)
           /\ ~HeaderOK(input[Len(delivered) + 1])

-----------------------------------------------------------------------------
(* Liveness.                                                                *)

\* Responses that are buffered get sent, or the connection is given up.
Flushed == send_buffer # <<>> ~> (send_buffer = <<>> \/ conn_stat # "kWorking")

\* A connection that is given up is released, so that current_concurrency_ goes
\* down: no handler, timer wait or worker keeps it forever.
Released == conn_stat \in {"kError", "kClosed"} ~> [](~Alive)

\* Requests in front of the first bad header.
Good ==
  LET oks == {n \in 0..Len(input) : \A m \in 1..n : HeaderOK(input[m])}
  IN  CHOOSE n \in oks : \A k \in oks : k <= n

\* Without timers and failures of the peer every good request is delivered, its
\* last byte being enough: no read waits for bytes that are already buffered.
AllDelivered == <>[](Len(delivered) = Good)

\* Without timers, failures of the peer and bad headers, the whole response to
\* every request, unless too long, is put on the network.
AllAnswered == <>[](Good = Len(input) => Len(wire) = Len(Replies(Good)))
=============================================================================
