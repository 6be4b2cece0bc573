------------------------- MODULE TcpConnAsyncControl ------------------------
(***************************************************************************)
(* Proofs about TcpConnAsync, for every set of workers, every input, every *)
(* header and block size and every limit.                                  *)
(*                                                                         *)
(*   ControlInv   the threads, the socket and the outstanding operations;  *)
(*                it gives NoLostWakeup, OneReadChain and GivenUpIsClosed. *)
(***************************************************************************)
EXTENDS TcpConnAsync, BufferProofs

\* Each thread stays at the control points of its own code.
OwnPoints ==
  /\ pc["timer"] \in {"idle", "close"}
  /\ \A w \in Workers : pc[w] \in {"idle", "reply", "do_write", "write_lock"}
  /\ pc["strand"] # "reply"

\* Before start() nobody else knows the connection.
Fresh ==
  /\ pc["strand"] = "start" =>
       /\ conn_stat = "kPending" /\ queue = <<>> /\ expired = 0
       /\ ops_timer = "null" /\ pc["timer"] = "idle"
       /\ send_status = "kDone" /\ send_buffer = <<>>
       /\ \A w \in Workers : pc[w] = "idle"
  /\ conn_stat = "kPending" => pc["strand"] = "start"

\* send_status_ is kSend only while a write is out, or the connection is lost.
SendStatusTrue ==
  send_status = "kSend" /\ conn_stat = "kWorking" =>
    write_ops # <<>> \/ write_done # <<>>

\* Operations are aborted only when the connection is given up.
AbortedIsGivenUp ==
  /\ read_op.st = "aborted" => conn_stat \in {"kError", "kClosed"}
  /\ \A i \in 1..Len(write_done) :
       write_done[i] = "aborted" => conn_stat \in {"kError", "kClosed"}

\* An operation has a kind exactly when it has a status.
ReadOpShape == read_op.kind = "none" <=> read_op.st = "none"

\* The lengths that do_read and do_read_msg tested still hold at the async_read,
\* and a completed read lies within the stream.
ReadBounds ==
  /\ pc["strand"] = "arm_head" => Len(recv_buffer) < HeaderLen
  /\ pc["strand"] = "arm_body" => Len(recv_buffer) < recv_header.len
  /\ read_op.st = "ok" => rcvd + read_op.n <= Len(Stream(input))

ControlInv ==
  /\ ControlTypeOK /\ RecvTypeOK
  /\ OwnPoints /\ Fresh /\ SendStatusTrue /\ AbortedIsGivenUp /\ ReadOpShape
  /\ ReadBounds
  /\ NoLostWakeup /\ OneReadChain /\ GivenUpIsClosed

-----------------------------------------------------------------------------
\* Cancelling or closing the socket (AbortOps) empties the queue of writes, keeps
\* every completion that was there and turns a pending read into an aborted one.
LEMMA AbortFacts ==
  ASSUME write_ops \in Seq(WriteOp), NEW rop \in ReadOp,
         NEW done \in Seq(WriteEc), AbortOps(rop, done)
  PROVE  /\ write_ops' = <<>>
         /\ write_done' \in Seq(WriteEc)
         /\ Len(write_done') >= Len(done)
         /\ read_op' \in ReadOp
         /\ read_op'.kind = rop.kind
         /\ read_op'.st = "none" <=> rop.st = "none"
         /\ read_op'.st = "ok" <=> rop.st = "ok"
         /\ read_op'.n = rop.n
<1> DEFINE ab == [i \in 1..Len(write_ops) |-> "aborted"]
<1>1. ab \in Seq(WriteEc)
  BY DEF WriteEc
<1>2. write_done' = done \o ab
  BY DEF AbortOps
<1>3. write_done' \in Seq(WriteEc) /\ Len(write_done') >= Len(done)
  <2> HIDE DEF ab
  <2> QED BY <1>1, <1>2
<1>4. read_op' \in ReadOp /\ read_op'.kind = rop.kind /\ read_op'.n = rop.n
      /\ (read_op'.st = "none" <=> rop.st = "none")
      /\ (read_op'.st = "ok" <=> rop.st = "ok")
  <2>1. CASE rop.st = "pending"
    BY <2>1 DEF AbortOps, ReadOp
  <2>2. CASE rop.st # "pending"
    BY <2>2 DEF AbortOps
  <2> QED BY <2>1, <2>2
<1> QED BY <1>3, <1>4 DEF AbortOps

\* A completion that is no abort is added behind the others.
LEMMA AddEc ==
  ASSUME NEW done \in Seq(WriteEc), NEW ec \in WriteEc, ec # "aborted"
  PROVE  /\ Append(done, ec) \in Seq(WriteEc) /\ Append(done, ec) # <<>>
         /\ \A i \in 1..Len(Append(done, ec)) :
              Append(done, ec)[i] = "aborted" => i \in 1..Len(done) /\ done[i] = "aborted"
<1>1. /\ Append(done, ec) \in Seq(WriteEc) /\ Append(done, ec) # <<>>
      /\ Len(Append(done, ec)) = Len(done) + 1 /\ Len(done) \in Nat
      /\ \A i \in 1..Len(done) : Append(done, ec)[i] = done[i]
      /\ Append(done, ec)[Len(done) + 1] = ec
  BY AppendProperties, LenProperties
<1> HIDE DEF WriteEc
<1> QED BY <1>1

\* One part of a write is sent: the write stays queued or it completes.
LEMMA SendPart ==
  ASSUME NEW ops \in Seq(WriteOp), ops # <<>>, NEW k \in 1..(Head(ops).len - Head(ops).pos)
  PROVE  /\ Head(ops) \in WriteOp /\ Tail(ops) \in Seq(WriteOp)
         /\ Append(Tail(ops), [Head(ops) EXCEPT !.pos = @ + k]) \in Seq(WriteOp)
         /\ Append(Tail(ops), [Head(ops) EXCEPT !.pos = @ + k]) # <<>>
<1>1. Head(ops) \in WriteOp /\ Tail(ops) \in Seq(WriteOp)
  BY HeadTailProperties
<1>2. k \in Nat
  BY <1>1 DEF WriteOp
<1>3. [Head(ops) EXCEPT !.pos = @ + k] \in WriteOp
  BY <1>1, <1>2 DEF WriteOp
<1> DEFINE op == [Head(ops) EXCEPT !.pos = @ + k]
<1>4. Append(Tail(ops), op) \in Seq(WriteOp) /\ Append(Tail(ops), op) # <<>>
  <2>1. op \in WriteOp
    BY <1>3
  <2> DEFINE rest == Tail(ops)
  <2>2. rest \in Seq(WriteOp)
    BY <1>1
  <2> HIDE DEF op, rest
  <2>3. Append(rest, op) \in Seq(WriteOp) /\ Append(rest, op) # <<>>
    BY ONLY <2>1, <2>2, AppendProperties
  <2> QED BY <2>3 DEF rest
<1> QED BY <1>1, <1>4

\* Where the requests lie in the stream of the peer, for every input: they follow
\* from what FlattenSeq computes.
LEMMA StreamLayout ==
  ASSUME NEW in \in Inputs
  PROVE  /\ in \in Seq(Request) /\ Stream(in) \in Seq(Byte)
         /\ StreamLen(in, 0) = 0 /\ StreamLen(in, Len(in)) = Len(Stream(in))
         /\ \A m \in 1..Len(in) :
              /\ StreamLen(in, m - 1) \in Nat /\ StreamLen(in, m) <= Len(Stream(in))
              /\ StreamLen(in, m) = StreamLen(in, m - 1) + HeaderLen + in[m].len
              /\ \A i \in 1..(HeaderLen + in[m].len) :
                   Stream(in)[StreamLen(in, m - 1) + i] = <<m, i>>
<1> DEFINE ss == [m \in 1..Len(in) |-> NetStr(m, in[m].len)]
<1>1. /\ in \in Seq(Request) /\ Len(in) \in Nat
      /\ \A m \in 1..Len(in) : in[m] \in Request /\ in[m].len \in Nat
  <2>1. in \in Seq(Request)
    BY InputAssumption
  <2>2. Len(in) \in Nat /\ \A m \in 1..Len(in) : in[m] \in Request
    BY <2>1, LenProperties, ElementOfSeq
  <2> QED BY <2>1, <2>2 DEF Request
<1>2. ASSUME NEW m \in 1..Len(in)
      PROVE  /\ NetStr(m, in[m].len) \in Seq(Byte)
             /\ Len(NetStr(m, in[m].len)) = HeaderLen + in[m].len
             /\ \A i \in 1..(HeaderLen + in[m].len) : NetStr(m, in[m].len)[i] = <<m, i>>
  <2>1. m \in Nat /\ in[m].len \in Nat
    BY <1>1
  <2> QED BY <2>1, MessageType
<1>3. ss \in Seq(Seq(Byte)) /\ Len(ss) = Len(in) /\ \A m \in 1..Len(in) : ss[m] = NetStr(m, in[m].len)
  BY <1>1, <1>2
<1>4. Stream(in) = FlattenSeq(ss)
  BY DEF Stream
<1>5. ASSUME NEW k \in 0..Len(in) PROVE StreamLen(in, k) = Offset(ss, k)
  <2> DEFINE pre == SubSeq(in, 1, k)
             tt == [m \in 1..Len(pre) |-> NetStr(m, pre[m].len)]
  <2>1. Len(pre) = k /\ \A m \in 1..k : pre[m] = in[m]
    BY <1>1
  <2>2. tt = [m \in 1..k |-> NetStr(m, in[m].len)]
    BY <2>1
  <2>3. SubSeq(ss, 1, k) = [m \in 1..k |-> NetStr(m, in[m].len)]
    <3>1. \A m \in 1..k : ss[m] = NetStr(m, in[m].len) /\ ss[m] \in Seq(Byte)
      BY <1>1, <1>2, <1>3
    <3> HIDE DEF ss
    <3>2. SubSeq(ss, 1, k) = [m \in 1..k |-> ss[m]]
      BY <1>1, <1>3
    <3> QED BY <3>1, <3>2
  <2> QED BY <2>2, <2>3 DEF StreamLen, Stream, Offset
<1>6. \A m \in 1..Len(in) : Len(ss[m]) = HeaderLen + in[m].len
                            /\ \A i \in 1..(HeaderLen + in[m].len) : ss[m][i] = <<m, i>>
  BY <1>2, <1>3
<1> HIDE DEF ss
<1>7. /\ Stream(in) \in Seq(Byte)
      /\ Offset(ss, 0) = 0 /\ Offset(ss, Len(in)) = Len(Stream(in))
      /\ \A k \in 0..Len(in) : Offset(ss, k) \in 0..Len(Stream(in))
      /\ \A k \in 1..Len(in) :
           /\ Offset(ss, k) = Offset(ss, k - 1) + Len(ss[k])
           /\ \A i \in 1..Len(ss[k]) : Stream(in)[Offset(ss, k - 1) + i] = ss[k][i]
  <2>1. /\ FlattenSeq(ss) \in Seq(Byte)
        /\ Offset(ss, 0) = 0 /\ Offset(ss, Len(ss)) = Len(FlattenSeq(ss))
        /\ \A k \in 0..Len(ss) : Offset(ss, k) \in 0..Len(FlattenSeq(ss))
        /\ \A k \in 1..Len(ss) :
             /\ Offset(ss, k) = Offset(ss, k - 1) + Len(ss[k])
             /\ \A i \in 1..Len(ss[k]) : FlattenSeq(ss)[Offset(ss, k - 1) + i] = ss[k][i]
    BY <1>3, FlattenParts
  <2>2. Len(ss) = Len(in) /\ FlattenSeq(ss) = Stream(in)
    BY <1>3, <1>4
  <2> QED BY ONLY <2>1, <2>2
<1>8. Len(Stream(in)) \in Nat
  BY <1>7, LenProperties
<1>9. ASSUME NEW m \in 1..Len(in)
      PROVE  /\ StreamLen(in, m - 1) \in Nat /\ StreamLen(in, m) <= Len(Stream(in))
             /\ StreamLen(in, m) = StreamLen(in, m - 1) + HeaderLen + in[m].len
             /\ \A i \in 1..(HeaderLen + in[m].len) :
                  Stream(in)[StreamLen(in, m - 1) + i] = <<m, i>>
  <2>1. m - 1 \in 0..Len(in) /\ m \in 0..Len(in)
    BY <1>1
  <2>2. StreamLen(in, m - 1) = Offset(ss, m - 1) /\ StreamLen(in, m) = Offset(ss, m)
    BY <1>5, <2>1
  <2>3. Offset(ss, m - 1) \in Nat /\ Offset(ss, m) <= Len(Stream(in))
    BY <1>7, <1>8, <2>1
  <2>4. Offset(ss, m) = Offset(ss, m - 1) + (HeaderLen + in[m].len)
    BY <1>6, <1>7
  <2>5. \A i \in 1..(HeaderLen + in[m].len) : Stream(in)[Offset(ss, m - 1) + i] = <<m, i>>
    BY <1>6, <1>7
  <2> QED BY <1>1, <2>2, <2>3, <2>4, <2>5, HeaderLenAssumption
<1>10. 0 \in 0..Len(in) /\ Len(in) \in 0..Len(in)
  BY <1>1
<1>11. StreamLen(in, 0) = 0 /\ StreamLen(in, Len(in)) = Len(Stream(in))
  BY <1>5, <1>7, <1>10
<1> QED BY <1>1, <1>7, <1>9, <1>11

\* append_internal of a completed read appends the next bytes of the stream.
LEMMA ReceivedFacts ==
  ASSUME RecvTypeOK, ReadBounds, read_op.st = "ok"
  PROVE  /\ Received \in Seq(Byte)
         /\ Len(Received) = Len(recv_buffer) + read_op.n
         /\ \A i \in 1..Len(recv_buffer) : Received[i] = recv_buffer[i]
         /\ \A i \in 1..read_op.n : Received[Len(recv_buffer) + i] = Stream(input)[rcvd + i]
<1> DEFINE new == SubSeq(Stream(input), rcvd + 1, rcvd + read_op.n)
<1>1. Stream(input) \in Seq(Byte) /\ read_op.n \in Nat /\ rcvd \in Nat
  BY StreamLayout, ConnAssumption DEF RecvTypeOK, ReadOp
<1>2. new \in Seq(Byte) /\ Len(new) = read_op.n
      /\ \A i \in 1..read_op.n : new[i] = Stream(input)[rcvd + i]
  BY <1>1, SubSeqProperties DEF ReadBounds
<1>3. recv_buffer \in Seq(Byte)
  BY DEF RecvTypeOK
<1> HIDE DEF new
<1>4. Received = recv_buffer \o new
  BY DEF Received, new
<1> QED BY <1>1, <1>2, <1>3, <1>4

\* Types of the stream and of the places of the requests in it.
LEMMA StreamFacts ==
  ASSUME RecvTypeOK
  PROVE  /\ input \in Seq(Request) /\ Stream(input) \in Seq(Byte)
         /\ Len(Stream(input)) \in Nat /\ Len(input) \in Nat
         /\ \A m \in 1..Len(input) : input[m] \in Request /\ input[m].len \in Nat
         /\ \A m \in 0..Len(input) : StreamLen(input, m) \in Nat
<1>1. input \in Seq(Request) /\ Stream(input) \in Seq(Byte)
  BY StreamLayout DEF RecvTypeOK
<1>2. \A m \in 1..Len(input) : input[m] \in Request
  BY <1>1, ElementOfSeq
<1>3. \A m \in 1..Len(input) : input[m].len \in Nat
  BY <1>2 DEF Request
<1>4. \A m \in 0..Len(input) : StreamLen(input, m) \in Nat
  <2> TAKE m \in 0..Len(input)
  <2>1. CASE m = 0
    BY <2>1, StreamLayout DEF RecvTypeOK
  <2>2. CASE m # 0
    <3>1. m \in 1..Len(input)
      BY <1>1, <2>2
    <3>2. StreamLen(input, m - 1) \in Nat
          /\ StreamLen(input, m) = StreamLen(input, m - 1) + HeaderLen + input[m].len
      BY <3>1, StreamLayout DEF RecvTypeOK
    <3> QED BY <1>3, <3>1, <3>2, HeaderLenAssumption
  <2> QED BY <2>1, <2>2
<1> QED BY <1>1, <1>2, <1>3, <1>4, LenProperties

\* parse_header yields a header whatever bytes it is given.
LEMMA DecodeType ==
  ASSUME RecvTypeOK, NEW hs
  PROVE  Decode(hs) \in [magic : BOOLEAN, len : Nat]
<1>1. \A m \in 1..Len(input) : input[m] \in Request
  BY StreamFacts
<1>2. \A m \in 1..Len(input) : input[m].magic \in BOOLEAN /\ input[m].len \in Nat
  BY <1>1, Zenon DEF Request
<1>3. CASE hs[1][1] \in 1..Len(input) /\ hs = NetStr(hs[1][1], 0)
  <2>1. Decode(hs) = [magic |-> input[hs[1][1]].magic, len |-> input[hs[1][1]].len]
    BY <1>3 DEF Decode
  <2> QED BY <1>2, <1>3, <2>1
<1>4. CASE ~(hs[1][1] \in 1..Len(input) /\ hs = NetStr(hs[1][1], 0))
  <2>1. Decode(hs) = NoHeader
    BY <1>4 DEF Decode
  <2> QED BY <2>1 DEF NoHeader
<1> QED BY <1>3, <1>4
-----------------------------------------------------------------------------
\* start preserves ControlInv: start() begins the read chain of a connection nobody else knows yet.
LEMMA Control_start ==
  ASSUME ControlInv, start
  PROVE  ControlInv'
<1> USE ConnAssumption DEF ControlInv, ControlTypeOK, Goto, Threads
<1> USE DEF start, envVars, connVars, timerVars, recvVars, rpcVars, sendVars
<1>1. ControlTypeOK'
  OBVIOUS
<1>2. RecvTypeOK'
  BY DEF RecvTypeOK
<1>3. OwnPoints' /\ Fresh'
  BY DEF OwnPoints, Fresh, OneReadChain, InReadChain
<1>4. SendStatusTrue' /\ NoLostWakeup'
  BY DEF SendStatusTrue, NoLostWakeup, Fresh
<1>5. AbortedIsGivenUp'
  BY DEF AbortedIsGivenUp, Fresh
<1>6. ReadOpShape' /\ OneReadChain'
  BY DEF ReadOpShape, OneReadChain, InReadChain, GivenUpIsClosed,
         AbortedIsGivenUp
<1>7. ReadBounds'
  BY DEF ReadBounds, RecvTypeOK
<1>8. GivenUpIsClosed'
  BY DEF GivenUpIsClosed, Fresh, OwnPoints
<1> QED BY <1>1, <1>2, <1>3, <1>4, <1>5, <1>6, <1>7, <1>8

\* do_read preserves ControlInv: do_read tests, parses a buffered header, or goes on to async_read.
LEMMA Control_do_read ==
  ASSUME ControlInv, do_read
  PROVE  ControlInv'
<1> USE ConnAssumption DEF ControlInv, ControlTypeOK, Goto, Threads
<1> USE DEF do_read, Usable, ParseHeader, envVars, connVars, timerVars,
            recvVars, rpcVars, sendVars
<1>a. recv_buffer \in Seq(Byte) /\ HeaderLen \in Nat /\ recv_header.len \in Nat
  BY HeaderLenAssumption DEF RecvTypeOK
<1>1. ControlTypeOK'
  OBVIOUS
<1>2. RecvTypeOK'
  BY <1>a, BufferFacts, DecodeType DEF RecvTypeOK
<1>3. OwnPoints' /\ Fresh'
  BY DEF OwnPoints, Fresh, OneReadChain, InReadChain
<1>4. SendStatusTrue' /\ NoLostWakeup'
  BY DEF SendStatusTrue, NoLostWakeup, GivenUpIsClosed
<1>5. AbortedIsGivenUp'
  BY DEF AbortedIsGivenUp, Fresh
<1>6. ReadOpShape' /\ OneReadChain'
  BY DEF ReadOpShape, OneReadChain, InReadChain, GivenUpIsClosed,
         AbortedIsGivenUp
<1>7. ReadBounds'
  BY DEF ReadBounds, RecvTypeOK
<1>8. GivenUpIsClosed'
  BY DEF GivenUpIsClosed, Fresh, OwnPoints
<1> QED BY <1>1, <1>2, <1>3, <1>4, <1>5, <1>6, <1>7, <1>8

\* do_read_msg preserves ControlInv: do_read_msg tests, delivers a buffered body, or goes on to async_read.
LEMMA Control_do_read_msg ==
  ASSUME ControlInv, do_read_msg
  PROVE  ControlInv'
<1> USE ConnAssumption DEF ControlInv, ControlTypeOK, Goto, Threads
<1> USE DEF do_read_msg, Usable, ParseMsgBody, envVars, connVars, timerVars,
            recvVars, rpcVars, sendVars
<1>a. recv_buffer \in Seq(Byte) /\ HeaderLen \in Nat /\ recv_header.len \in Nat
  BY HeaderLenAssumption DEF RecvTypeOK
<1>1. ControlTypeOK'
  OBVIOUS
<1>2. RecvTypeOK'
  BY <1>a, BufferFacts DEF RecvTypeOK
<1>3. OwnPoints' /\ Fresh'
  BY DEF OwnPoints, Fresh, OneReadChain, InReadChain
<1>4. SendStatusTrue' /\ NoLostWakeup'
  BY DEF SendStatusTrue, NoLostWakeup, GivenUpIsClosed
<1>5. AbortedIsGivenUp'
  BY DEF AbortedIsGivenUp, Fresh
<1>6. ReadOpShape' /\ OneReadChain'
  BY DEF ReadOpShape, OneReadChain, InReadChain, GivenUpIsClosed,
         AbortedIsGivenUp
<1>7. ReadBounds'
  BY DEF ReadBounds, RecvTypeOK
<1>8. GivenUpIsClosed'
  BY DEF GivenUpIsClosed, Fresh, OwnPoints
<1> QED BY <1>1, <1>2, <1>3, <1>4, <1>5, <1>6, <1>7, <1>8

\* ArmHead preserves ControlInv: do_read's async_read, on a socket that may have been closed meanwhile.
LEMMA Control_ArmHead ==
  ASSUME ControlInv, ArmHead
  PROVE  ControlInv'
<1> USE ConnAssumption DEF ControlInv, ControlTypeOK, Goto, Threads
<1> USE DEF ArmHead, StartRead, SetOpsTimer, envVars, connVars, timerVars,
            recvVars, rpcVars, sendVars
<1>1. ControlTypeOK'
  OBVIOUS
<1>2. RecvTypeOK'
  BY HeaderLenAssumption DEF RecvTypeOK, ReadBounds, ReadOp
<1>3. OwnPoints' /\ Fresh'
  BY DEF OwnPoints, Fresh, OneReadChain, InReadChain
<1>4. SendStatusTrue' /\ NoLostWakeup'
  BY DEF SendStatusTrue, NoLostWakeup, GivenUpIsClosed
<1>5. AbortedIsGivenUp'
  BY DEF AbortedIsGivenUp, Fresh
<1>6. ReadOpShape' /\ OneReadChain'
  BY DEF ReadOpShape, OneReadChain, InReadChain, GivenUpIsClosed,
         AbortedIsGivenUp
<1>7. ReadBounds'
  BY DEF ReadBounds, RecvTypeOK
<1>8. GivenUpIsClosed'
  BY DEF GivenUpIsClosed, Fresh, OwnPoints
<1> QED BY <1>1, <1>2, <1>3, <1>4, <1>5, <1>6, <1>7, <1>8

\* ArmBody preserves ControlInv: do_read_msg's async_read, of at most a block.
LEMMA Control_ArmBody ==
  ASSUME ControlInv, ArmBody
  PROVE  ControlInv'
<1> USE ConnAssumption DEF ControlInv, ControlTypeOK, Goto, Threads
<1> USE DEF ArmBody, StartRead, SetOpsTimer, Smaller, envVars, connVars,
            timerVars, recvVars, rpcVars, sendVars
<1>1. ControlTypeOK'
  OBVIOUS
<1>2. RecvTypeOK'
  <2>1. Smaller(recv_header.len - Len(recv_buffer), BlockLen) \in 0..BlockLen
    BY DEF RecvTypeOK, ReadBounds
  <2> QED BY <2>1 DEF RecvTypeOK, ReadOp
<1>3. OwnPoints' /\ Fresh'
  BY DEF OwnPoints, Fresh, OneReadChain, InReadChain
<1>4. SendStatusTrue' /\ NoLostWakeup'
  BY DEF SendStatusTrue, NoLostWakeup, GivenUpIsClosed
<1>5. AbortedIsGivenUp'
  BY DEF AbortedIsGivenUp, Fresh
<1>6. ReadOpShape' /\ OneReadChain'
  BY DEF ReadOpShape, OneReadChain, InReadChain, GivenUpIsClosed,
         AbortedIsGivenUp
<1>7. ReadBounds'
  BY DEF ReadBounds, RecvTypeOK
<1>8. GivenUpIsClosed'
  BY DEF GivenUpIsClosed, Fresh, OwnPoints
<1> QED BY <1>1, <1>2, <1>3, <1>4, <1>5, <1>6, <1>7, <1>8

\* ReadHandlerEc preserves ControlInv: a read that failed: aborted only on a connection already given up.
LEMMA Control_ReadHandlerEc ==
  ASSUME ControlInv, ReadHandlerEc
  PROVE  ControlInv'
<1> USE ConnAssumption DEF ControlInv, ControlTypeOK, Goto, Threads
<1> USE DEF ReadHandlerEc, handle_socket_ec, ops_cancel, NoRead, envVars,
            connVars, timerVars, recvVars, rpcVars, sendVars
<1>a. NoRead \in ReadOp /\ NoRead.kind = "none" /\ NoRead.st = "none"
  BY DEF ReadOp, NoRead
<1>b. AbortOps(NoRead, write_done) =>
        /\ write_ops' = <<>> /\ write_done' \in Seq(WriteEc)
        /\ read_op' \in ReadOp /\ read_op'.kind = "none" /\ read_op'.st = "none"
  BY <1>a, AbortFacts
<1>1. ControlTypeOK'
  <2>1. \/ AbortOps(NoRead, write_done)
        \/ write_ops' = write_ops /\ write_done' = write_done
    OBVIOUS
  <2>2. write_ops' \in Seq(WriteOp) /\ write_done' \in Seq(WriteEc)
    <3>1. <<>> \in Seq(WriteOp) /\ write_ops \in Seq(WriteOp) /\ write_done \in Seq(WriteEc)
      BY EmptySeq
    <3> QED BY ONLY <1>a, <1>b, <2>1, <3>1
  <2>3. conn_stat' \in {"kPending", "kWorking", "kError", "kClosed"}
        /\ open' \in BOOLEAN /\ was_cancelled' \in BOOLEAN
    OBVIOUS
  <2> QED BY <2>2, <2>3
<1>2. RecvTypeOK'
  BY <1>a, <1>b DEF RecvTypeOK
<1>3. OwnPoints' /\ Fresh'
  BY <1>a, <1>b DEF OwnPoints, Fresh, OneReadChain, InReadChain
<1>4. SendStatusTrue' /\ NoLostWakeup'
  BY <1>a, <1>b DEF SendStatusTrue, NoLostWakeup, GivenUpIsClosed
<1>5. AbortedIsGivenUp'
  BY <1>a, <1>b DEF AbortedIsGivenUp, Fresh
<1>6. ReadOpShape' /\ OneReadChain'
  BY <1>a, <1>b DEF ReadOpShape, OneReadChain, InReadChain, GivenUpIsClosed,
                    AbortedIsGivenUp
<1>7. ReadBounds'
  BY <1>a, <1>b DEF ReadBounds, RecvTypeOK
<1>8. GivenUpIsClosed'
  BY <1>a, <1>b DEF GivenUpIsClosed, Fresh, OwnPoints
<1> QED BY <1>1, <1>2, <1>3, <1>4, <1>5, <1>6, <1>7, <1>8

\* read_handler preserves ControlInv: read_handler takes the bytes of a header.
LEMMA Control_read_handler ==
  ASSUME ControlInv, read_handler
  PROVE  ControlInv'
<1> USE ConnAssumption DEF ControlInv, ControlTypeOK, Goto, Threads
<1> USE DEF read_handler, ParseHeader, NoRead, envVars, connVars, timerVars,
            recvVars, rpcVars, sendVars
<1>a. /\ Received \in Seq(Byte) /\ HeaderLen \in Nat /\ recv_header.len \in Nat
      /\ rcvd + read_op.n \in 0..Len(Stream(input))
  <2>1. Received \in Seq(Byte)
    BY ReceivedFacts
  <2>2. HeaderLen \in Nat /\ recv_header.len \in Nat
    BY HeaderLenAssumption DEF RecvTypeOK
  <2>3. /\ rcvd \in Nat /\ read_op.n \in Nat /\ Len(Stream(input)) \in Nat
        /\ rcvd + read_op.n <= Len(Stream(input))
    <3>1. rcvd \in Nat /\ read_op.n \in Nat
      BY StreamFacts DEF RecvTypeOK, ReadOp
    <3>2. Len(Stream(input)) \in Nat
      BY StreamFacts
    <3>3. rcvd + read_op.n <= Len(Stream(input))
      BY DEF ReadBounds
    <3> QED BY <3>1, <3>2, <3>3
  <2> QED BY ONLY <2>1, <2>2, <2>3
<1>b. NoRead \in ReadOp
  BY DEF ReadOp, NoRead
<1>1. ControlTypeOK'
  OBVIOUS
<1>2. RecvTypeOK'
  <2>1. rcvd' \in 0..Len(Stream(input)) /\ read_op' \in ReadOp
    BY <1>a, <1>b
  <2>2. recv_buffer' \in Seq(Byte)
    <3>1. recv_buffer' = Received \/ recv_buffer' = FrontErase(Received, HeaderLen)
      OBVIOUS
    <3>2. FrontErase(Received, HeaderLen) \in Seq(Byte)
      BY ONLY <1>a, BufferFacts
    <3> QED BY ONLY <1>a, <3>1, <3>2
  <2>3. recv_header' \in [magic : BOOLEAN, len : Nat]
    BY DecodeType DEF RecvTypeOK
  <2> QED BY <2>1, <2>2, <2>3 DEF RecvTypeOK
<1>3. OwnPoints' /\ Fresh'
  BY DEF OwnPoints, Fresh, OneReadChain, InReadChain
<1>4. SendStatusTrue' /\ NoLostWakeup'
  BY DEF SendStatusTrue, NoLostWakeup, GivenUpIsClosed
<1>5. AbortedIsGivenUp'
  BY DEF AbortedIsGivenUp, Fresh
<1>6. ReadOpShape' /\ OneReadChain'
  BY DEF ReadOpShape, OneReadChain, InReadChain, GivenUpIsClosed,
         AbortedIsGivenUp
<1>7. ReadBounds'
  BY DEF ReadBounds, RecvTypeOK
<1>8. GivenUpIsClosed'
  BY DEF GivenUpIsClosed, Fresh, OwnPoints
<1> QED BY <1>1, <1>2, <1>3, <1>4, <1>5, <1>6, <1>7, <1>8

\* read_msg_handler preserves ControlInv: read_msg_handler takes the bytes of a body.
LEMMA Control_read_msg_handler ==
  ASSUME ControlInv, read_msg_handler
  PROVE  ControlInv'
<1> USE ConnAssumption DEF ControlInv, ControlTypeOK, Goto, Threads
<1> USE DEF read_msg_handler, ParseMsgBody, NoRead, envVars, connVars,
            timerVars, recvVars, rpcVars, sendVars
<1>a. /\ Received \in Seq(Byte) /\ HeaderLen \in Nat /\ recv_header.len \in Nat
      /\ rcvd + read_op.n \in 0..Len(Stream(input))
  <2>1. Received \in Seq(Byte)
    BY ReceivedFacts
  <2>2. HeaderLen \in Nat /\ recv_header.len \in Nat
    BY HeaderLenAssumption DEF RecvTypeOK
  <2>3. /\ rcvd \in Nat /\ read_op.n \in Nat /\ Len(Stream(input)) \in Nat
        /\ rcvd + read_op.n <= Len(Stream(input))
    <3>1. rcvd \in Nat /\ read_op.n \in Nat
      BY StreamFacts DEF RecvTypeOK, ReadOp
    <3>2. Len(Stream(input)) \in Nat
      BY StreamFacts
    <3>3. rcvd + read_op.n <= Len(Stream(input))
      BY DEF ReadBounds
    <3> QED BY <3>1, <3>2, <3>3
  <2> QED BY ONLY <2>1, <2>2, <2>3
<1>b. NoRead \in ReadOp
  BY DEF ReadOp, NoRead
<1>1. ControlTypeOK'
  OBVIOUS
<1>2. RecvTypeOK'
  <2>1. rcvd' \in 0..Len(Stream(input)) /\ read_op' \in ReadOp
    BY <1>a, <1>b
  <2>2. recv_buffer' \in Seq(Byte)
    BY <1>a, BufferFacts
  <2> QED BY <2>1, <2>2 DEF RecvTypeOK
<1>3. OwnPoints' /\ Fresh'
  BY DEF OwnPoints, Fresh, OneReadChain, InReadChain
<1>4. SendStatusTrue' /\ NoLostWakeup'
  BY DEF SendStatusTrue, NoLostWakeup, GivenUpIsClosed
<1>5. AbortedIsGivenUp'
  BY DEF AbortedIsGivenUp, Fresh
<1>6. ReadOpShape' /\ OneReadChain'
  BY DEF ReadOpShape, OneReadChain, InReadChain, GivenUpIsClosed,
         AbortedIsGivenUp
<1>7. ReadBounds'
  BY DEF ReadBounds, RecvTypeOK
<1>8. GivenUpIsClosed'
  BY DEF GivenUpIsClosed, Fresh, OwnPoints
<1> QED BY <1>1, <1>2, <1>3, <1>4, <1>5, <1>6, <1>7, <1>8

\* Dispatch preserves ControlInv: a request is queued, or rejected from the strand, which is then in do_write.
LEMMA Control_Dispatch ==
  ASSUME ControlInv, Dispatch
  PROVE  ControlInv'
<1> USE ConnAssumption DEF ControlInv, ControlTypeOK, Goto, Threads
<1> USE DEF Dispatch, SendMessage, envVars, connVars, timerVars, recvVars,
            rpcVars, sendVars
<1>1. ControlTypeOK'
  OBVIOUS
<1>2. RecvTypeOK'
  BY DEF RecvTypeOK
<1>3. OwnPoints' /\ Fresh'
  BY DEF OwnPoints, Fresh, OneReadChain, InReadChain
<1>4. SendStatusTrue' /\ NoLostWakeup'
  BY DEF SendStatusTrue, NoLostWakeup, GivenUpIsClosed
<1>5. AbortedIsGivenUp'
  BY DEF AbortedIsGivenUp, Fresh
<1>6. ReadOpShape' /\ OneReadChain'
  BY DEF ReadOpShape, OneReadChain, InReadChain, GivenUpIsClosed,
         AbortedIsGivenUp
<1>7. ReadBounds'
  BY DEF ReadBounds, RecvTypeOK
<1>8. GivenUpIsClosed'
  BY DEF GivenUpIsClosed, Fresh, OwnPoints
<1> QED BY <1>1, <1>2, <1>3, <1>4, <1>5, <1>6, <1>7, <1>8

\* write_handler preserves ControlInv: write_handler resets send_status_ and enters do_write.
LEMMA Control_write_handler ==
  ASSUME ControlInv, write_handler
  PROVE  ControlInv'
<1> USE ConnAssumption DEF ControlInv, ControlTypeOK, Goto, Threads
<1> USE DEF write_handler, envVars, connVars, timerVars, recvVars, rpcVars,
            sendVars
<1>1. ControlTypeOK'
  OBVIOUS
<1>2. RecvTypeOK'
  BY DEF RecvTypeOK
<1>3. OwnPoints' /\ Fresh'
  BY DEF OwnPoints, Fresh, OneReadChain, InReadChain
<1>4. SendStatusTrue' /\ NoLostWakeup'
  BY DEF SendStatusTrue, NoLostWakeup, GivenUpIsClosed
<1>5. AbortedIsGivenUp'
  BY DEF AbortedIsGivenUp, Fresh
<1>6. ReadOpShape' /\ OneReadChain'
  BY DEF ReadOpShape, OneReadChain, InReadChain, GivenUpIsClosed,
         AbortedIsGivenUp
<1>7. ReadBounds'
  BY DEF ReadBounds, RecvTypeOK
<1>8. GivenUpIsClosed'
  BY DEF GivenUpIsClosed, Fresh, OwnPoints
<1> QED BY <1>1, <1>2, <1>3, <1>4, <1>5, <1>6, <1>7, <1>8

\* WriteHandlerEc preserves ControlInv: a write that failed: send_status_ stays kSend on a lost connection.
LEMMA Control_WriteHandlerEc ==
  ASSUME ControlInv, WriteHandlerEc
  PROVE  ControlInv'
<1> USE ConnAssumption DEF ControlInv, ControlTypeOK, Goto, Threads
<1> USE DEF WriteHandlerEc, handle_socket_ec, ops_cancel, envVars, connVars,
            timerVars, recvVars, rpcVars, sendVars
<1>a. Head(write_done) \in WriteEc /\ Tail(write_done) \in Seq(WriteEc)
      /\ \A i \in 1..Len(Tail(write_done)) : Tail(write_done)[i] = write_done[i + 1]
      /\ Len(Tail(write_done)) = Len(write_done) - 1
      /\ Head(write_done) = write_done[1] /\ Len(write_done) \in Nat \ {0}
  BY HeadTailProperties
<1>b. AbortOps(read_op, Tail(write_done)) =>
        /\ write_ops' = <<>> /\ write_done' \in Seq(WriteEc)
        /\ read_op' \in ReadOp /\ read_op'.kind = read_op.kind
        /\ (read_op'.st = "none" <=> read_op.st = "none")
        /\ (read_op'.st = "ok" <=> read_op.st = "ok") /\ read_op'.n = read_op.n
  BY <1>a, AbortFacts DEF RecvTypeOK
<1>1. ControlTypeOK'
  <2>1. \/ AbortOps(read_op, Tail(write_done))
        \/ write_ops' = write_ops /\ write_done' = Tail(write_done)
    OBVIOUS
  <2>2. write_ops' \in Seq(WriteOp) /\ write_done' \in Seq(WriteEc)
    <3>1. <<>> \in Seq(WriteOp) /\ write_ops \in Seq(WriteOp) /\ write_done \in Seq(WriteEc)
      BY EmptySeq
    <3> QED BY ONLY <1>a, <1>b, <2>1, <3>1
  <2>3. conn_stat' \in {"kPending", "kWorking", "kError", "kClosed"}
        /\ open' \in BOOLEAN /\ was_cancelled' \in BOOLEAN
    OBVIOUS
  <2> QED BY <2>2, <2>3
<1>2. RecvTypeOK'
  BY <1>a, <1>b DEF RecvTypeOK
<1>3. OwnPoints' /\ Fresh'
  BY <1>a, <1>b DEF OwnPoints, Fresh, OneReadChain, InReadChain
<1>4. SendStatusTrue' /\ NoLostWakeup'
  <2>1. Head(write_done) = "aborted" => conn_stat # "kWorking"
    BY <1>a DEF AbortedIsGivenUp
  <2> QED BY <1>a, <2>1 DEF SendStatusTrue, NoLostWakeup, WriteEc
<1>5. AbortedIsGivenUp'
  BY <1>a, <1>b DEF AbortedIsGivenUp, Fresh
<1>6. ReadOpShape' /\ OneReadChain'
  BY <1>a, <1>b DEF ReadOpShape, OneReadChain, InReadChain, GivenUpIsClosed,
                    AbortedIsGivenUp
<1>7. ReadBounds'
  BY <1>a, <1>b DEF ReadBounds, RecvTypeOK
<1>8. GivenUpIsClosed'
  BY <1>a, <1>b DEF GivenUpIsClosed, Fresh, OwnPoints
<1> QED BY <1>1, <1>2, <1>3, <1>4, <1>5, <1>6, <1>7, <1>8

\* ReadComplete preserves ControlInv: the kernel completes a read.
LEMMA Control_ReadComplete ==
  ASSUME ControlInv, ReadComplete
  PROVE  ControlInv'
<1> USE ConnAssumption DEF ControlInv, ControlTypeOK, Goto, Threads
<1> USE DEF ReadComplete, envVars, connVars, timerVars, recvVars, rpcVars,
            sendVars
<1>1. ControlTypeOK'
  OBVIOUS
<1>2. RecvTypeOK'
  <2>1. PICK n \in read_op.need..BlockLen :
          read_op' = [read_op EXCEPT !.st = "ok", !.n = n]
    OBVIOUS
  <2>a. read_op \in ReadOp
    BY DEF RecvTypeOK
  <2>b. read_op.need \in Nat
    BY ONLY <2>a, ConnAssumption DEF ReadOp
  <2>2. n \in 0..BlockLen
    BY ONLY <2>1, <2>b, ConnAssumption
  <2>3. read_op' \in ReadOp
    BY ONLY <2>1, <2>2, <2>a DEF ReadOp
  <2> QED BY <2>3 DEF RecvTypeOK
<1>3. OwnPoints' /\ Fresh'
  BY DEF OwnPoints, Fresh, OneReadChain, InReadChain
<1>4. SendStatusTrue' /\ NoLostWakeup'
  BY DEF SendStatusTrue, NoLostWakeup, GivenUpIsClosed
<1>5. AbortedIsGivenUp'
  BY DEF AbortedIsGivenUp, Fresh
<1>6. ReadOpShape' /\ OneReadChain'
  BY DEF ReadOpShape, OneReadChain, InReadChain, GivenUpIsClosed,
         AbortedIsGivenUp
<1>7. ReadBounds'
  <2>1. PICK k \in 1..Len(input), n \in read_op.need..BlockLen :
          /\ rcvd + n <= StreamLen(input, k)
          /\ read_op' = [read_op EXCEPT !.st = "ok", !.n = n]
    OBVIOUS
  <2>2. StreamLen(input, k) <= Len(Stream(input))
    BY StreamLayout DEF RecvTypeOK
  <2>3. /\ Len(Stream(input)) \in Nat /\ StreamLen(input, k) \in Nat
    BY StreamFacts
  <2>a. read_op \in ReadOp /\ rcvd \in 0..Len(Stream(input))
    BY DEF RecvTypeOK
  <2>b. read_op.need \in Nat
    BY ONLY <2>a, ConnAssumption DEF ReadOp
  <2>5. rcvd \in Nat /\ n \in Nat
    BY ONLY <2>3, <2>a, <2>b, <2>1, ConnAssumption
  <2>4. read_op'.n = n
    BY ONLY <2>1, <2>a DEF ReadOp
  <2>6. rcvd + read_op'.n <= Len(Stream(input))
    BY ONLY <2>1, <2>2, <2>3, <2>4, <2>5
  <2>7. pc' = pc /\ rcvd' = rcvd /\ recv_buffer' = recv_buffer
        /\ recv_header' = recv_header /\ input' = input
    OBVIOUS
  <2> QED BY ONLY <2>6, <2>7, ReadBounds DEF ReadBounds
<1>8. GivenUpIsClosed'
  BY DEF GivenUpIsClosed, Fresh, OwnPoints
<1> QED BY <1>1, <1>2, <1>3, <1>4, <1>5, <1>6, <1>7, <1>8

\* ReadFail preserves ControlInv: the peer is gone under a read.
LEMMA Control_ReadFail ==
  ASSUME ControlInv, ReadFail
  PROVE  ControlInv'
<1> USE ConnAssumption DEF ControlInv, ControlTypeOK, Goto, Threads
<1> USE DEF ReadFail, envVars, connVars, timerVars, recvVars, rpcVars, sendVars
<1>1. ControlTypeOK'
  OBVIOUS
<1>2. RecvTypeOK'
  BY DEF RecvTypeOK, ReadOp
<1>3. OwnPoints' /\ Fresh'
  BY DEF OwnPoints, Fresh, OneReadChain, InReadChain
<1>4. SendStatusTrue' /\ NoLostWakeup'
  BY DEF SendStatusTrue, NoLostWakeup, GivenUpIsClosed
<1>5. AbortedIsGivenUp'
  BY DEF AbortedIsGivenUp, Fresh
<1>6. ReadOpShape' /\ OneReadChain'
  BY DEF ReadOpShape, OneReadChain, InReadChain, GivenUpIsClosed,
         AbortedIsGivenUp
<1>7. ReadBounds'
  BY DEF ReadBounds, RecvTypeOK
<1>8. GivenUpIsClosed'
  BY DEF GivenUpIsClosed, Fresh, OwnPoints
<1> QED BY <1>1, <1>2, <1>3, <1>4, <1>5, <1>6, <1>7, <1>8

\* Transmit preserves ControlInv: the kernel takes bytes of a write, which stays queued or completes.
LEMMA Control_Transmit ==
  ASSUME ControlInv, Transmit
  PROVE  ControlInv'
<1> USE ConnAssumption DEF ControlInv, ControlTypeOK, Goto, Threads
<1> USE DEF Transmit, envVars, connVars, timerVars, recvVars, rpcVars, sendVars
<1>b. /\ write_ops' \in Seq(WriteOp) /\ write_done' \in Seq(WriteEc)
      /\ write_ops' # <<>> \/ write_done' # <<>>
      /\ \A i \in 1..Len(write_done') :
           write_done'[i] = "aborted" => i \in 1..Len(write_done) /\ write_done[i] = "aborted"
  <2>1. PICK k \in 1..(Head(write_ops).len - Head(write_ops).pos) :
          \/ /\ write_ops' = Tail(write_ops)
             /\ write_done' = Append(write_done, "ok")
          \/ /\ write_ops' = Append(Tail(write_ops),
                                    [Head(write_ops) EXCEPT !.pos = @ + k])
             /\ write_done' = write_done
    OBVIOUS
  <2>2. write_ops \in Seq(WriteOp) /\ write_ops # <<>> /\ write_done \in Seq(WriteEc)
    OBVIOUS
  <2>3. CASE write_ops' = Tail(write_ops) /\ write_done' = Append(write_done, "ok")
    <3>1. "ok" \in WriteEc
      BY DEF WriteEc
    <3> QED BY ONLY <2>2, <2>3, <3>1, AddEc, SendPart
  <2>4. CASE /\ write_ops' = Append(Tail(write_ops), [Head(write_ops) EXCEPT !.pos = @ + k])
             /\ write_done' = write_done
    <3>1. write_ops' \in Seq(WriteOp) /\ write_ops' # <<>>
      BY ONLY <2>2, <2>4, SendPart
    <3> QED BY <2>2, <2>4, <3>1
  <2> QED BY <2>1, <2>3, <2>4
<1>1. ControlTypeOK'
  BY <1>b
<1>2. RecvTypeOK'
  BY <1>b DEF RecvTypeOK
<1>3. OwnPoints' /\ Fresh'
  BY <1>b DEF OwnPoints, Fresh, OneReadChain, InReadChain
<1>4. SendStatusTrue' /\ NoLostWakeup'
  BY <1>b DEF SendStatusTrue, NoLostWakeup, GivenUpIsClosed
<1>5. AbortedIsGivenUp'
  BY <1>b DEF AbortedIsGivenUp, Fresh
<1>6. ReadOpShape' /\ OneReadChain'
  BY <1>b DEF ReadOpShape, OneReadChain, InReadChain, GivenUpIsClosed,
              AbortedIsGivenUp
<1>7. ReadBounds'
  BY <1>b DEF ReadBounds, RecvTypeOK
<1>8. GivenUpIsClosed'
  BY <1>b DEF GivenUpIsClosed, Fresh, OwnPoints
<1> QED BY <1>1, <1>2, <1>3, <1>4, <1>5, <1>6, <1>7, <1>8

\* WriteFail preserves ControlInv: the peer is gone under a write.
LEMMA Control_WriteFail ==
  ASSUME ControlInv, WriteFail
  PROVE  ControlInv'
<1> USE ConnAssumption DEF ControlInv, ControlTypeOK, Goto, Threads
<1> USE DEF WriteFail, envVars, connVars, timerVars, recvVars, rpcVars,
            sendVars
<1>b. /\ write_ops' \in Seq(WriteOp) /\ write_done' \in Seq(WriteEc)
      /\ write_done' # <<>>
      /\ \A i \in 1..Len(write_done') :
           write_done'[i] = "aborted" => i \in 1..Len(write_done) /\ write_done[i] = "aborted"
  BY AddEc, HeadTailProperties DEF WriteEc
<1>1. ControlTypeOK'
  BY <1>b
<1>2. RecvTypeOK'
  BY <1>b DEF RecvTypeOK
<1>3. OwnPoints' /\ Fresh'
  BY <1>b DEF OwnPoints, Fresh, OneReadChain, InReadChain
<1>4. SendStatusTrue' /\ NoLostWakeup'
  BY <1>b DEF SendStatusTrue, NoLostWakeup, GivenUpIsClosed
<1>5. AbortedIsGivenUp'
  BY <1>b DEF AbortedIsGivenUp, Fresh
<1>6. ReadOpShape' /\ OneReadChain'
  BY <1>b DEF ReadOpShape, OneReadChain, InReadChain, GivenUpIsClosed,
              AbortedIsGivenUp
<1>7. ReadBounds'
  BY <1>b DEF ReadBounds, RecvTypeOK
<1>8. GivenUpIsClosed'
  BY <1>b DEF GivenUpIsClosed, Fresh, OwnPoints
<1> QED BY <1>1, <1>2, <1>3, <1>4, <1>5, <1>6, <1>7, <1>8

\* Pop preserves ControlInv: a worker takes a request.
LEMMA Control_Pop ==
  ASSUME ControlInv, NEW w \in Workers, Pop(w)
  PROVE  ControlInv'
<1> USE ConnAssumption DEF ControlInv, ControlTypeOK, Goto, Threads
<1> USE DEF Pop, envVars, connVars, timerVars, recvVars, rpcVars, sendVars
<1>1. ControlTypeOK'
  OBVIOUS
<1>2. RecvTypeOK'
  BY DEF RecvTypeOK
<1>3. OwnPoints' /\ Fresh'
  BY DEF OwnPoints, Fresh, OneReadChain, InReadChain
<1>4. SendStatusTrue' /\ NoLostWakeup'
  BY DEF SendStatusTrue, NoLostWakeup, GivenUpIsClosed
<1>5. AbortedIsGivenUp'
  BY DEF AbortedIsGivenUp, Fresh
<1>6. ReadOpShape' /\ OneReadChain'
  BY DEF ReadOpShape, OneReadChain, InReadChain, GivenUpIsClosed,
         AbortedIsGivenUp
<1>7. ReadBounds'
  BY DEF ReadBounds, RecvTypeOK
<1>8. GivenUpIsClosed'
  BY DEF GivenUpIsClosed, Fresh, OwnPoints
<1> QED BY <1>1, <1>2, <1>3, <1>4, <1>5, <1>6, <1>7, <1>8

\* reply_rpc_message preserves ControlInv: a worker appends a response and is then in do_write.
LEMMA Control_reply_rpc_message ==
  ASSUME ControlInv, NEW w \in Workers, reply_rpc_message(w)
  PROVE  ControlInv'
<1> USE ConnAssumption DEF ControlInv, ControlTypeOK, Goto, Threads
<1> USE DEF reply_rpc_message, SendMessage, envVars, connVars, timerVars,
            recvVars, rpcVars, sendVars
<1>1. ControlTypeOK'
  OBVIOUS
<1>2. RecvTypeOK'
  BY DEF RecvTypeOK
<1>3. OwnPoints' /\ Fresh'
  BY DEF OwnPoints, Fresh, OneReadChain, InReadChain
<1>4. SendStatusTrue' /\ NoLostWakeup'
  BY DEF SendStatusTrue, NoLostWakeup, GivenUpIsClosed
<1>5. AbortedIsGivenUp'
  BY DEF AbortedIsGivenUp, Fresh
<1>6. ReadOpShape' /\ OneReadChain'
  BY DEF ReadOpShape, OneReadChain, InReadChain, GivenUpIsClosed,
         AbortedIsGivenUp
<1>7. ReadBounds'
  BY DEF ReadBounds, RecvTypeOK
<1>8. GivenUpIsClosed'
  BY DEF GivenUpIsClosed, Fresh, OwnPoints
<1> QED BY <1>1, <1>2, <1>3, <1>4, <1>5, <1>6, <1>7, <1>8

\* DoWriteTest preserves ControlInv: do_write gives up only while a write is out or the connection is lost.
LEMMA Control_DoWriteTest ==
  ASSUME ControlInv, NEW t \in Threads, DoWriteTest(t)
  PROVE  ControlInv'
<1> USE ConnAssumption DEF ControlInv, ControlTypeOK, Goto, Threads
<1> USE DEF DoWriteTest, Return, Usable, envVars, connVars, timerVars,
            recvVars, rpcVars, sendVars
<1>1. ControlTypeOK'
  OBVIOUS
<1>2. RecvTypeOK'
  BY DEF RecvTypeOK
<1>3. OwnPoints' /\ Fresh'
  BY DEF OwnPoints, Fresh, OneReadChain, InReadChain
<1>4. SendStatusTrue' /\ NoLostWakeup'
  BY DEF SendStatusTrue, NoLostWakeup, GivenUpIsClosed
<1>5. AbortedIsGivenUp'
  BY DEF AbortedIsGivenUp, Fresh
<1>6. ReadOpShape' /\ OneReadChain'
  BY DEF ReadOpShape, OneReadChain, InReadChain, GivenUpIsClosed,
         AbortedIsGivenUp
<1>7. ReadBounds'
  BY DEF ReadBounds, RecvTypeOK
<1>8. GivenUpIsClosed'
  BY DEF GivenUpIsClosed, Fresh, OwnPoints
<1> QED BY <1>1, <1>2, <1>3, <1>4, <1>5, <1>6, <1>7, <1>8

\* DoWriteLocked preserves ControlInv: do_write under the lock: the buffer is empty, or a write goes out.
LEMMA Control_DoWriteLocked ==
  ASSUME ControlInv, NEW t \in Threads, DoWriteLocked(t)
  PROVE  ControlInv'
<1> USE ConnAssumption DEF ControlInv, ControlTypeOK, Goto, Threads
<1> USE DEF DoWriteLocked, Return, SetOpsTimer, Smaller, envVars, connVars,
            timerVars, recvVars, rpcVars, sendVars
<1>b. /\ write_ops' \in Seq(WriteOp) /\ write_done' \in Seq(WriteEc)
      /\ send_buffer # <<>> => write_ops' # <<>> \/ write_done' # <<>>
      /\ \A i \in 1..Len(write_done') :
           write_done'[i] = "aborted" => i \in 1..Len(write_done) /\ write_done[i] = "aborted"
  <2>1. CASE send_buffer = <<>>
    BY <2>1
  <2>2. CASE send_buffer # <<>>
    <3> DEFINE to_write == Smaller(Len(send_buffer), BlockLen)
    <3>1. \/ /\ write_ops' = Append(write_ops, [len |-> to_write, pos |-> 0])
             /\ write_done' = write_done
          \/ /\ write_done' = Append(write_done, "error")
             /\ write_ops' = write_ops
      BY <2>2
    <3>2. to_write \in Nat
      BY DEF Smaller
    <3>3. [len |-> to_write, pos |-> 0] \in WriteOp
      BY <3>2 DEF WriteOp
    <3>4. /\ Append(write_ops, [len |-> to_write, pos |-> 0]) \in Seq(WriteOp)
          /\ Append(write_ops, [len |-> to_write, pos |-> 0]) # <<>>
      BY ONLY <3>3, write_ops \in Seq(WriteOp), AppendProperties
    <3>5. /\ Append(write_done, "error") \in Seq(WriteEc)
          /\ Append(write_done, "error") # <<>>
          /\ \A i \in 1..Len(Append(write_done, "error")) :
               Append(write_done, "error")[i] = "aborted" =>
                 i \in 1..Len(write_done) /\ write_done[i] = "aborted"
      BY AddEc DEF WriteEc
    <3> HIDE DEF to_write
    <3> QED BY <3>1, <3>4, <3>5
  <2> QED BY <2>1, <2>2
<1>1. ControlTypeOK'
  <2>1. /\ ops_timer' \in {"null", "armed", "expired"} /\ assert_ok' \in BOOLEAN
        /\ send_status' \in {"kSend", "kDone"}
    OBVIOUS
  <2>2. pc' \in [Threads -> {"start", "idle", "do_read", "arm_head",
                            "do_read_msg", "arm_body", "dispatch", "reply",
                            "do_write", "write_lock", "close"}]
    OBVIOUS
  <2>3. UNCHANGED <<peer, connVars, expired, ops_timeout, resume>>
    OBVIOUS
  <2> QED BY ONLY <1>b, <2>1, <2>2, <2>3, ControlTypeOK
          DEF ControlTypeOK, connVars
<1>2. RecvTypeOK'
  BY <1>b DEF RecvTypeOK
<1>3. OwnPoints' /\ Fresh'
  BY <1>b DEF OwnPoints, Fresh, OneReadChain, InReadChain
<1>4. SendStatusTrue' /\ NoLostWakeup'
  BY <1>b DEF SendStatusTrue, NoLostWakeup, GivenUpIsClosed
<1>5. AbortedIsGivenUp'
  BY <1>b DEF AbortedIsGivenUp, Fresh
<1>6. ReadOpShape' /\ OneReadChain'
  BY <1>b DEF ReadOpShape, OneReadChain, InReadChain, GivenUpIsClosed,
              AbortedIsGivenUp
<1>7. ReadBounds'
  BY <1>b DEF ReadBounds, RecvTypeOK
<1>8. GivenUpIsClosed'
  BY <1>b DEF GivenUpIsClosed, Fresh, OwnPoints
<1> QED BY <1>1, <1>2, <1>3, <1>4, <1>5, <1>6, <1>7, <1>8

\* sock_shutdown_and_close preserves ControlInv: the socket is closed by whichever thread comes first.
LEMMA Control_sock_shutdown_and_close ==
  ASSUME ControlInv, NEW t \in Threads, sock_shutdown_and_close(t)
  PROVE  ControlInv'
<1> USE ConnAssumption DEF ControlInv, ControlTypeOK, Goto, Threads
<1> USE DEF sock_shutdown_and_close, envVars, connVars, timerVars, recvVars,
            rpcVars, sendVars
<1>b. AbortOps(read_op, write_done) =>
        /\ write_ops' = <<>> /\ write_done' \in Seq(WriteEc)
        /\ read_op' \in ReadOp /\ read_op'.kind = read_op.kind
        /\ (read_op'.st = "none" <=> read_op.st = "none")
        /\ (read_op'.st = "ok" <=> read_op.st = "ok") /\ read_op'.n = read_op.n
  BY AbortFacts DEF RecvTypeOK
<1>1. ControlTypeOK'
  <2>1. write_ops' \in Seq(WriteOp) /\ write_done' \in Seq(WriteEc)
    BY <1>b, EmptySeq
  <2>2. conn_stat' \in {"kPending", "kWorking", "kError", "kClosed"}
        /\ open' \in BOOLEAN /\ was_cancelled' \in BOOLEAN
    OBVIOUS
  <2> QED BY <2>1, <2>2
<1>2. RecvTypeOK'
  BY <1>b DEF RecvTypeOK
<1>3. OwnPoints' /\ Fresh'
  BY <1>b DEF OwnPoints, Fresh, OneReadChain, InReadChain
<1>4. SendStatusTrue' /\ NoLostWakeup'
  BY <1>b DEF SendStatusTrue, NoLostWakeup, GivenUpIsClosed
<1>5. AbortedIsGivenUp'
  BY <1>b DEF AbortedIsGivenUp, Fresh
<1>6. ReadOpShape' /\ OneReadChain'
  BY <1>b DEF ReadOpShape, OneReadChain, InReadChain, GivenUpIsClosed,
              AbortedIsGivenUp
<1>7. ReadBounds'
  BY <1>b DEF ReadBounds, RecvTypeOK
<1>8. GivenUpIsClosed'
  BY <1>b DEF GivenUpIsClosed, Fresh, OwnPoints
<1> QED BY <1>1, <1>2, <1>3, <1>4, <1>5, <1>6, <1>7, <1>8

\* ops_cancel_timeout_call preserves ControlInv: the timer callback cancels, off the strand.
LEMMA Control_ops_cancel_timeout_call ==
  ASSUME ControlInv, ops_cancel_timeout_call
  PROVE  ControlInv'
<1> USE ConnAssumption DEF ControlInv, ControlTypeOK, Goto, Threads
<1> USE DEF ops_cancel_timeout_call, ops_cancel, envVars, connVars, timerVars,
            recvVars, rpcVars, sendVars
<1>b. AbortOps(read_op, write_done) =>
        /\ write_ops' = <<>> /\ write_done' \in Seq(WriteEc)
        /\ read_op' \in ReadOp /\ read_op'.kind = read_op.kind
        /\ (read_op'.st = "none" <=> read_op.st = "none")
        /\ (read_op'.st = "ok" <=> read_op.st = "ok") /\ read_op'.n = read_op.n
  BY AbortFacts DEF RecvTypeOK
<1>1. ControlTypeOK'
  BY <1>b
<1>2. RecvTypeOK'
  BY <1>b DEF RecvTypeOK
<1>3. OwnPoints' /\ Fresh'
  BY <1>b DEF OwnPoints, Fresh, OneReadChain, InReadChain
<1>4. SendStatusTrue' /\ NoLostWakeup'
  BY <1>b DEF SendStatusTrue, NoLostWakeup, GivenUpIsClosed
<1>5. AbortedIsGivenUp'
  BY <1>b DEF AbortedIsGivenUp, Fresh
<1>6. ReadOpShape' /\ OneReadChain'
  BY <1>b DEF ReadOpShape, OneReadChain, InReadChain, GivenUpIsClosed,
              AbortedIsGivenUp
<1>7. ReadBounds'
  BY <1>b DEF ReadBounds, RecvTypeOK
<1>8. GivenUpIsClosed'
  BY <1>b DEF GivenUpIsClosed, Fresh, OwnPoints
<1> QED BY <1>1, <1>2, <1>3, <1>4, <1>5, <1>6, <1>7, <1>8

\* TimerExpire preserves ControlInv: the timer expires.
LEMMA Control_TimerExpire ==
  ASSUME ControlInv, TimerExpire
  PROVE  ControlInv'
<1> USE ConnAssumption DEF ControlInv, ControlTypeOK, Goto, Threads
<1> USE DEF TimerExpire, envVars, connVars, timerVars, recvVars, rpcVars,
            sendVars
<1>1. ControlTypeOK'
  OBVIOUS
<1>2. RecvTypeOK'
  BY DEF RecvTypeOK
<1>3. OwnPoints' /\ Fresh'
  BY DEF OwnPoints, Fresh, OneReadChain, InReadChain
<1>4. SendStatusTrue' /\ NoLostWakeup'
  BY DEF SendStatusTrue, NoLostWakeup, GivenUpIsClosed
<1>5. AbortedIsGivenUp'
  BY DEF AbortedIsGivenUp, Fresh
<1>6. ReadOpShape' /\ OneReadChain'
  BY DEF ReadOpShape, OneReadChain, InReadChain, GivenUpIsClosed,
         AbortedIsGivenUp
<1>7. ReadBounds'
  BY DEF ReadBounds, RecvTypeOK
<1>8. GivenUpIsClosed'
  BY DEF GivenUpIsClosed, Fresh, OwnPoints
<1> QED BY <1>1, <1>2, <1>3, <1>4, <1>5, <1>6, <1>7, <1>8

\* UpdateTimeOut preserves ControlInv: the configuration changes.
LEMMA Control_UpdateTimeOut ==
  ASSUME ControlInv, UpdateTimeOut
  PROVE  ControlInv'
<1> USE ConnAssumption DEF ControlInv, ControlTypeOK, Goto, Threads
<1> USE DEF UpdateTimeOut, envVars, connVars, timerVars, recvVars, rpcVars,
            sendVars
<1>1. ControlTypeOK'
  OBVIOUS
<1>2. RecvTypeOK'
  BY DEF RecvTypeOK
<1>3. OwnPoints' /\ Fresh'
  BY DEF OwnPoints, Fresh, OneReadChain, InReadChain
<1>4. SendStatusTrue' /\ NoLostWakeup'
  BY DEF SendStatusTrue, NoLostWakeup, GivenUpIsClosed
<1>5. AbortedIsGivenUp'
  BY DEF AbortedIsGivenUp, Fresh
<1>6. ReadOpShape' /\ OneReadChain'
  BY DEF ReadOpShape, OneReadChain, InReadChain, GivenUpIsClosed,
         AbortedIsGivenUp
<1>7. ReadBounds'
  BY DEF ReadBounds, RecvTypeOK
<1>8. GivenUpIsClosed'
  BY DEF GivenUpIsClosed, Fresh, OwnPoints
<1> QED BY <1>1, <1>2, <1>3, <1>4, <1>5, <1>6, <1>7, <1>8

\* PeerDown preserves ControlInv: the peer fails.
LEMMA Control_PeerDown ==
  ASSUME ControlInv, PeerDown
  PROVE  ControlInv'
<1> USE ConnAssumption DEF ControlInv, ControlTypeOK, Goto, Threads
<1> USE DEF PeerDown, envVars, connVars, timerVars, recvVars, rpcVars, sendVars
<1>1. ControlTypeOK'
  OBVIOUS
<1>2. RecvTypeOK'
  BY DEF RecvTypeOK
<1>3. OwnPoints' /\ Fresh'
  BY DEF OwnPoints, Fresh, OneReadChain, InReadChain
<1>4. SendStatusTrue' /\ NoLostWakeup'
  BY DEF SendStatusTrue, NoLostWakeup, GivenUpIsClosed
<1>5. AbortedIsGivenUp'
  BY DEF AbortedIsGivenUp, Fresh
<1>6. ReadOpShape' /\ OneReadChain'
  BY DEF ReadOpShape, OneReadChain, InReadChain, GivenUpIsClosed,
         AbortedIsGivenUp
<1>7. ReadBounds'
  BY DEF ReadBounds, RecvTypeOK
<1>8. GivenUpIsClosed'
  BY DEF GivenUpIsClosed, Fresh, OwnPoints
<1> QED BY <1>1, <1>2, <1>3, <1>4, <1>5, <1>6, <1>7, <1>8
-----------------------------------------------------------------------------
\* Nothing has happened to a new connection.
LEMMA ControlInit == Init => ControlInv
<1> SUFFICES ASSUME Init PROVE ControlInv
  OBVIOUS
<1>1. ControlTypeOK
  BY EmptySeq DEF Init, ControlTypeOK
<1>2. RecvTypeOK
  <2>1. Len(Stream(input)) \in Nat
    BY InputAssumption DEF Init
  <2>2. NoRead \in ReadOp
    BY ConnAssumption DEF ReadOp, NoRead
  <2> QED BY <2>1, <2>2 DEF Init, RecvTypeOK, NoHeader
<1>3. OwnPoints /\ Fresh /\ SendStatusTrue /\ NoLostWakeup
  BY ConnAssumption DEF Init, Threads, OwnPoints, Fresh, SendStatusTrue, NoLostWakeup
<1>4. AbortedIsGivenUp /\ ReadOpShape
  BY DEF Init, AbortedIsGivenUp, ReadOpShape, NoRead
<1>5. ReadBounds /\ OneReadChain /\ GivenUpIsClosed
  BY DEF Init, Threads, ReadBounds, OneReadChain, InReadChain, GivenUpIsClosed, NoRead
<1> QED BY <1>1, <1>2, <1>3, <1>4, <1>5 DEF ControlInv

\* Every step of every thread, of the network and of the timers preserves
\* ControlInv.
LEMMA ControlStep == ControlInv /\ [Next]_vars => ControlInv'
<1> SUFFICES ASSUME ControlInv, [Next]_vars PROVE ControlInv'
  OBVIOUS
<1>1. CASE Strand
  BY <1>1, Control_start, Control_do_read, Control_do_read_msg,
           Control_ArmHead, Control_ArmBody, Control_ReadHandlerEc,
           Control_read_handler, Control_read_msg_handler, Control_Dispatch,
           Control_write_handler, Control_WriteHandlerEc
     DEF Strand
<1>2. CASE Network
  BY <1>2, Control_ReadComplete, Control_ReadFail, Control_Transmit,
           Control_WriteFail
     DEF Network
<1>3. CASE \E w \in Workers : Worker(w)
  BY <1>3, Control_Pop, Control_reply_rpc_message DEF Worker
<1>4. CASE \E t \in Threads : DoWriteTest(t) \/ DoWriteLocked(t) \/ sock_shutdown_and_close(t)
  BY <1>4, Control_DoWriteTest, Control_DoWriteLocked, Control_sock_shutdown_and_close
<1>5. CASE ops_cancel_timeout_call \/ TimerExpire \/ UpdateTimeOut \/ PeerDown
  BY <1>5, Control_ops_cancel_timeout_call, Control_TimerExpire,
           Control_UpdateTimeOut, Control_PeerDown
<1>6. CASE UNCHANGED vars
  BY <1>6 DEF vars, envVars, connVars, timerVars, recvVars, rpcVars, sendVars,
              ControlInv, ControlTypeOK, RecvTypeOK, OwnPoints, Fresh,
              SendStatusTrue, AbortedIsGivenUp, ReadOpShape, ReadBounds,
              NoLostWakeup, OneReadChain, InReadChain, GivenUpIsClosed
<1> QED BY <1>1, <1>2, <1>3, <1>4, <1>5, <1>6 DEF Next

\* ControlInv holds throughout.
THEOREM ControlSafe == Spec => []ControlInv
<1>1. Init => ControlInv
  BY ControlInit
<1>2. ControlInv /\ [Next]_vars => ControlInv'
  BY ControlStep
<1> QED BY <1>1, <1>2, PTL DEF Spec

\* do_write's comment holds: while a write is out, giving up is safe, because a
\* buffered response always has a write or a thread that will send it.
THEOREM WakeupSafe == Spec => []NoLostWakeup
<1>1. ControlInv => NoLostWakeup
  BY DEF ControlInv
<1> QED BY <1>1, ControlSafe, PTL

\* A working connection listens, with one async_read at a time: read_handler and
\* read_msg_handler never share recv_bound_ with another read.
THEOREM ReadChainSafe == Spec => []OneReadChain
<1>1. ControlInv => OneReadChain
  BY DEF ControlInv
<1> QED BY <1>1, ControlSafe, PTL

\* Strand and timer may both give the connection up, in any interleaving of
\* ops_cancel and sock_shutdown_and_close: its socket gets closed.
THEOREM CloseSafe == Spec => []GivenUpIsClosed
<1>1. ControlInv => GivenUpIsClosed
  BY DEF ControlInv
<1> QED BY <1>1, ControlSafe, PTL
=============================================================================
