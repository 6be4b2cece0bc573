-------------------------- MODULE TcpConnAsyncWire --------------------------
(***************************************************************************)
(* What holds of a server connection under restrictions that rule out the  *)
(* known flaws: without timers and failures of the peer only a bad header  *)
(* closes it; with a peer that waits for its responses, each of one block  *)
(* at most, the responses reach the network whole.                         *)
(***************************************************************************)
EXTENDS TcpConnAsyncFraming

\* The next request has a bad header.
NextIsBad ==
  /\ Len(delivered) < Len(input)
  /\ ~HeaderOK(input[Len(delivered) + 1])

\* The socket is closed, or the strand is about to close it.
Closing == ~open \/ pc["strand"] = "close"

\* No timer has been set, and the peer is up.
NoTimers ==
  /\ peer = "up" /\ ops_timeout = 0 /\ ops_timer = "null" /\ expired = 0
  /\ pc["timer"] = "idle"

\* As long as the socket is open, nothing has failed.
NoErrors ==
  open => /\ conn_stat \in {"kPending", "kWorking"} /\ ~was_cancelled
          /\ read_op.st \notin {"aborted", "error"}
          /\ \A i \in 1..Len(write_done) : write_done[i] = "ok"

\* What closes the connection is a bad header, and nothing is read behind it.
BadCloses == Closing => NextIsBad /\ ~Reading

CloseInv == NoTimers /\ NoErrors /\ BadCloses

-----------------------------------------------------------------------------
\* A header that makes the strand close is the one of the next request.
LEMMA BadHeader ==
  ASSUME ControlInv, FrameInv, do_read \/ read_handler, pc'["strand"] = "close"
  PROVE  NextIsBad' /\ ~Reading'
<1>1. /\ RecvTypeOK /\ ControlTypeOK /\ "strand" \in Threads /\ ~InBody
      /\ Len(delivered) \in Nat /\ Len(delivered) <= Len(input)
      /\ UNCHANGED <<input, delivered>> /\ read_op'.kind = "none"
  BY LenProperties DEF do_read, read_handler, envVars, recvVars, ControlInv, ControlTypeOK,
     Threads, InBody, OneReadChain, InReadChain, FrameInv, DeliveredOK, FramingCorrect, NoRead
<1>2. Base(Len(delivered), InBody) = StreamLen(input, Len(delivered))
  BY <1>1, StreamFacts DEF Base
<1>3. PICK buf \in Seq(Byte), r \in 0..Len(Stream(input)) :
        /\ ParseHeader(buf) /\ Len(buf) >= HeaderLen
        /\ Holds(buf, StreamLen(input, Len(delivered)), r)
  <2>1. CASE do_read
    <3>1. ParseHeader(recv_buffer) /\ Len(recv_buffer) >= HeaderLen
      BY <1>1, <2>1 DEF do_read, Goto, ControlTypeOK
    <3>2. Holds(recv_buffer, StreamLen(input, Len(delivered)), rcvd)
      BY <1>1, <1>2, <2>1 DEF FrameInv, BufferOK, Reading, InReadChain, do_read
    <3> QED BY <1>1, <3>1, <3>2 DEF RecvTypeOK
  <2>2. CASE read_handler
    <3>1. /\ Received \in Seq(Byte) /\ rcvd + read_op.n \in 0..Len(Stream(input))
          /\ Holds(Received, Base(Len(delivered), InBody), rcvd + read_op.n)
      BY <2>2, FrameReceived DEF read_handler
    <3>2. ParseHeader(Received) /\ ~(Len(Received) < HeaderLen)
      BY <1>1, <2>2 DEF read_handler, Goto, ControlTypeOK
    <3>3. Len(Received) >= HeaderLen
      BY <3>1, <3>2, LenProperties, HeaderLenAssumption
    <3> QED BY <1>2, <3>1, <3>2, <3>3
  <2> QED BY <2>1, <2>2
<1>4. /\ Len(delivered) < Len(input)
      /\ Decode(ConsumeStore(buf, HeaderLen)) = HeaderOf(Len(delivered) + 1)
  BY <1>1, <1>3, HeaderStep
<1>5. ~HeaderOK(HeaderOf(Len(delivered) + 1))
  BY <1>1, <1>3, <1>4 DEF ParseHeader, Goto, ControlTypeOK
<1>6. ~HeaderOK(input[Len(delivered) + 1])
  BY <1>5 DEF HeaderOK, HeaderOf
<1>7. ~Reading'
  BY <1>1 DEF Reading, InReadChain
<1> QED BY <1>1, <1>4, <1>6, <1>7 DEF NextIsBad, HeaderOK

\* The steps of the read chain keep CloseInv.
LEMMA Close_read ==
  ASSUME ControlInv, FrameInv, CloseInv, ops_timeout = 0,
         start \/ do_read \/ do_read_msg \/ ArmHead \/ ArmBody \/ read_handler \/ read_msg_handler
  PROVE  CloseInv'
<1> USE DEF envVars, connVars, timerVars, recvVars, rpcVars, sendVars
<1>1. Reading /\ ~Closing /\ open
  BY DEF Reading, InReadChain, start, do_read, do_read_msg, ArmHead, ArmBody, StartRead,
         read_handler, read_msg_handler, CloseInv, BadCloses, Closing
<1>2. NoTimers'
  BY ConnAssumption DEF CloseInv, NoTimers, start, do_read, do_read_msg, ArmHead, ArmBody, StartRead,
     SetOpsTimer, read_handler, read_msg_handler, Goto, ParseHeader, ParseMsgBody,
     ControlInv, ControlTypeOK, Threads
<1>3. NoErrors'
  BY <1>1 DEF CloseInv, NoErrors, start, do_read, do_read_msg, ArmHead, ArmBody, StartRead,
     read_handler, read_msg_handler, NoRead
<1>4. open'
  BY <1>1 DEF start, do_read, do_read_msg, ArmHead, ArmBody, StartRead, read_handler,
     read_msg_handler
<1>5. pc'["strand"] = "close" => do_read \/ read_handler
  BY DEF start, do_read, do_read_msg, ArmHead, ArmBody, StartRead, read_handler,
     read_msg_handler, ParseMsgBody, Goto, ControlInv, ControlTypeOK, Threads
<1>6. BadCloses'
  BY <1>4, <1>5, BadHeader DEF BadCloses, Closing
<1> QED BY <1>2, <1>3, <1>6 DEF CloseInv

\* A step that leaves the place in the stream alone and begins no closing keeps
\* BadCloses.
LEMMA BadClosesKept ==
  ASSUME BadCloses, FrameFrame, Closing' => Closing
  PROVE  BadCloses'
BY DEF BadCloses, FrameFrame, NextIsBad, HeaderOK

\* The handlers of failed operations run only after the socket is closed.
LEMMA Close_errors ==
  ASSUME ControlInv, CloseInv, ReadHandlerEc \/ WriteHandlerEc
  PROVE  CloseInv'
<1> USE DEF envVars, connVars, timerVars, recvVars, rpcVars, sendVars
<1>1. ~open
  <2>1. CASE ReadHandlerEc
    BY <2>1 DEF ReadHandlerEc, CloseInv, NoErrors
  <2>2. CASE WriteHandlerEc
    <3>1. Len(write_done) \in Nat /\ Len(write_done) # 0 /\ Head(write_done) = write_done[1]
      BY <2>2, EmptySeq, LenProperties, HeadTailProperties
         DEF WriteHandlerEc, ControlInv, ControlTypeOK
    <3> QED BY <2>2, <3>1 DEF WriteHandlerEc, CloseInv, NoErrors
  <2> QED BY <2>1, <2>2
<1>2. ~open'
  BY <1>1 DEF ReadHandlerEc, WriteHandlerEc, handle_socket_ec, ops_cancel
<1>3. NoTimers'
  BY DEF CloseInv, NoTimers, ReadHandlerEc, WriteHandlerEc, handle_socket_ec, Goto,
         ControlInv, ControlTypeOK, Threads
<1>4. FrameFrame
  BY Frame_strand
<1>5. BadCloses'
  BY <1>1, <1>4, BadClosesKept DEF Closing, CloseInv
<1> QED BY <1>2, <1>3, <1>5 DEF CloseInv, NoErrors

\* The requests, the responses and the network keep CloseInv.
LEMMA Close_send ==
  ASSUME ControlInv, CloseInv, ops_timeout = 0,
         \/ Dispatch \/ write_handler \/ ReadComplete \/ Transmit
         \/ \E w \in Workers : Worker(w)
         \/ \E t \in Threads : DoWriteTest(t) \/ DoWriteLocked(t)
  PROVE  CloseInv'
<1> USE DEF envVars, connVars, timerVars, recvVars, rpcVars, sendVars
<1>0. /\ write_done \in Seq(WriteEc) /\ Len(write_done) \in Nat /\ "strand" \in Threads
      /\ "timer" \in Threads /\ ControlTypeOK /\ resume \in {"idle", "do_read"}
      /\ "strand" \notin Workers /\ "timer" \notin Workers
      /\ pc["timer"] = "idle"
  BY ConnAssumption, LenProperties DEF ControlInv, ControlTypeOK, Threads, CloseInv, NoTimers
<1>1. UNCHANGED <<connVars, envVars, expired, ops_timeout>>
  BY DEF Dispatch, write_handler, ReadComplete, Transmit, Worker, Pop, reply_rpc_message,
         DoWriteTest, DoWriteLocked
<1>2. NoTimers'
  <2>1. ops_timer' = "null"
    BY DEF CloseInv, NoTimers, Dispatch, write_handler, ReadComplete, Transmit, Worker, Pop,
           reply_rpc_message, DoWriteTest, DoWriteLocked, SetOpsTimer
  <2>2. pc'["timer"] = "idle"
    BY <1>0 DEF Dispatch, SendMessage, write_handler, ReadComplete, Transmit, Worker, Pop,
           reply_rpc_message, DoWriteTest, DoWriteLocked, Return, Goto, ControlTypeOK
  <2> QED BY <1>1, <2>1, <2>2 DEF CloseInv, NoTimers
<1>3. FrameFrame
  BY Frame_strand, Frame_others DEF Network
<1>4. Closing' => Closing
  <2>1. pc'["strand"] = "close" => pc["strand"] = "close"
    BY <1>0 DEF Dispatch, SendMessage, write_handler, ReadComplete, Transmit, Worker, Pop,
           reply_rpc_message, DoWriteTest, DoWriteLocked, Return, Goto, ControlTypeOK
  <2> QED BY <1>1, <2>1 DEF Closing
<1>5. ASSUME open PROVE read_op'.st \notin {"aborted", "error"}
  BY <1>5 DEF CloseInv, NoErrors, Dispatch, write_handler, ReadComplete, Transmit, Worker, Pop,
         reply_rpc_message, DoWriteTest, DoWriteLocked, ControlInv, RecvTypeOK, ReadOp
<1>6. ASSUME open PROVE \A i \in 1..Len(write_done') : write_done'[i] = "ok"
  <2>1. \A i \in 1..Len(write_done) : write_done[i] = "ok"
    BY <1>6 DEF CloseInv, NoErrors
  <2>2. \/ write_done' = write_done
        \/ write_done # <<>> /\ write_done' = Tail(write_done)
        \/ write_done' = Append(write_done, "ok")
    BY <1>6 DEF Dispatch, write_handler, ReadComplete, Transmit, Worker, Pop,
         reply_rpc_message, DoWriteTest, DoWriteLocked
  <2>3. CASE write_done # <<>> /\ write_done' = Tail(write_done)
    <3>1. /\ Len(Tail(write_done)) = Len(write_done) - 1 /\ Len(write_done) # 0
          /\ \A i \in 1..Len(Tail(write_done)) : Tail(write_done)[i] = write_done[i + 1]
      BY <1>0, <2>3, HeadTailProperties, EmptySeq
    <3> QED BY <1>0, <2>1, <2>3, <3>1
  <2>4. CASE write_done' = Append(write_done, "ok")
    <3>1. /\ Len(write_done') = Len(write_done) + 1
          /\ \A i \in 1..Len(write_done) : write_done'[i] = write_done[i]
          /\ write_done'[Len(write_done) + 1] = "ok"
      BY <1>0, <2>4, AppendProperties DEF WriteEc
    <3> QED BY <1>0, <2>1, <3>1
  <2> QED BY <2>1, <2>2, <2>3, <2>4
<1>7. NoErrors'
  BY <1>1, <1>5, <1>6 DEF CloseInv, NoErrors
<1>8. BadCloses'
  BY <1>3, <1>4, BadClosesKept DEF CloseInv
<1> QED BY <1>2, <1>7, <1>8 DEF CloseInv

\* Only the strand closes the socket.
LEMMA Close_close ==
  ASSUME ControlInv, CloseInv, NEW t \in Threads, sock_shutdown_and_close(t)
  PROVE  CloseInv'
<1> USE DEF envVars, connVars, timerVars, recvVars, rpcVars, sendVars
<1>1. t = "strand" /\ pc["strand"] = "close"
  BY DEF sock_shutdown_and_close, Threads, ControlInv, OwnPoints, CloseInv, NoTimers
<1>2. ~open'
  BY DEF sock_shutdown_and_close, ControlInv, GivenUpIsClosed
<1>3. NoTimers'
  BY <1>1 DEF CloseInv, NoTimers, sock_shutdown_and_close, Goto, ControlInv, ControlTypeOK, Threads
<1>4. FrameFrame
  BY Frame_others
<1>5. BadCloses'
  BY <1>1, <1>4, BadClosesKept DEF Closing, CloseInv
<1> QED BY <1>2, <1>3, <1>5 DEF CloseInv, NoErrors

\* Every step keeps CloseInv, when there are no timers and the peer stays up.
LEMMA CloseStep ==
  ASSUME TimeOuts = {0}, PeerMayFail = FALSE
  PROVE  ControlInv /\ FrameInv /\ CloseInv /\ [Next]_vars => CloseInv'
<1> SUFFICES ASSUME ControlInv, FrameInv, CloseInv, [Next]_vars PROVE CloseInv'
  OBVIOUS
<1>1. ops_timeout = 0
  BY DEF CloseInv, NoTimers
<1>2. CASE Strand
  BY <1>1, <1>2, Close_read, Close_errors, Close_send DEF Strand
<1>3. CASE ReadComplete \/ Transmit
  BY <1>1, <1>3, Close_send
<1>4. CASE \E w \in Workers : Worker(w)
  BY <1>1, <1>4, Close_send
<1>5. ASSUME NEW t \in Threads, DoWriteTest(t) \/ DoWriteLocked(t) PROVE CloseInv'
  BY <1>1, <1>5, Close_send
<1>6. CASE ReadFail \/ WriteFail \/ ops_cancel_timeout_call \/ TimerExpire \/ UpdateTimeOut \/ PeerDown
  BY <1>1, <1>6 DEF ReadFail, WriteFail, ops_cancel_timeout_call, TimerExpire, UpdateTimeOut,
     PeerDown, CloseInv, NoTimers
<1>7. CASE UNCHANGED vars
  <2>1. Closing' = Closing /\ FrameFrame
    BY <1>7 DEF vars, envVars, connVars, recvVars, Closing, FrameFrame, Reading, InReadChain, InBody
  <2>2. NoTimers' /\ NoErrors'
    BY <1>7 DEF vars, envVars, connVars, timerVars, NoTimers, NoErrors, CloseInv
  <2> QED BY <2>1, <2>2, BadClosesKept DEF CloseInv
<1> QED BY <1>2, <1>3, <1>4, <1>5, <1>6, <1>7, Close_close DEF Next, Network

\* CloseInv holds at the start.
LEMMA CloseInit ==
  ASSUME TimeOuts = {0}
  PROVE  Init => CloseInv
BY DEF Init, CloseInv, NoTimers, NoErrors, BadCloses, Closing, NoRead, Threads

\* Where ops_cancel_time_out is off and the peer stays, nothing but the header
\* of a request closes the socket, and that header is the one behind the last
\* request delivered (parse_header, do_read's and read_handler's shutdown).
THEOREM CloseJustifiedSafe ==
  ASSUME TimeOuts = {0}, PeerMayFail = FALSE
  PROVE  Spec => []CloseJustified
<1>1. Init => CloseInv
  BY CloseInit
<1>2. ControlInv /\ FrameInv /\ CloseInv /\ [Next]_vars => CloseInv'
  BY CloseStep
<1>3. CloseInv => CloseJustified
  BY DEF CloseInv, BadCloses, Closing, NextIsBad, CloseJustified
<1> QED BY <1>1, <1>2, <1>3, ControlSafe, FrameSafe, PTL DEF Spec

-----------------------------------------------------------------------------
(* The responses on the wire.                                               *)

\* Every response that async_send_message lets pass fits into io_block_.
OneBlock ==
  \A in \in Inputs : \A m \in 1..Len(in) :
    LET len == IF in[m].route = "reject" THEN RejectLen ELSE in[m].reply
    IN  SendMax = 0 \/ len <= SendMax => HeaderLen + len <= BlockLen

\* What is appended and not on the wire: the rest of the outstanding write, or
\* what is buffered.
Rest == IF write_ops = <<>> THEN send_buffer
        ELSE SubSeq(io_block, write_ops[1].pos + 1, write_ops[1].len)

Whole == wire \o Rest = appended

\* A write has been aborted: its bytes are lost, nothing follows them.
Lost ==
  /\ write_ops = <<>> /\ send_buffer = <<>>
  /\ IsPrefix(wire, appended) /\ Len(wire) < Len(appended)

\* There is one write at a time, and nothing is buffered behind it.
OneWrite ==
  /\ Len(write_ops) <= 1 /\ Len(send_buffer) <= BlockLen
  /\ write_ops # <<>> => send_buffer = <<>>

\* A request has been delivered and its response not yet been appended.
Unanswered ==
  \/ pc["strand"] = "dispatch" \/ queue # <<>>
  \/ \E w \in Workers : pc[w] = "reply"

\* It is one request, the last one, in one place; and until it is answered all
\* the responses before it are on the wire.
OneUnanswered ==
  /\ pc["strand"] = "dispatch" => queue = <<>> /\ \A w \in Workers : pc[w] # "reply"
  /\ queue # <<>> => queue = <<Len(delivered)>> /\ \A w \in Workers : pc[w] # "reply"
  /\ \A w \in Workers : pc[w] = "reply" =>
       job[w] = Len(delivered) /\ \A v \in Workers : pc[v] = "reply" => v = w
  /\ Unanswered => /\ wire = appended /\ write_ops = <<>> /\ send_buffer = <<>>
                   /\ Len(appended) <= Len(Replies(Len(delivered) - 1))

\* Bytes of the stream that have reached the socket.
Got == IF read_op.st = "ok" THEN rcvd + read_op.n ELSE rcvd

\* No response is longer than planned, and of a request no byte comes before the
\* responses to the requests in front of it are on the wire.
Waits ==
  /\ Len(appended) <= Len(Replies(Len(delivered)))
  /\ \A k \in 1..Len(input) :
       Got > StreamLen(input, k - 1) => Len(Replies(k - 1)) <= Len(wire)

WireInv == (Whole \/ Lost) /\ OneWrite /\ OneUnanswered /\ Waits

\* The lengths of the responses add up.
LEMMA RepliesFacts ==
  ASSUME RecvTypeOK
  PROVE  /\ Replies(0) = <<>>
         /\ \A n \in 0..Len(input) : Len(Replies(n)) \in Nat
         /\ \A n \in 1..Len(input) :
              Len(Replies(n)) = Len(Replies(n - 1)) + HeaderLen + ReplyLen(n)
         /\ \A n \in 0..Len(input) : \A j \in 0..n : Len(Replies(j)) <= Len(Replies(n))
<1> DEFINE part(n) == [m \in 1..n |-> NetStr(m, ReplyLen(m))]
<1>1. Len(input) \in Nat
  BY StreamFacts
<1>2. ASSUME NEW n \in 0..Len(input)
      PROVE  part(n) \in Seq(Seq(Byte)) /\ Len(part(n)) = n
  <2>1. \A m \in 1..n : NetStr(m, ReplyLen(m)) \in Seq(Byte)
    BY <1>1, ReplyType
  <2> QED BY <1>1, <2>1
<1>3. ASSUME NEW n \in 0..Len(input)
      PROVE  Replies(n) \in Seq(Byte) /\ Len(Replies(n)) \in Nat
  <2>1. Replies(n) = FlattenSeq(part(n))
    BY DEF Replies
  <2> HIDE DEF part
  <2> QED BY <1>2, <2>1, FlattenType, LenProperties
<1>4. Replies(0) = <<>>
  <2>1. part(0) = <<>>
    OBVIOUS
  <2> QED BY <2>1, FlattenEmpty DEF Replies
<1>5. ASSUME NEW n \in 1..Len(input)
      PROVE  Len(Replies(n)) = Len(Replies(n - 1)) + HeaderLen + ReplyLen(n)
  <2>1. n - 1 \in 0..Len(input) /\ n \in 0..Len(input) /\ n \in 1..n /\ n \in Nat
    BY <1>1
  <2>2. /\ part(n) \in Seq(Seq(Byte)) /\ Len(part(n)) = n
        /\ part(n - 1) \in Seq(Seq(Byte)) /\ Len(part(n - 1)) = n - 1
    BY <1>2, <2>1
  <2>3. \A i \in 1..(n - 1) : part(n - 1)[i] = part(n)[i]
    <3>1. \A i \in 1..(n - 1) : i \in 1..n
      BY <2>1
    <3> QED BY <3>1
  <2>4. part(n)[n] = NetStr(n, ReplyLen(n))
    BY <2>1
  <2>5. Replies(n) = FlattenSeq(part(n)) /\ Replies(n - 1) = FlattenSeq(part(n - 1))
    BY DEF Replies
  <2> DEFINE ss == part(n)
             tt == part(n - 1)
  <2>6. /\ ss \in Seq(Seq(Byte)) /\ tt \in Seq(Seq(Byte)) /\ Len(ss) = Len(tt) + 1
        /\ Len(tt) = n - 1 /\ Len(ss) = n
        /\ \A i \in 1..(n - 1) : tt[i] = ss[i]
        /\ Replies(n) = FlattenSeq(ss) /\ Replies(n - 1) = FlattenSeq(tt)
        /\ ss[n] = NetStr(n, ReplyLen(n))
    BY <2>1, <2>2, <2>3, <2>4, <2>5
  <2> HIDE DEF ss, tt, part
  <2>7. Replies(n) = Replies(n - 1) \o NetStr(n, ReplyLen(n))
    BY <2>6, FlattenNext
  <2>8. /\ Replies(n - 1) \in Seq(Byte) /\ NetStr(n, ReplyLen(n)) \in Seq(Byte)
        /\ ReplyLen(n) \in Nat /\ Len(NetStr(n, ReplyLen(n))) = HeaderLen + ReplyLen(n)
        /\ Len(Replies(n - 1)) \in Nat
    BY <1>3, <2>1, ReplyType, MessageType
  <2>9. Len(Replies(n)) = Len(Replies(n - 1)) + Len(NetStr(n, ReplyLen(n)))
    BY <2>7, <2>8, ConcatProperties
  <2> QED BY <2>8, <2>9, HeaderLenAssumption
<1>6. \A n \in 0..Len(input) : \A j \in 0..n : Len(Replies(j)) <= Len(Replies(n))
  <2> DEFINE f == [n \in 0..Len(input) |-> Len(Replies(n))]
  <2>1. \A k \in 0..Len(input) : f[k] = Len(Replies(k)) /\ f[k] \in Nat
    BY <1>3
  <2>2. \A k \in 1..Len(input) : f[k - 1] <= f[k]
    <3> TAKE k \in 1..Len(input)
    <3>1. k \in 0..Len(input) /\ k - 1 \in 0..Len(input)
      BY <1>1
    <3>2. ReplyLen(k) \in Nat /\ Len(Replies(k)) = Len(Replies(k - 1)) + HeaderLen + ReplyLen(k)
      BY <1>5, ReplyType
    <3>3. f[k - 1] = Len(Replies(k - 1)) /\ f[k] = Len(Replies(k)) /\ f[k - 1] \in Nat
      BY <2>1, <3>1
    <3> HIDE DEF f
    <3> QED BY <3>2, <3>3, HeaderLenAssumption
  <2> HIDE DEF f
  <2>3. \A k \in 0..Len(input) : \A j \in 0..k : f[j] <= f[k]
    BY <1>1, <2>1, <2>2, Growing
  <2>4. \A k \in 0..Len(input) : \A j \in 0..k : j \in 0..Len(input)
    BY <1>1
  <2> QED BY ONLY <2>1, <2>3, <2>4
<1> QED BY <1>3, <1>4, <1>5, <1>6

\* So do the lengths of the requests.
LEMMA StreamMonotone ==
  ASSUME RecvTypeOK
  PROVE  \A n \in 0..Len(input) : \A j \in 0..n : StreamLen(input, j) <= StreamLen(input, n)
<1> DEFINE f == [n \in 0..Len(input) |-> StreamLen(input, n)]
<1>1. Len(input) \in Nat /\ \A k \in 0..Len(input) : f[k] = StreamLen(input, k) /\ f[k] \in Nat
  BY StreamFacts
<1>2. \A k \in 1..Len(input) : f[k - 1] <= f[k]
  <2> TAKE k \in 1..Len(input)
  <2>1. k \in 0..Len(input) /\ k - 1 \in 0..Len(input)
    BY <1>1
  <2>2. StreamLen(input, k) = StreamLen(input, k - 1) + HeaderLen + input[k].len /\ input[k].len \in Nat
    BY StreamLayout, StreamFacts DEF RecvTypeOK
  <2>3. f[k - 1] = StreamLen(input, k - 1) /\ f[k] = StreamLen(input, k) /\ f[k - 1] \in Nat
    BY <1>1, <2>1
  <2> HIDE DEF f
  <2> QED BY <2>2, <2>3, HeaderLenAssumption
<1> HIDE DEF f
<1>3. \A k \in 0..Len(input) : \A j \in 0..k : f[j] <= f[k]
  BY <1>1, <1>2, Growing
<1>4. \A k \in 0..Len(input) : \A j \in 0..k : j \in 0..Len(input)
  BY <1>1
<1> QED BY ONLY <1>1, <1>3, <1>4

\* A sequence begins with the first part of it.
LEMMA PrefixOfConcat ==
  ASSUME NEW S, NEW s \in Seq(S), NEW t \in Seq(S)
  PROVE  IsPrefix(s, s \o t) /\ Len(s \o t) = Len(s) + Len(t)
<1>1. /\ s \o t \in Seq(S) /\ Len(s \o t) = Len(s) + Len(t) /\ Len(s) \in Nat /\ Len(t) \in Nat
      /\ \A i \in 1..Len(s) : (s \o t)[i] = s[i]
  <2>1. /\ s \o t \in Seq(S) /\ Len(s \o t) = Len(s) + Len(t) /\ Len(s) \in Nat /\ Len(t) \in Nat
        /\ \A i \in 1..(Len(s) + Len(t)) :
             (s \o t)[i] = IF i <= Len(s) THEN s[i] ELSE t[i - Len(s)]
    BY ConcatProperties, LenProperties
  <2>2. \A i \in 1..Len(s) : i \in 1..(Len(s) + Len(t)) /\ i <= Len(s)
    BY <2>1
  <2> QED BY ONLY <2>1, <2>2
<1> DEFINE u == s \o t
<1>2. u \in Seq(S) /\ Len(s) <= Len(u) /\ \A i \in 1..Len(s) : u[i] = s[i]
  BY <1>1
<1> HIDE DEF u
<1>3. SubSeq(u, 1, Len(s)) = SubSeq(s, 1, Len(s))
  BY <1>1, <1>2
<1>4. IsPrefix(s, u)
  BY <1>2, <1>3 DEF IsPrefix
<1> QED BY <1>1, <1>4 DEF u

\* The sequences behind the output, and what follows when everything appended is
\* on the wire.
LEMMA OutputFacts ==
  ASSUME ControlInv, SendInv, OneWrite, Whole \/ Lost
  PROVE  /\ Len(wire) \in Nat /\ Len(appended) \in Nat /\ Len(send_buffer) \in Nat
         /\ Rest \in Seq(Byte) /\ IsPrefix(wire, appended)
         /\ write_ops # <<>> => Rest # <<>> /\ Len(wire) < Len(appended)
         /\ Len(appended) <= Len(wire) =>
              wire = appended /\ write_ops = <<>> /\ send_buffer = <<>>
<1>1. /\ wire \in Seq(Byte) /\ appended \in Seq(Byte) /\ send_buffer \in Seq(Byte)
      /\ io_block \in Seq(Byte) /\ write_ops \in Seq(WriteOp)
      /\ Len(wire) \in Nat /\ Len(appended) \in Nat /\ Len(send_buffer) \in Nat
      /\ Len(io_block) \in Nat /\ Len(write_ops) \in Nat
  BY LenProperties DEF SendInv, SendTypeOK, ControlInv, ControlTypeOK
<1>2. ASSUME write_ops # <<>> PROVE Rest \in Seq(Byte) /\ Len(Rest) > 0
  <2>1. 1 \in 1..Len(write_ops)
    BY <1>1, <1>2, EmptySeq
  <2>2. write_ops[1] \in WriteOp
    BY <1>1, <2>1, ElementOfSeq
  <2>3. /\ write_ops[1].pos \in Nat /\ write_ops[1].len \in Nat
        /\ write_ops[1].pos < write_ops[1].len /\ write_ops[1].len <= Len(io_block)
    BY <2>1, <2>2 DEF WriteOp, SendInv, SendTypeOK
  <2> DEFINE a == write_ops[1].pos
             b == write_ops[1].len
  <2>4. Rest = SubSeq(io_block, a + 1, b)
    BY <1>2 DEF Rest
  <2>5. a \in Nat /\ b \in Nat /\ a < b /\ b <= Len(io_block)
    BY <2>3
  <2> HIDE DEF a, b
  <2>6. \A i \in (a + 1)..b : io_block[i] \in Byte
    <3>1. \A i \in (a + 1)..b : i \in 1..Len(io_block)
      BY <1>1, <2>5
    <3> QED BY <1>1, <3>1, ElementOfSeq
  <2>7. SubSeq(io_block, a + 1, b) \in Seq(Byte) /\ Len(SubSeq(io_block, a + 1, b)) = b - (a + 1) + 1
    BY <2>5, <2>6, SubSeqProperties
  <2> QED BY <2>4, <2>5, <2>7
<1>3. Rest \in Seq(Byte)
  BY <1>1, <1>2 DEF Rest
<1>4. Len(Rest) \in Nat
  BY <1>3, LenProperties
<1>5. CASE Whole
  <2>1. IsPrefix(wire, appended) /\ Len(appended) = Len(wire) + Len(Rest)
    BY <1>1, <1>3, <1>5, PrefixOfConcat DEF Whole
  <2>2. write_ops # <<>> => Rest # <<>> /\ Len(wire) < Len(appended)
    BY <1>1, <1>2, <1>4, <2>1, EmptySeq
  <2>3. ASSUME Len(appended) <= Len(wire)
        PROVE  wire = appended /\ write_ops = <<>> /\ send_buffer = <<>>
    <3>1. Len(Rest) = 0
      BY <1>1, <1>4, <2>1, <2>3
    <3>2. Rest = <<>>
      BY <1>3, <3>1, EmptySeq
    <3>3. write_ops = <<>> /\ send_buffer = <<>>
      BY <2>2, <3>2 DEF Rest
    <3>4. wire \o <<>> = wire
      BY <1>1, ConcatEmptySeq
    <3> QED BY <1>5, <3>2, <3>3, <3>4 DEF Whole
  <2> QED BY <1>1, <1>3, <2>1, <2>2, <2>3
<1>6. CASE Lost
  BY <1>1, <1>3, <1>6 DEF Lost
<1> QED BY <1>5, <1>6

\* Aborting the outstanding write loses its rest; otherwise a step that does not
\* touch the output keeps it.
LEMMA OutputKept ==
  ASSUME ControlInv, SendInv, OneWrite, Whole \/ Lost,
         UNCHANGED <<wire, appended, send_buffer, io_block>>, write_ops' \in {write_ops, <<>>}
  PROVE  (Whole' \/ Lost') /\ OneWrite'
<1>1. CASE write_ops' = write_ops
  BY <1>1 DEF Whole, Lost, OneWrite, Rest
<1>2. CASE write_ops # <<>> /\ write_ops' = <<>>
  <2>1. IsPrefix(wire, appended) /\ Len(wire) < Len(appended) /\ send_buffer = <<>>
    BY <1>2, OutputFacts DEF OneWrite
  <2>2. Lost'
    BY <1>2, <2>1 DEF Lost
  <2>3. OneWrite'
    BY <1>2, EmptySeq DEF OneWrite
  <2> QED BY <2>2, <2>3
<1> QED BY <1>1, <1>2

\* do_write moves the whole buffer into the block and starts the one write.
LEMMA OutputLocked ==
  ASSUME ControlInv, SendInv, OneWrite, Whole \/ Lost, send_buffer # <<>>,
         NEW t \in Threads, DoWriteLocked(t)
  PROVE  (Whole' \/ Lost') /\ OneWrite'
<1> DEFINE tw == Smaller(Len(send_buffer), BlockLen)
           op == [len |-> tw, pos |-> 0]
<1>1. /\ wire \in Seq(Byte) /\ appended \in Seq(Byte) /\ send_buffer \in Seq(Byte)
      /\ io_block \in Seq(Byte) /\ Len(io_block) <= BlockLen /\ Len(send_buffer) \in Nat
      /\ Len(io_block) \in Nat /\ BlockLen \in Nat
  BY LenProperties, ConnAssumption DEF SendInv, SendTypeOK
<1>2. /\ io_block' = ConsumeBlock(io_block, send_buffer, tw)
      /\ send_buffer' = FrontErase(send_buffer, tw)
      /\ IF open THEN write_ops' = Append(write_ops, op) ELSE write_ops' = write_ops
      /\ wire' = wire /\ appended' = appended
  BY DEF DoWriteLocked, envVars, connVars, recvVars, rpcVars
<1>3. write_ops = <<>> /\ Whole /\ Len(send_buffer) <= BlockLen
  BY DEF OneWrite, Lost
<1>4. tw = Len(send_buffer)
  BY <1>1, <1>3 DEF Smaller
<1>5. send_buffer' = <<>>
  BY <1>1, <1>2, <1>4, SubSeqEmpty DEF FrontErase
<1>6. wire \o send_buffer = appended
  BY <1>3 DEF Whole, Rest
<1>7. CASE open
  <2>1. write_ops' = <<op>> /\ op.pos = 0 /\ op.len = Len(send_buffer)
    BY <1>2, <1>3, <1>4, <1>7
  <2> DEFINE a == SubSeq(send_buffer, 1, tw)
             b == SubSeq(io_block, tw + 1, Len(io_block))
  <2>2. a = send_buffer
    BY <1>1, <1>4, SubSeqFull
  <2>3. b \in Seq(Byte)
    BY <1>1, <1>4
  <2>4. io_block' = send_buffer \o b
    BY <1>2, <2>2 DEF ConsumeBlock
  <2> HIDE DEF a, b, op, tw
  <2>5. IsPrefix(send_buffer, send_buffer \o b)
    BY <1>1, <2>3, PrefixOfConcat
  <2>6. SubSeq(io_block', 1, Len(send_buffer)) = send_buffer
    <3>1. SubSeq(send_buffer, 1, Len(send_buffer)) = send_buffer
      BY <1>1, SubSeqFull
    <3> QED BY <2>4, <2>5, <3>1 DEF IsPrefix
  <2>7. Rest' = SubSeq(io_block', 0 + 1, Len(send_buffer))
    <3>1. write_ops' # <<>> /\ write_ops'[1] = op
      BY <2>1
    <3> QED BY <2>1, <3>1 DEF Rest
  <2>8. Whole'
    BY <1>2, <1>6, <2>6, <2>7 DEF Whole
  <2>9. Len(write_ops') = 1 /\ Len(send_buffer') = 0
    BY <1>5, <2>1
  <2> QED BY <1>1, <1>5, <2>8, <2>9 DEF OneWrite
<1>8. CASE ~open
  <2>1. write_ops' = <<>>
    BY <1>2, <1>3, <1>8
  <2>2. IsPrefix(wire, appended) /\ Len(appended) = Len(wire) + Len(send_buffer)
    BY <1>1, <1>6, PrefixOfConcat
  <2>3. Len(wire) < Len(appended)
    BY <1>1, <2>2, EmptySeq, LenProperties
  <2>4. Lost'
    BY <1>2, <1>5, <2>1, <2>2, <2>3 DEF Lost
  <2> QED BY <1>1, <1>5, <2>1, <2>4, EmptySeq DEF OneWrite
<1> QED BY <1>7, <1>8

\* Part of the write goes out.
LEMMA OutputTransmit ==
  ASSUME ControlInv, SendInv, OneWrite, Whole \/ Lost, Transmit
  PROVE  (Whole' \/ Lost') /\ OneWrite' /\ Len(wire) <= Len(wire')
<1> DEFINE op == Head(write_ops)
<1>1. /\ wire \in Seq(Byte) /\ appended \in Seq(Byte) /\ send_buffer = <<>>
      /\ io_block \in Seq(Byte) /\ Len(io_block) \in Nat
      /\ write_ops \in Seq(WriteOp) /\ write_ops # <<>> /\ Whole
      /\ WithinBlock(write_ops, Len(io_block))
  BY LenProperties DEF SendInv, SendTypeOK, ControlInv, ControlTypeOK, Transmit, OneWrite,
     Lost, WithinBlock
<1>2. PICK k \in 1..(op.len - op.pos) :
        /\ wire' = wire \o SubSeq(io_block, op.pos + 1, op.pos + k)
        /\ IF op.pos + k = op.len
           THEN write_ops' = Tail(write_ops)
           ELSE write_ops' = Append(Tail(write_ops), [op EXCEPT !.pos = @ + k])
  BY DEF Transmit
<1>3. /\ UNCHANGED <<send_buffer, io_block, appended>>
  BY DEF Transmit, sendVars
<1>4. Len(write_ops) = 1 /\ Tail(write_ops) = <<>> /\ op = write_ops[1]
  <2>1. Len(write_ops) \in Nat \ {0} /\ Len(write_ops) <= 1
    BY <1>1, EmptySeq DEF OneWrite
  <2>2. Tail(write_ops) \in Seq(WriteOp) /\ Len(Tail(write_ops)) = Len(write_ops) - 1
    BY ONLY <1>1, HeadTailProperties
  <2>3. Len(Tail(write_ops)) = 0
    BY ONLY <2>1, <2>2
  <2>4. Tail(write_ops) = <<>>
    BY <2>2, <2>3, EmptySeq
  <2>5. op = write_ops[1]
    BY <1>1
  <2>6. Len(write_ops) = 1
    <3> DEFINE n == Len(write_ops)
    <3>1. n \in Nat \ {0} /\ n <= 1
      BY <2>1
    <3> HIDE DEF n
    <3>2. n = 1
      BY ONLY <3>1
    <3> QED BY <3>2 DEF n
  <2> HIDE DEF op
  <2> QED BY ONLY <2>4, <2>5, <2>6
<1>5. op.pos \in Nat /\ op.len \in Nat /\ op.pos < op.len /\ op.len <= Len(io_block) /\ op \in WriteOp
  <2>1. op \in WriteOp
    BY <1>1, HeadTailProperties
  <2> QED BY <1>1, <1>4, <2>1 DEF WithinBlock, WriteOp
<1>6. wire \o SubSeq(io_block, op.pos + 1, op.len) = appended
  BY <1>1, <1>4 DEF Whole, Rest
<1> DEFINE p == op.pos
           l == op.len
           x == SubSeq(io_block, p + 1, p + k)
           y == SubSeq(io_block, p + k + 1, l)
<1>7. p \in Nat /\ l \in Nat /\ k \in Nat /\ k >= 1 /\ p + k <= l /\ l <= Len(io_block)
  BY <1>1, <1>5
<1>8. wire' = wire \o x /\ wire \o SubSeq(io_block, p + 1, l) = appended
  BY <1>2, <1>6
<1> DEFINE next == [op EXCEPT !.pos = @ + k]
<1>9. next \in WriteOp /\ next.pos = p + k /\ next.len = l
  BY <1>5, <1>7 DEF WriteOp
<1>9a. write_ops' = IF p + k = l THEN <<>> ELSE Append(<<>>, next)
  BY <1>2, <1>4
<1> HIDE DEF p, l, op, next
<1>9b. Append(<<>>, next) # <<>> /\ Len(Append(<<>>, next)) = 1 /\ Append(<<>>, next)[1] = next
  <2>1. <<>> \in Seq(WriteOp) /\ Len(<<>>) = 0
    BY EmptySeq
  <2>2. /\ Append(<<>>, next) # <<>> /\ Len(Append(<<>>, next)) = Len(<<>>) + 1
        /\ Append(<<>>, next)[Len(<<>>) + 1] = next
    BY <1>9, <2>1, AppendProperties
  <2> QED BY <2>1, <2>2
<1>10. x \in Seq(Byte) /\ y \in Seq(Byte)
  BY <1>1, <1>7
<1>11. x \o y = SubSeq(io_block, p + 1, l)
  <2>1. /\ p + 1 \in 1..(Len(io_block) + 1) /\ p + k \in ((p + 1) - 1)..Len(io_block)
        /\ l \in (p + k)..Len(io_block)
    BY <1>1, <1>7
  <2> QED BY <1>1, <2>1, ConcatAdjacentSubSeq
<1> HIDE DEF x, y
<1>12. wire' \o y = appended
  <2>1. (wire \o x) \o y = wire \o (x \o y)
    <3>1. wire \in Seq(Byte) /\ x \in Seq(Byte) /\ y \in Seq(Byte)
      BY <1>1, <1>10
    <3>2. \A s, t, u \in Seq(Byte) : (s \o t) \o u = s \o (t \o u)
      BY ConcatAssociative
    <3> QED BY ONLY <3>1, <3>2
  <2> QED BY <1>8, <1>11, <2>1
<1>13. Rest' = y
  <2>1. CASE p + k = l
    <3>1. write_ops' = <<>> /\ y = <<>>
      BY <1>7, <1>9a, <2>1, SubSeqEmpty DEF y
    <3> QED BY <1>1, <1>3, <3>1 DEF Rest
  <2>2. CASE p + k # l
    <3>1. write_ops' # <<>> /\ write_ops'[1].pos = p + k /\ write_ops'[1].len = l
      BY <1>9, <1>9a, <1>9b, <2>2
    <3> QED BY <1>3, <3>1 DEF Rest, y
  <2> QED BY <2>1, <2>2
<1>14. Whole'
  BY <1>3, <1>12, <1>13 DEF Whole
<1>15. Len(write_ops') <= 1
  BY <1>9a, <1>9b, EmptySeq
<1>16. Len(wire) <= Len(wire')
  BY <1>1, <1>8, <1>10, ConcatProperties, LenProperties
<1> QED BY <1>1, <1>3, <1>14, <1>15, <1>16 DEF OneWrite

\* What a step that neither sends, delivers nor answers does to the variables of
\* WireInv: at most it aborts the outstanding write.
Quiet ==
  /\ UNCHANGED <<input, delivered, queue, job, wire, appended, send_buffer, io_block>>
  /\ write_ops' \in {write_ops, <<>>}
  /\ Got' = Got
  /\ pc'["strand"] = "dispatch" => pc["strand"] = "dispatch"
  /\ \A w \in Workers : pc'[w] = "reply" => pc[w] = "reply"

\* The lengths in WireInv are numbers, and the unanswered request exists.
LEMMA WireFacts ==
  ASSUME ControlInv, FrameInv, SendInv, WireInv
  PROVE  /\ RecvTypeOK /\ Len(input) \in Nat /\ Got \in Nat
         /\ Len(delivered) \in 0..Len(input)
         /\ Len(wire) \in Nat /\ Len(appended) \in Nat
         /\ Unanswered => Len(delivered) \in 1..Len(input)
<1>1. RecvTypeOK /\ Len(input) \in Nat /\ Len(wire) \in Nat /\ Len(appended) \in Nat
  BY StreamFacts, OutputFacts DEF ControlInv, WireInv
<1>2. Len(delivered) \in 0..Len(input)
  BY <1>1, LenProperties DEF FrameInv, DeliveredOK, FramingCorrect
<1>3. Got \in Nat
  <2>1. rcvd \in Nat /\ read_op.n \in Nat
    BY <1>1, StreamFacts, ConnAssumption DEF RecvTypeOK, ReadOp
  <2> QED BY <2>1 DEF Got
<1>4. ASSUME Unanswered PROVE Len(delivered) \in 1..Len(input)
  <2>1. CASE pc["strand"] = "dispatch"
    BY <1>1, <1>2, <2>1 DEF FrameInv, DeliveredOK
  <2>2. CASE queue # <<>>
    <3>1. queue = <<Len(delivered)>> /\ queue \in Seq(1..Len(input))
      BY <2>2 DEF WireInv, OneUnanswered, SendInv, SendTypeOK
    <3>2. Len(queue) = 1 /\ queue[1] = Len(delivered)
      BY <3>1
    <3> QED BY <3>1, <3>2, ElementOfSeq
  <2>3. ASSUME NEW w \in Workers, pc[w] = "reply" PROVE Len(delivered) \in 1..Len(input)
    BY <2>3 DEF WireInv, OneUnanswered, SendInv
  <2> QED BY <1>4, <2>1, <2>2, <2>3 DEF Unanswered
<1> QED BY <1>1, <1>2, <1>3, <1>4

\* A quiet step keeps WireInv.
LEMMA WireQuiet ==
  ASSUME ControlInv, SendInv, WireInv, Quiet
  PROVE  WireInv'
<1>1. (Whole' \/ Lost') /\ OneWrite'
  BY OutputKept DEF WireInv, Quiet
<1>3. OneUnanswered'
  <2>1. Unanswered' => Unanswered
    BY DEF Unanswered, Quiet
  <2>2. Unanswered' => /\ wire' = appended' /\ write_ops' = <<>> /\ send_buffer' = <<>>
                       /\ Len(appended') <= Len(Replies(Len(delivered) - 1))
    BY <2>1 DEF WireInv, OneUnanswered, Quiet
  <2>3. /\ pc'["strand"] = "dispatch" => queue' = <<>> /\ \A w \in Workers : pc'[w] # "reply"
        /\ queue' # <<>> => queue' = <<Len(delivered')>> /\ \A w \in Workers : pc'[w] # "reply"
        /\ \A w \in Workers : pc'[w] = "reply" =>
             job'[w] = Len(delivered') /\ \A v \in Workers : pc'[v] = "reply" => v = w
    BY DEF WireInv, OneUnanswered, Quiet
  <2>4. Replies(Len(delivered) - 1)' = Replies(Len(delivered) - 1)
    BY DEF Quiet, Replies, ReplyLen
  <2> QED BY <2>2, <2>3, <2>4 DEF OneUnanswered
<1>4. Waits'
  <2>1. /\ Len(appended') <= Len(Replies(Len(delivered)))
        /\ \A k \in 1..Len(input) :
             Got' > StreamLen(input, k - 1) => Len(Replies(k - 1)) <= Len(wire')
    BY DEF WireInv, Waits, Quiet
  <2>2. /\ Replies(Len(delivered))' = Replies(Len(delivered)) /\ input' = input
        /\ \A k \in 1..Len(input) : Replies(k - 1)' = Replies(k - 1)
    BY DEF Quiet, Replies, ReplyLen
  <2> QED BY <2>1, <2>2 DEF Waits
<1> QED BY <1>1, <1>3, <1>4 DEF WireInv

\* The read of bytes that the peer has sent: behind the responses it waits for.
LEMMA Wire_ReadComplete ==
  ASSUME ControlInv, FrameInv, SendInv, WireInv, Pipelined = {}, ReadComplete
  PROVE  WireInv'
<1>1. /\ RecvTypeOK /\ Len(input) \in Nat /\ Len(wire) \in Nat
      /\ UNCHANGED <<input, delivered, queue, job, wire, appended, send_buffer, io_block,
                     write_ops, pc, rcvd>>
  BY WireFacts DEF ReadComplete, envVars, recvVars, rpcVars, sendVars
<1>2. PICK k \in 1..Len(input), n \in read_op.need..BlockLen :
        /\ Sent(k) /\ rcvd + n <= StreamLen(input, k)
        /\ read_op' = [read_op EXCEPT !.st = "ok", !.n = n]
  BY DEF ReadComplete
<1>3. Got' = rcvd + n /\ Got' \in Int
  <2>1. n \in Int /\ rcvd \in Int /\ read_op'.st = "ok" /\ read_op'.n = n
    BY <1>1, <1>2, StreamFacts, ConnAssumption DEF RecvTypeOK, ReadOp
  <2> QED BY <1>1, <2>1 DEF Got
<1>4. ASSUME NEW j \in 1..Len(input), Got' > StreamLen(input, j - 1)
      PROVE  Len(Replies(j - 1)) <= Len(wire)
  <2>1. j - 1 \in 0..Len(input) /\ k \in 0..Len(input) /\ j \in Int /\ k \in Int
    BY <1>1
  <2>2. StreamLen(input, j - 1) \in Nat /\ StreamLen(input, k) \in Nat
    BY <1>1, <2>1, StreamFacts
  <2>3. StreamLen(input, j - 1) < StreamLen(input, k)
    BY <1>2, <1>3, <1>4, <2>2
  <2>4. j - 1 < k
    <3> SUFFICES ASSUME k <= j - 1 PROVE FALSE
      BY <2>1
    <3>1. k \in 0..(j - 1)
      BY <2>1
    <3>2. StreamLen(input, k) <= StreamLen(input, j - 1)
      BY <1>1, <2>1, <3>1, StreamMonotone
    <3> QED BY <2>2, <2>3, <3>2
  <2>5. j - 1 \in 0..(k - 1) /\ k - 1 \in 0..Len(input)
    BY <1>1, <2>1, <2>4
  <2>6. /\ Len(Replies(j - 1)) <= Len(Replies(k - 1)) /\ Replies(0) = <<>>
        /\ Len(Replies(j - 1)) \in Nat /\ Len(Replies(k - 1)) \in Nat
    BY <1>1, <2>1, <2>5, RepliesFacts
  <2>7. CASE k = 1
    <3>1. j - 1 = 0
      BY <2>5, <2>7
    <3> QED BY <1>1, <2>6, <3>1, EmptySeq
  <2>8. CASE k # 1
    <3>1. Len(Replies(k - 1)) <= Len(wire)
      BY <1>2, <2>8 DEF Sent
    <3> QED BY <1>1, <2>6, <3>1
  <2> QED BY <2>7, <2>8
<1>5. Waits'
  <2>1. /\ Replies(Len(delivered))' = Replies(Len(delivered))
        /\ \A j \in 1..Len(input) : Replies(j - 1)' = Replies(j - 1)
    BY <1>1 DEF Replies, ReplyLen
  <2> QED BY <1>1, <1>4, <2>1 DEF Waits, WireInv
<1>6. OneUnanswered'
  <2>1. Replies(Len(delivered) - 1)' = Replies(Len(delivered) - 1)
    BY <1>1 DEF Replies, ReplyLen
  <2> QED BY <1>1, <2>1 DEF OneUnanswered, Unanswered, WireInv
<1>7. (Whole' \/ Lost') /\ OneWrite'
  BY <1>1 DEF Whole, Lost, OneWrite, Rest, WireInv
<1> QED BY <1>5, <1>6, <1>7 DEF WireInv

\* A request is delivered: the responses to all those before it are on the wire.
LEMMA WireDeliver ==
  ASSUME ControlInv, FrameInv, SendInv, WireInv, ControlInv', FrameInv',
         UNCHANGED <<input, queue, job, wire, appended, send_buffer, io_block, write_ops>>,
         Len(delivered') = Len(delivered) + 1, Got' = Got, pc'["strand"] = "dispatch",
         \A w \in Workers : pc'[w] = pc[w]
  PROVE  WireInv'
<1> DEFINE d == Len(delivered)
<1>1. /\ RecvTypeOK /\ Len(input) \in Nat /\ d \in Nat /\ d + 1 \in 1..Len(input)
      /\ Len(wire) \in Nat /\ Len(appended) \in Nat /\ Got \in Nat
      /\ Unanswered => d \in 1..Len(input)
  <2>1. d + 1 <= Len(input)
    BY DEF FrameInv, DeliveredOK, FramingCorrect
  <2> QED BY <2>1, WireFacts
<1>2. Got > StreamLen(input, d)
  <2>1. Reading' /\ read_op'.kind = "none" /\ ~InBody'
    BY DEF Reading, InReadChain, InBody, ControlInv, OneReadChain
  <2>2. rcvd' = StreamLen(input, d + 1) + Len(recv_buffer')
    <3>1. Holds(recv_buffer, Base(Len(delivered), InBody), rcvd)'
      BY <2>1 DEF FrameInv, BufferOK
    <3>2. Base(Len(delivered), InBody)' = StreamLen(input, d + 1) + 0
      BY <2>1 DEF Base
    <3>3. StreamLen(input, d + 1) \in Nat
      BY <1>1, StreamFacts
    <3> QED BY <3>1, <3>2, <3>3 DEF Holds
  <2>3. /\ Len(recv_buffer') \in Nat /\ rcvd' \in Nat /\ read_op'.n \in Nat
    BY LenProperties, ConnAssumption, StreamFacts DEF ControlInv, RecvTypeOK, ReadOp
  <2>4. Got' = rcvd'
    <3>1. read_op'.st # "ok"
      BY <2>1 DEF ControlInv, ReadOpShape
    <3> QED BY <3>1 DEF Got
  <2>5. /\ StreamLen(input, d + 1) = StreamLen(input, (d + 1) - 1) + HeaderLen + input[d + 1].len
        /\ StreamLen(input, (d + 1) - 1) \in Nat /\ input[d + 1].len \in Nat
    BY <1>1, StreamLayout, StreamFacts DEF RecvTypeOK
  <2>6. (d + 1) - 1 = d
    BY <1>1
  <2> DEFINE e == StreamLen(input, d)
             f == StreamLen(input, d + 1)
             l == input[d + 1].len
  <2>7. f = e + HeaderLen + l /\ e \in Nat /\ l \in Nat /\ rcvd' = f + Len(recv_buffer')
    BY <2>2, <2>5, <2>6
  <2> HIDE DEF e, f, l, d
  <2>8. Got > e
    BY <1>1, <2>3, <2>4, <2>7, HeaderLenAssumption
  <2> QED BY <2>8 DEF e
<1>3. Len(Replies(d)) <= Len(wire) /\ Len(appended) <= Len(Replies(d))
  <2>1. (d + 1) - 1 = d
    BY <1>1
  <2>2. Got > StreamLen(input, (d + 1) - 1)
    BY <1>2, <2>1
  <2>3. Len(Replies((d + 1) - 1)) <= Len(wire)
    BY <1>1, <2>2 DEF WireInv, Waits
  <2> QED BY <2>1, <2>3 DEF WireInv, Waits
<1>4. /\ Len(Replies(d)) \in Nat /\ Len(Replies(d + 1)) \in Nat
      /\ Len(Replies(d)) <= Len(Replies(d + 1))
  <2>1. d \in 0..(d + 1) /\ d + 1 \in 0..Len(input) /\ d \in 0..Len(input)
    BY <1>1
  <2> QED BY <1>1, <2>1, RepliesFacts
<1>5. wire = appended /\ write_ops = <<>> /\ send_buffer = <<>>
  BY <1>1, <1>3, <1>4, OutputFacts DEF WireInv
<1>6. ~Unanswered
  <2> SUFFICES ASSUME Unanswered PROVE FALSE
    OBVIOUS
  <2>1. Len(appended) <= Len(Replies(d - 1)) /\ d \in 1..Len(input)
    BY <1>1 DEF WireInv, OneUnanswered
  <2>2. /\ Len(Replies(d)) = Len(Replies(d - 1)) + HeaderLen + ReplyLen(d) /\ ReplyLen(d) \in Nat
        /\ Len(Replies(d - 1)) \in Nat
    <3>1. d - 1 \in 0..Len(input)
      BY <1>1, <2>1
    <3> QED BY <1>1, <2>1, <3>1, RepliesFacts, ReplyType
  <2>3. Len(wire) = Len(appended)
    BY <1>5
  <2> HIDE DEF d
  <2> QED BY <1>1, <1>3, <1>4, <2>1, <2>2, <2>3, HeaderLenAssumption
<1>8. OneUnanswered'
  <2>1. queue' = <<>> /\ \A w \in Workers : pc'[w] # "reply"
    BY <1>6 DEF Unanswered
  <2>2. Len(delivered') - 1 = d
    BY <1>1
  <2>3. Replies(Len(delivered) - 1)' = Replies(d)
    BY <2>2 DEF Replies, ReplyLen
  <2> QED BY <1>3, <1>5, <2>1, <2>3 DEF OneUnanswered
<1>9. Waits'
  <2>1. Replies(Len(delivered))' = Replies(d + 1)
    BY DEF Replies, ReplyLen
  <2>2. Len(appended) <= Len(Replies(d + 1))
    BY <1>1, <1>3, <1>4
  <2>3. \A j \in 1..Len(input) : Replies(j - 1)' = Replies(j - 1)
    BY DEF Replies, ReplyLen
  <2> QED BY <2>1, <2>2, <2>3 DEF Waits, WireInv
<1>10. (Whole' \/ Lost') /\ OneWrite'
  BY DEF Whole, Lost, OneWrite, Rest, WireInv
<1> QED BY <1>8, <1>9, <1>10 DEF WireInv

\* The response to the unanswered request is appended, behind nothing.
LEMMA WireAppend ==
  ASSUME ControlInv, FrameInv, SendInv, WireInv, OneBlock, Unanswered,
         SendMax = 0 \/ ReplyLen(Len(delivered)) <= SendMax,
         send_buffer' = BufferAppend(send_buffer, Len(delivered), ReplyLen(Len(delivered))),
         appended' = appended \o NetStr(Len(delivered), ReplyLen(Len(delivered))),
         UNCHANGED <<input, delivered, wire, io_block, write_ops>>, Got' = Got, ~Unanswered'
  PROVE  WireInv'
<1> DEFINE d == Len(delivered)
           msg == NetStr(d, ReplyLen(d))
<1>1. /\ RecvTypeOK /\ Len(input) \in Nat /\ d \in 1..Len(input)
      /\ Len(wire) \in Nat /\ Len(appended) \in Nat
  BY WireFacts
<1>2. /\ wire = appended /\ write_ops = <<>> /\ send_buffer = <<>>
      /\ Len(appended) <= Len(Replies(d - 1))
  BY DEF WireInv, OneUnanswered
<1>3. msg \in Seq(Byte) /\ ReplyLen(d) \in Nat /\ Len(msg) = HeaderLen + ReplyLen(d)
  <2> HIDE DEF d
  <2>1. ReplyLen(d) \in Nat /\ d \in Nat
    BY <1>1, ReplyType
  <2> QED BY <2>1, MessageType
<1>4. HeaderLen + ReplyLen(d) <= BlockLen
  <2>1. input \in Inputs
    BY <1>1 DEF RecvTypeOK
  <2> QED BY <1>1, <2>1 DEF OneBlock, ReplyLen
<1>5. send_buffer' = msg /\ appended' = appended \o msg /\ wire' = appended /\ write_ops' = <<>>
  <2>1. <<>> \o msg = msg
    BY <1>3, ConcatEmptySeq
  <2> HIDE DEF msg
  <2>2. send_buffer' = send_buffer \o msg /\ appended' = appended \o msg
    BY DEF BufferAppend, msg
  <2> QED BY <1>2, <2>1, <2>2
<1>6. Whole' /\ OneWrite'
  <2>1. Rest' = msg
    BY <1>5 DEF Rest
  <2>2. Whole'
    BY <1>5, <2>1 DEF Whole
  <2>3. Len(send_buffer') <= BlockLen /\ Len(write_ops') = 0
    BY <1>3, <1>4, <1>5, EmptySeq
  <2> QED BY <1>5, <2>2, <2>3 DEF OneWrite
<1>7. OneUnanswered'
  BY EmptySeq DEF OneUnanswered, Unanswered
<1>8. Waits'
  <2>1. /\ Len(Replies(d)) = Len(Replies(d - 1)) + HeaderLen + ReplyLen(d)
        /\ Len(Replies(d - 1)) \in Nat
    <3>1. d - 1 \in 0..Len(input)
      BY <1>1
    <3> QED BY <1>1, <3>1, RepliesFacts
  <2>2. Len(appended') = Len(appended) + Len(msg)
    <3>1. appended \in Seq(Byte)
      BY DEF SendInv, SendTypeOK
    <3> HIDE DEF msg
    <3> QED BY <1>3, <1>5, <3>1, ConcatProperties
  <2>3. Len(appended') <= Len(Replies(d))
    <3> HIDE DEF d, msg
    <3> QED BY <1>1, <1>2, <1>3, <2>1, <2>2, HeaderLenAssumption
  <2>4. /\ Replies(Len(delivered))' = Replies(d)
        /\ \A j \in 1..Len(input) : Replies(j - 1)' = Replies(j - 1)
    BY DEF Replies, ReplyLen
  <2> QED BY <2>3, <2>4 DEF Waits, WireInv
<1> QED BY <1>6, <1>7, <1>8 DEF WireInv

\* The unanswered request goes from one place to the next.
LEMMA WirePass ==
  ASSUME ControlInv, FrameInv, SendInv, WireInv, Unanswered,
         UNCHANGED <<input, delivered, wire, appended, send_buffer, io_block, write_ops>>,
         Got' = Got,
         /\ pc'["strand"] = "dispatch" => queue' = <<>> /\ \A w \in Workers : pc'[w] # "reply"
         /\ queue' # <<>> => queue' = <<Len(delivered)>> /\ \A w \in Workers : pc'[w] # "reply"
         /\ \A w \in Workers : pc'[w] = "reply" =>
              job'[w] = Len(delivered) /\ \A v \in Workers : pc'[v] = "reply" => v = w
  PROVE  WireInv'
<1>1. (Whole' \/ Lost') /\ OneWrite'
  BY DEF WireInv, Whole, Lost, OneWrite, Rest
<1>2. OneUnanswered'
  <2>1. /\ wire' = appended' /\ write_ops' = <<>> /\ send_buffer' = <<>>
        /\ Len(appended') <= Len(Replies(Len(delivered) - 1))
    BY DEF WireInv, OneUnanswered
  <2>2. Replies(Len(delivered) - 1)' = Replies(Len(delivered) - 1)
    BY DEF Replies, ReplyLen
  <2> QED BY <2>1, <2>2 DEF OneUnanswered
<1>3. Waits'
  <2>1. /\ Replies(Len(delivered))' = Replies(Len(delivered))
        /\ \A j \in 1..Len(input) : Replies(j - 1)' = Replies(j - 1)
    BY DEF Replies, ReplyLen
  <2> QED BY <2>1 DEF Waits, WireInv
<1> QED BY <1>1, <1>2, <1>3 DEF WireInv

\* Dispatcher::handle_RPC queues the request or has its rejection appended.
LEMMA Wire_Dispatch ==
  ASSUME ControlInv, FrameInv, SendInv, WireInv, OneBlock, Dispatch
  PROVE  WireInv'
<1> USE DEF Dispatch, envVars, connVars, timerVars, recvVars
<1>1. /\ Unanswered /\ queue = <<>> /\ \A w \in Workers : pc[w] # "reply"
      /\ UNCHANGED <<input, delivered, wire, io_block, write_ops, job>> /\ Got' = Got
      /\ "strand" \in Threads /\ \A w \in Workers : w \in Threads /\ w # "strand"
      /\ ControlTypeOK
  BY ConnAssumption DEF Unanswered, WireInv, OneUnanswered, Got, Threads, ControlInv
<1>2. CASE input[Len(delivered)].route = "execute" /\ queue' = Append(queue, Len(delivered))
           /\ Goto("strand", "do_read") /\ UNCHANGED <<send_buffer, appended>>
  <2>1. queue' = <<Len(delivered)>>
    BY <1>1, <1>2
  <2>2. pc'["strand"] # "dispatch" /\ \A w \in Workers : pc'[w] # "reply"
    BY <1>1, <1>2 DEF Goto, ControlTypeOK
  <2> QED BY <1>1, <1>2, <2>1, <2>2, WirePass
<1>3. CASE SendMessage(Len(delivered), ReplyLen(Len(delivered)), "strand", "do_read")
           /\ UNCHANGED queue
  <2>1. pc'["strand"] # "dispatch" /\ \A w \in Workers : pc'[w] # "reply"
    BY <1>1, <1>3 DEF SendMessage, Goto, ControlTypeOK
  <2>2. ~Unanswered'
    BY <1>1, <1>3, <2>1 DEF Unanswered
  <2>3. CASE SendMax # 0 /\ ReplyLen(Len(delivered)) > SendMax
    <3>1. UNCHANGED <<send_buffer, appended>>
      BY <1>3, <2>3 DEF SendMessage
    <3>2. Quiet
      BY <1>1, <1>3, <2>1, <3>1 DEF Quiet
    <3> QED BY <3>2, WireQuiet
  <2>4. CASE ~(SendMax # 0 /\ ReplyLen(Len(delivered)) > SendMax)
    <3>1. ReplyLen(Len(delivered)) \in Nat /\ SendMax \in Nat
      BY <1>1, WireFacts, ReplyType, ConnAssumption
    <3>2. SendMax = 0 \/ ReplyLen(Len(delivered)) <= SendMax
      BY <2>4, <3>1
    <3>3. /\ send_buffer' = BufferAppend(send_buffer, Len(delivered), ReplyLen(Len(delivered)))
          /\ appended' = appended \o NetStr(Len(delivered), ReplyLen(Len(delivered)))
      BY <1>3, <2>4 DEF SendMessage
    <3> QED BY <1>1, <2>2, <3>2, <3>3, WireAppend
  <2> QED BY <2>3, <2>4
<1> QED BY <1>2, <1>3

\* A worker takes the queued request.
LEMMA Wire_Pop ==
  ASSUME ControlInv, FrameInv, SendInv, WireInv, NEW w \in Workers, Pop(w)
  PROVE  WireInv'
<1>1. /\ Unanswered /\ queue = <<Len(delivered)>> /\ \A v \in Workers : pc[v] # "reply"
      /\ pc["strand"] # "dispatch"
      /\ UNCHANGED <<input, delivered, wire, appended, send_buffer, io_block, write_ops>>
      /\ Got' = Got /\ w \in Threads /\ w # "strand" /\ "strand" \in Threads
      /\ \A v \in Workers : v \in Threads
      /\ ControlTypeOK /\ job \in [Workers -> 0..Len(input)]
      /\ pc' = [pc EXCEPT ![w] = "reply"] /\ job' = [job EXCEPT ![w] = Head(queue)]
      /\ queue' = Tail(queue)
  BY ConnAssumption DEF Unanswered, WireInv, OneUnanswered, Got, Threads, ControlInv, Pop, Goto,
     envVars, connVars, timerVars, recvVars, sendVars, SendInv, SendTypeOK
<1>2. queue' = <<>> /\ Head(queue) = Len(delivered)
  BY <1>1
<1>3. /\ pc'["strand"] # "dispatch"
      /\ \A v \in Workers : pc'[v] = "reply" => v = w
      /\ job'[w] = Len(delivered)
  BY <1>1, <1>2 DEF ControlTypeOK
<1> QED BY <1>1, <1>2, <1>3, WirePass

\* reply_rpc_message appends the response, or drops it.
LEMMA Wire_reply ==
  ASSUME ControlInv, FrameInv, SendInv, WireInv, OneBlock, NEW w \in Workers,
         reply_rpc_message(w)
  PROVE  WireInv'
<1> USE DEF reply_rpc_message, envVars, connVars, timerVars, recvVars, rpcVars
<1>1. /\ Unanswered /\ queue = <<>> /\ \A v \in Workers : pc[v] = "reply" => v = w
      /\ pc["strand"] # "dispatch" /\ job[w] = Len(delivered)
      /\ UNCHANGED <<input, delivered, queue, job, wire, io_block, write_ops>> /\ Got' = Got
      /\ w \in Threads /\ w # "strand" /\ "strand" \in Threads
      /\ \A v \in Workers : v \in Threads
      /\ ControlTypeOK
  BY ConnAssumption DEF Unanswered, WireInv, OneUnanswered, Got, Threads, ControlInv
<1>2. pc' \in {[pc EXCEPT ![w] = "idle"], [pc EXCEPT ![w] = "do_write"]}
  BY DEF SendMessage, Goto
<1>3. pc'["strand"] # "dispatch" /\ \A v \in Workers : pc'[v] # "reply"
  BY <1>1, <1>2 DEF ControlTypeOK
<1>4. CASE UNCHANGED <<send_buffer, appended>>
  <2>1. Quiet
    BY <1>1, <1>3, <1>4 DEF Quiet
  <2> QED BY <2>1, WireQuiet
<1>5. CASE SendMessage(job[w], ReplyLen(job[w]), w, "idle")
           /\ ~(SendMax # 0 /\ ReplyLen(job[w]) > SendMax)
  <2>1. ReplyLen(Len(delivered)) \in Nat /\ SendMax \in Nat
    BY <1>1, WireFacts, ReplyType, ConnAssumption
  <2>2. SendMax = 0 \/ ReplyLen(Len(delivered)) <= SendMax
    BY <1>1, <1>5, <2>1
  <2>3. /\ send_buffer' = BufferAppend(send_buffer, Len(delivered), ReplyLen(Len(delivered)))
        /\ appended' = appended \o NetStr(Len(delivered), ReplyLen(Len(delivered)))
    BY <1>1, <1>5 DEF SendMessage
  <2>4. ~Unanswered'
    BY <1>1, <1>3 DEF Unanswered
  <2> QED BY <1>1, <2>2, <2>3, <2>4, WireAppend
<1> QED BY <1>4, <1>5 DEF SendMessage

\* do_write under the lock, and the sending, when no request is unanswered.
LEMMA WireOutput ==
  ASSUME ControlInv, FrameInv, SendInv, WireInv, ~Unanswered', Got' = Got,
         UNCHANGED <<input, delivered, appended>>, Len(wire) <= Len(wire'), Len(wire') \in Nat,
         (Whole' \/ Lost') /\ OneWrite'
  PROVE  WireInv'
<1>1. OneUnanswered'
  BY DEF OneUnanswered, Unanswered
<1>2. RecvTypeOK /\ Len(wire) \in Nat /\ Len(input) \in Nat
  BY WireFacts
<1>3. Waits'
  <2>1. /\ Replies(Len(delivered))' = Replies(Len(delivered))
        /\ \A j \in 1..Len(input) : Replies(j - 1)' = Replies(j - 1)
    BY DEF Replies, ReplyLen
  <2>2. ASSUME NEW j \in 1..Len(input), Got > StreamLen(input, j - 1)
        PROVE  Len(Replies(j - 1)) <= Len(wire')
    <3>1. Len(Replies(j - 1)) <= Len(wire)
      BY <2>2 DEF WireInv, Waits
    <3>2. Len(Replies(j - 1)) \in Nat
      <4>1. j - 1 \in 0..Len(input)
        BY <1>2
      <4> QED BY <1>2, <4>1, RepliesFacts
    <3> QED BY <1>2, <3>1, <3>2
  <2> QED BY <2>1, <2>2 DEF Waits, WireInv
<1> QED BY <1>1, <1>3 DEF WireInv

\* do_write under the lock.
LEMMA Wire_DoWriteLocked ==
  ASSUME ControlInv, FrameInv, SendInv, WireInv, NEW t \in Threads, DoWriteLocked(t)
  PROVE  WireInv'
<1> USE DEF envVars, connVars, recvVars, rpcVars
<1>1. /\ UNCHANGED <<input, delivered, queue, job, wire, appended>> /\ Got' = Got
  BY DEF DoWriteLocked, Got
<1>2. /\ pc'["strand"] = "dispatch" => pc["strand"] = "dispatch"
      /\ \A w \in Workers : pc'[w] = "reply" => pc[w] = "reply"
  BY DEF DoWriteLocked, Return, Goto, ControlInv, ControlTypeOK, Threads
<1>3. CASE send_buffer = <<>>
  <2>1. UNCHANGED <<send_buffer, io_block, write_ops>>
    BY <1>3 DEF DoWriteLocked
  <2>2. Quiet
    BY <1>1, <1>2, <2>1 DEF Quiet
  <2> QED BY <2>2, WireQuiet
<1>4. CASE send_buffer # <<>>
  <2>1. ~Unanswered'
    BY <1>1, <1>2, <1>4 DEF Unanswered, WireInv, OneUnanswered
  <2>2. (Whole' \/ Lost') /\ OneWrite'
    BY <1>4, OutputLocked DEF WireInv
  <2>3. Len(wire) \in Nat
    BY WireFacts
  <2>4. Len(wire') \in Nat /\ Len(wire) <= Len(wire')
    BY <1>1, <2>3
  <2> QED BY <1>1, <2>1, <2>2, <2>4, WireOutput
<1> QED BY <1>3, <1>4

\* Bytes go out.
LEMMA Wire_Transmit ==
  ASSUME ControlInv, FrameInv, SendInv, SendInv', WireInv, Transmit
  PROVE  WireInv'
<1>1. /\ UNCHANGED <<input, delivered, queue, job, appended, pc>> /\ Got' = Got
      /\ write_ops # <<>>
  BY DEF Transmit, Got, envVars, connVars, timerVars, recvVars, rpcVars, sendVars
<1>2. ~Unanswered'
  BY <1>1 DEF Unanswered, WireInv, OneUnanswered
<1>3. (Whole' \/ Lost') /\ OneWrite' /\ Len(wire) <= Len(wire')
  BY OutputTransmit DEF WireInv
<1>4. Len(wire') \in Nat
  BY LenProperties DEF SendInv, SendTypeOK
<1> QED BY <1>1, <1>2, <1>3, <1>4, WireOutput

\* The steps of the strand that are quiet.
LEMMA Quiet_strand ==
  ASSUME ControlInv, SendInv,
         \/ start \/ do_read \/ ArmHead \/ ArmBody \/ ReadHandlerEc \/ read_handler
         \/ write_handler \/ WriteHandlerEc
         \/ (do_read_msg \/ read_msg_handler) /\ pc'["strand"] # "dispatch"
  PROVE  Quiet
<1> USE ConnAssumption DEF ControlInv, ControlTypeOK, Threads, Goto, Quiet, Got, NoRead,
        envVars, connVars, timerVars, recvVars, rpcVars, sendVars
<1>1. CASE start \/ write_handler
  BY <1>1 DEF start, write_handler
<1>2. CASE do_read
  BY <1>2 DEF do_read, ParseHeader
<1>3. CASE ArmHead
  BY <1>3 DEF ArmHead, StartRead, OneReadChain, InReadChain, ReadOpShape
<1>4. CASE ArmBody
  BY <1>4 DEF ArmBody, StartRead, OneReadChain, InReadChain, ReadOpShape
<1>5. CASE ReadHandlerEc
  <2>1. /\ UNCHANGED <<input, delivered, queue, job, wire, appended, send_buffer, io_block, rcvd>>
        /\ write_ops' \in {write_ops, <<>>} /\ pc'["strand"] \in {"idle", "close"}
        /\ \A w \in Workers : pc'[w] = pc[w]
    BY <1>5 DEF ReadHandlerEc, handle_socket_ec, ops_cancel, AbortOps
  <2>2. read_op'.st # "ok"
    <3>1. NoRead.st = "none"
      OBVIOUS
    <3> QED BY <1>5, <3>1 DEF ReadHandlerEc, handle_socket_ec, ops_cancel, AbortOps
  <2>3. Got' = Got
    BY <1>5, <2>1, <2>2 DEF ReadHandlerEc
  <2> QED BY <2>1, <2>3
<1>6. CASE read_handler
  <2>1. /\ UNCHANGED <<input, delivered, queue, job, wire, appended, send_buffer, io_block, write_ops>>
        /\ Got' = Got
    BY <1>6 DEF read_handler
  <2>2. pc'["strand"] # "dispatch" /\ \A w \in Workers : pc'[w] = pc[w]
    BY <1>6 DEF read_handler, ParseHeader
  <2> QED BY <2>1, <2>2
<1>7. CASE WriteHandlerEc
  <2>1. /\ UNCHANGED <<input, delivered, queue, job, wire, appended, send_buffer, io_block, rcvd>>
        /\ write_ops' \in {write_ops, <<>>} /\ pc'["strand"] \in {"idle", "close"}
        /\ \A w \in Workers : pc'[w] = pc[w]
    BY <1>7 DEF WriteHandlerEc, handle_socket_ec, ops_cancel, AbortOps
  <2>2. /\ read_op'.st = "ok" <=> read_op.st = "ok"
        /\ read_op'.n = read_op.n
    <3>1. Tail(write_done) \in Seq(WriteEc)
      BY <1>7, HeadTailProperties DEF WriteHandlerEc
    <3>2. AbortOps(read_op, Tail(write_done)) \/ read_op' = read_op
      BY <1>7 DEF WriteHandlerEc, handle_socket_ec, ops_cancel
    <3> QED BY <3>1, <3>2, AbortFacts DEF RecvTypeOK
  <2> QED BY <2>1, <2>2
<1>8. CASE do_read_msg /\ pc'["strand"] # "dispatch"
  BY <1>8 DEF do_read_msg, ParseMsgBody
<1>9. CASE read_msg_handler /\ pc'["strand"] # "dispatch"
  <2>1. /\ UNCHANGED <<input, queue, job, wire, appended, send_buffer, io_block, write_ops>>
        /\ Got' = Got
    BY <1>9 DEF read_msg_handler
  <2>2. UNCHANGED delivered /\ \A w \in Workers : pc'[w] = pc[w]
    BY <1>9 DEF read_msg_handler, ParseMsgBody
  <2> QED BY <1>9, <2>1, <2>2
<1> QED BY <1>1, <1>2, <1>3, <1>4, <1>5, <1>6, <1>7, <1>8, <1>9

\* The other quiet steps.
LEMMA Quiet_others ==
  ASSUME ControlInv, SendInv, OneWrite,
         \/ ReadFail \/ WriteFail \/ ops_cancel_timeout_call \/ TimerExpire \/ UpdateTimeOut
         \/ PeerDown \/ UNCHANGED vars
         \/ \E t \in Threads : DoWriteTest(t) \/ sock_shutdown_and_close(t)
  PROVE  Quiet
<1> USE ConnAssumption DEF ControlInv, ControlTypeOK, Threads, Goto, Quiet, Got,
        envVars, connVars, timerVars, recvVars, rpcVars, sendVars
<1>a. AbortOps(read_op, write_done) => /\ read_op'.st = "ok" <=> read_op.st = "ok"
                                       /\ read_op'.n = read_op.n /\ write_ops' = <<>>
  BY AbortFacts DEF RecvTypeOK
<1>1. CASE ReadFail
  <2>1. read_op.st # "ok" /\ read_op'.st # "ok"
    BY <1>1 DEF ReadFail, RecvTypeOK, ReadOp
  <2> QED BY <1>1, <2>1 DEF ReadFail
<1>2. CASE WriteFail
  <2>1. write_ops' = <<>>
    <3>1. /\ Len(write_ops) \in Nat \ {0} /\ Len(write_ops) <= 1
          /\ Tail(write_ops) \in Seq(WriteOp) /\ Len(Tail(write_ops)) = Len(write_ops) - 1
      BY <1>2, EmptySeq, HeadTailProperties DEF WriteFail, OneWrite
    <3>2. Len(Tail(write_ops)) = 0
      <4> DEFINE n == Len(write_ops)
      <4>1. n \in Nat \ {0} /\ n <= 1 /\ Len(Tail(write_ops)) = n - 1
        BY <3>1
      <4> HIDE DEF n
      <4> QED BY ONLY <4>1
    <3> QED BY <1>2, <3>1, <3>2, EmptySeq DEF WriteFail
  <2> QED BY <1>2, <2>1 DEF WriteFail
<1>3. CASE ops_cancel_timeout_call
  BY <1>3, <1>a DEF ops_cancel_timeout_call, ops_cancel
<1>4. CASE TimerExpire \/ UpdateTimeOut \/ PeerDown \/ UNCHANGED vars
  BY <1>4 DEF TimerExpire, UpdateTimeOut, PeerDown, vars
<1>5. ASSUME NEW t \in Threads, DoWriteTest(t) PROVE Quiet
  <2>1. UNCHANGED <<input, delivered, queue, job, wire, appended, send_buffer, io_block, write_ops,
                    rcvd, read_op>>
    BY <1>5 DEF DoWriteTest
  <2>2. /\ pc'["strand"] = "dispatch" => pc["strand"] = "dispatch"
        /\ \A w \in Workers : pc'[w] = "reply" => pc[w] = "reply"
    BY <1>5 DEF DoWriteTest, Return
  <2> QED BY <2>1, <2>2
<1>6. ASSUME NEW t \in Threads, sock_shutdown_and_close(t) PROVE Quiet
  BY <1>6, <1>a DEF sock_shutdown_and_close
<1> QED BY <1>1, <1>2, <1>3, <1>4, <1>5, <1>6

\* parse_msg_body hands a request on.
LEMMA Wire_deliver ==
  ASSUME ControlInv, FrameInv, SendInv, WireInv, ControlInv', FrameInv',
         do_read_msg \/ read_msg_handler, pc'["strand"] = "dispatch"
  PROVE  WireInv'
<1> USE DEF Goto, envVars, connVars, timerVars, recvVars, rpcVars, sendVars
<1>1. /\ UNCHANGED <<input, queue, job, wire, appended, send_buffer, io_block, write_ops>>
      /\ Got' = Got
  BY DEF do_read_msg, read_msg_handler, Got, NoRead
<1>2. /\ \A w \in Workers : pc'[w] = pc[w]
      /\ \E buf : delivered' = Append(delivered, buf)
  BY ConnAssumption DEF do_read_msg, read_msg_handler, ParseMsgBody, ControlInv, ControlTypeOK, Threads
<1>3. Len(delivered') = Len(delivered) + 1
  <2>1. delivered \in Seq(Seq(Byte))
    BY DEF FrameInv, DeliveredOK
  <2> QED BY <1>2, <2>1
<1> QED BY <1>1, <1>2, <1>3, WireDeliver

\* Every step keeps WireInv.
LEMMA WireStep ==
  ASSUME Pipelined = {}, OneBlock
  PROVE  ControlInv /\ FrameInv /\ SendInv /\ ControlInv' /\ FrameInv' /\ SendInv'
           /\ WireInv /\ [Next]_vars => WireInv'
<1> SUFFICES ASSUME ControlInv, FrameInv, SendInv, ControlInv', FrameInv', SendInv', WireInv,
                    [Next]_vars
             PROVE  WireInv'
  OBVIOUS
<1>1. CASE Quiet
  BY <1>1, WireQuiet
<1>2. CASE Strand
  BY <1>1, <1>2, Quiet_strand, Wire_deliver, Wire_Dispatch DEF Strand
<1>3. CASE Network
  BY <1>1, <1>3, Quiet_others, Wire_ReadComplete, Wire_Transmit DEF Network, WireInv
<1>4. CASE \E w \in Workers : Worker(w)
  BY <1>4, Wire_Pop, Wire_reply DEF Worker
<1>5. CASE \E t \in Threads : DoWriteTest(t) \/ DoWriteLocked(t) \/ sock_shutdown_and_close(t)
  BY <1>1, <1>5, Quiet_others, Wire_DoWriteLocked DEF WireInv
<1>6. CASE ops_cancel_timeout_call \/ TimerExpire \/ UpdateTimeOut \/ PeerDown \/ UNCHANGED vars
  BY <1>1, <1>6, Quiet_others DEF WireInv
<1> QED BY <1>2, <1>3, <1>4, <1>5, <1>6 DEF Next

\* WireInv holds at the start: nothing has been sent in either direction.
LEMMA WireInit == Init => WireInv
<1> SUFFICES ASSUME Init PROVE WireInv
  OBVIOUS
<1>1. /\ wire = <<>> /\ appended = <<>> /\ send_buffer = <<>> /\ write_ops = <<>>
      /\ queue = <<>> /\ delivered = <<>> /\ rcvd = 0 /\ Got = 0
      /\ pc["strand"] # "dispatch" /\ \A w \in Workers : pc[w] # "reply"
  BY DEF Init, Got, NoRead, Threads
<1>2. Whole /\ OneWrite
  BY <1>1, EmptySeq, ConcatEmptySeq, ConnAssumption DEF Whole, Rest, OneWrite
<1>3. OneUnanswered
  BY <1>1 DEF OneUnanswered, Unanswered
<1>4. RecvTypeOK
  BY ControlInit DEF ControlInv
<1>5. Replies(0) = <<>> /\ Len(delivered) = 0 /\ Len(appended) = 0
  BY <1>1, <1>4, RepliesFacts, EmptySeq
<1>6. \A k \in 1..Len(input) : ~(Got > StreamLen(input, k - 1))
  <2> TAKE k \in 1..Len(input)
  <2>1. k - 1 \in 0..Len(input)
    BY <1>4, StreamFacts
  <2>2. StreamLen(input, k - 1) \in Nat
    BY <1>4, <2>1, StreamFacts
  <2> QED BY <1>1, <2>2
<1>7. Len(Replies(Len(delivered))) = 0
  BY <1>5, EmptySeq
<1>8. Waits
  BY <1>5, <1>6, <1>7 DEF Waits
<1> QED BY <1>2, <1>3, <1>8 DEF WireInv

\* Where the peer waits for its responses and every response fits into one block,
\* the responses reach the network whole and in order, whatever send_status_ says
\* when a thread tests it and whatever the timers abort: the writes do overlap in
\* do_write, but never with bytes in io_block_ that are still to be sent.
THEOREM WireSafe ==
  ASSUME Pipelined = {}, OneBlock
  PROVE  Spec => []WireIntact
<1>1. Init => WireInv /\ SendInv
  BY WireInit, SendInit
<1>2. ControlInv /\ FrameInv /\ FrameInv' /\ SendInv /\ [Next]_vars => SendInv'
  BY SendStep
<1>3. ControlInv /\ FrameInv /\ SendInv /\ ControlInv' /\ FrameInv' /\ SendInv'
        /\ WireInv /\ [Next]_vars => WireInv'
  BY WireStep
<1>4. ControlInv /\ SendInv /\ WireInv => WireIntact
  BY OutputFacts DEF WireInv, WireIntact
<1> QED BY <1>1, <1>2, <1>3, <1>4, ControlSafe, FrameSafe, PTL DEF Spec
=============================================================================
