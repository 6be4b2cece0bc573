------------------------ MODULE RpcClientAsyncProofs ------------------------
(***************************************************************************)
(* Proofs about RpcClientAsync, for every set of scripts, every header and *)
(* block size and every limit.  ReadInv and WriteInv speak of one          *)
(* connection; a step changes at most one of them (PutStep), apart from    *)
(* the caller's and the timer's.                                           *)
(***************************************************************************)
EXTENDS RpcClientAsync, BufferProofs

WriteOp == [len : Nat, pos : Nat]
WriteEc == {"ok", "aborted", "error"}
Called == [status : {"OK", "RECV_FORMAT_ERROR"} \cup Kinds, rsp : Seq(Byte)]

ConnRec ==
  [stat : {"kWorking", "kClosed"},
   pc : {"idle", "do_read", "do_read_msg", "do_write", "write_lock"},
   recv_buffer : Seq(Byte), recv_header : [magic : BOOLEAN, len : Nat],
   read_op : ReadOp, rcvd : Nat,
   send_buffer : Seq(Byte), io_block : Seq(Byte), send_status : {"kSend", "kDone"},
   write_ops : Seq(WriteOp), write_done : Seq(WriteEc),
   peer_up : BOOLEAN, requests : Seq(Ids), wire : Seq(Byte), answers : Seq(Ids),
   called : Seq(Called)]

\* The connection reads or is about to; it has consumed a header.
Chain == {"do_read", "do_read_msg"}
Active(r) == r.pc \in Chain \/ r.read_op.kind # "none"
InBody(r) == r.pc = "do_read_msg" \/ r.read_op.kind = "body"

\* The responses on the connection, and where the k-th ends.
Parts(r) == [i \in 1..Len(r.answers) |-> NetStr(r.answers[i], calls[r.answers[i]].reply)]
End(r, k) == Offset(Parts(r), k)

\* The byte of the stream in front of recv_bound_.buffer_.
Base(r) == IF InBody(r) THEN End(r, Len(r.called)) + HeaderLen ELSE End(r, Len(r.called))

\* One read at a time; one is aborted only when the socket is closed; and a
\* completed read lies within what the server has sent.
ReadShape(r) ==
  /\ r.read_op.kind = "none" <=> r.read_op.st = "none"
  /\ ~(r.read_op.kind # "none" /\ r.pc \in Chain)
  /\ r.read_op.st = "aborted" => r.stat = "kClosed"
  /\ r.rcvd <= Len(Stream(r))
  /\ r.read_op.st = "ok" => r.rcvd + r.read_op.n <= Len(Stream(r))

\* What is buffered is the next part of the stream, and the header consumed is
\* that of the next response.
FrameInv(r) ==
  /\ Len(r.called) <= Len(r.answers)
  /\ \A i \in 1..Len(r.called) : r.called[i] = Outcome(r.answers[i])
  /\ Active(r) => HoldsPart(r.recv_buffer, Stream(r), Base(r), r.rcvd)
  /\ InBody(r) => /\ Len(r.called) < Len(r.answers)
                  /\ r.recv_header = [magic |-> TRUE,
                                      len |-> calls[r.answers[Len(r.called) + 1]].reply]

\* The server has the numbers of the requests from calls that were made.
IdsMade(r) ==
  /\ \A i \in 1..Len(r.answers) : r.answers[i] \in 1..Len(calls)
  /\ \A i \in 1..Len(r.requests) : r.requests[i] \in 1..Len(calls)

ReadSafe(r) == ReadShape(r) /\ FrameInv(r) /\ IdsMade(r)

\* All that holds of a connection's read chain, which stops only when it is closed.
ReadInv(r) == ReadSafe(r) /\ (r.stat = "kWorking" => Active(r))

\* The writes lie within io_block_, and are aborted only when the socket is closed.
WriteSafe(r) ==
  /\ Len(r.io_block) <= BlockLen
  /\ \A i \in 1..Len(r.write_ops) :
       r.write_ops[i].pos < r.write_ops[i].len /\ r.write_ops[i].len <= Len(r.io_block)
  /\ \A i \in 1..Len(r.write_done) : r.write_done[i] = "aborted" => r.stat = "kClosed"

\* On a working connection send_status_ is kSend only while a write is out, and
\* nothing buffered is forgotten; writing: the caller is about to write on it.
WriteInv(r, writing) ==
  /\ WriteSafe(r)
  /\ r.send_status = "kSend" /\ r.stat = "kWorking" =>
       r.write_ops # <<>> \/ r.write_done # <<>>
  /\ r.stat = "kWorking" /\ r.send_buffer # <<>> =>
       \/ r.write_ops # <<>> \/ r.write_done # <<>>
       \/ r.pc \in {"do_write", "write_lock"} \/ writing

\* The caller is in do_write on connection c.
Writing(c) == conn = c /\ pc \in {"do_write", "write_lock"}

ClientTypeOK ==
  /\ calls \in Seq(Calls) /\ Len(calls) <= MaxCalls
  /\ pc \in {"idle", "arm", "send", "do_write", "write_lock", "failed", "error"}
  /\ conns \in Seq(ConnRec)
  /\ conn \in 0..Len(conns) /\ (pc \notin {"idle", "error"} => conn # 0)
  /\ pc # "idle" => calls # <<>>
  /\ was_timeout \in BOOLEAN /\ closing \in BOOLEAN /\ crashed \in BOOLEAN
  /\ timer \in 0..Len(calls) /\ expired \in Nat
  /\ result \in [Ids -> {"none", "OK", "NETWORK_CONNECT_ERROR", "NETWORK_SEND_ERROR",
                         "RPC_CALL_TIMEOUT"}]
  /\ on \in [Ids -> 0..Len(conns)]

\* The caller gives up on a connection that is closed, or on a request too long.
GivesUpClosed ==
  pc = "failed" => conns[conn].stat = "kClosed" \/ Oversize(calls[Len(calls)])

AllRead == \A c \in 1..Len(conns) : ReadInv(conns[c])
AllWrite == \A c \in 1..Len(conns) : WriteInv(conns[c], Writing(c))

AsyncInv == ClientTypeOK /\ AllRead /\ AllWrite /\ GivesUpClosed /\ LetGoIsClosed

-----------------------------------------------------------------------------
\* A step that makes no call: what holds of a record holds of the connection it is
\* put into.
LEMMA PutInv ==
  ASSUME calls' = calls, NEW c, NEW s, conns'[c] = s, ReadInv(s)
  PROVE  ReadInv(conns[c])'
  BY DEF ReadInv, ReadSafe, ReadShape, FrameInv, IdsMade, Active, InBody, Base, End, Parts, Stream,
         Outcome

\* The fields of a connection.
LEMMA ConnFields ==
  ASSUME NEW r \in ConnRec
  PROVE  /\ r.recv_buffer \in Seq(Byte) /\ r.rcvd \in Nat
         /\ r.recv_header \in [magic : BOOLEAN, len : Nat]
         /\ r.read_op \in ReadOp /\ r.read_op.n \in Nat
         /\ r.send_buffer \in Seq(Byte) /\ r.io_block \in Seq(Byte)
         /\ r.write_ops \in Seq(WriteOp) /\ r.write_done \in Seq(WriteEc)
         /\ r.requests \in Seq(Ids) /\ r.answers \in Seq(Ids) /\ r.wire \in Seq(Byte)
         /\ r.called \in Seq(Called)
         /\ r.stat \in {"kWorking", "kClosed"} /\ r.peer_up \in BOOLEAN
         /\ r.pc \in {"idle", "do_read", "do_read_msg", "do_write", "write_lock"}
         /\ r.send_status \in {"kSend", "kDone"}
  BY AsyncAssumption DEF ConnRec, ReadOp

\* The responses on a connection: where each lies in the stream.
LEMMA StreamFacts ==
  ASSUME NEW r \in ConnRec, IdsMade(r), calls \in Seq(Calls)
  PROVE  /\ Stream(r) \in Seq(Byte)
         /\ End(r, 0) = 0 /\ End(r, Len(r.answers)) = Len(Stream(r))
         /\ \A k \in 0..Len(r.answers) : End(r, k) \in 0..Len(Stream(r))
         /\ \A k \in 1..Len(r.answers) :
              /\ End(r, k) = End(r, k - 1) + HeaderLen + calls[r.answers[k]].reply
              /\ \A i \in 1..(HeaderLen + calls[r.answers[k]].reply) :
                   Stream(r)[End(r, k - 1) + i] = <<r.answers[k], i>>
<1> DEFINE ss == Parts(r)
           rep(k) == calls[r.answers[k]].reply
<1>1. Len(r.answers) \in Nat /\ Len(calls) \in Nat
  BY ConnFields, LenProperties
<1>2. ASSUME NEW k \in 1..Len(r.answers)
      PROVE  /\ NetStr(r.answers[k], rep(k)) \in Seq(Byte)
             /\ Len(NetStr(r.answers[k], rep(k))) = HeaderLen + rep(k)
             /\ rep(k) \in Nat \ {0} /\ r.answers[k] \in Nat
             /\ \A i \in 1..(HeaderLen + rep(k)) :
                  NetStr(r.answers[k], rep(k))[i] = <<r.answers[k], i>>
  <2>1. r.answers[k] \in 1..Len(calls)
    BY DEF IdsMade
  <2>2. calls[r.answers[k]] \in Calls
    BY <2>1, ElementOfSeq
  <2>3. rep(k) \in Nat \ {0} /\ r.answers[k] \in Nat
    BY <1>1, <2>1, <2>2 DEF Calls
  <2> HIDE DEF rep
  <2> QED BY <2>3, MessageType
<1>3. /\ ss \in Seq(Seq(Byte)) /\ Len(ss) = Len(r.answers)
      /\ \A k \in 1..Len(r.answers) : ss[k] = NetStr(r.answers[k], rep(k))
  BY <1>1, <1>2 DEF Parts
<1>4. Stream(r) = FlattenSeq(ss)
  BY DEF Stream, Parts
<1>5. \A k \in 1..Len(r.answers) :
        Len(ss[k]) = HeaderLen + rep(k) /\ rep(k) \in Nat
        /\ \A i \in 1..(HeaderLen + rep(k)) : ss[k][i] = <<r.answers[k], i>>
  BY <1>2, <1>3
<1> HIDE DEF ss
<1>6. /\ FlattenSeq(ss) \in Seq(Byte)
      /\ Offset(ss, 0) = 0 /\ Offset(ss, Len(ss)) = Len(FlattenSeq(ss))
      /\ \A k \in 0..Len(ss) : Offset(ss, k) \in 0..Len(FlattenSeq(ss))
      /\ \A k \in 1..Len(ss) :
           /\ Offset(ss, k) = Offset(ss, k - 1) + Len(ss[k])
           /\ \A i \in 1..Len(ss[k]) : FlattenSeq(ss)[Offset(ss, k - 1) + i] = ss[k][i]
  BY <1>3, FlattenParts
<1>7. /\ Stream(r) \in Seq(Byte)
      /\ Offset(ss, 0) = 0 /\ Offset(ss, Len(r.answers)) = Len(Stream(r))
      /\ \A k \in 0..Len(r.answers) : Offset(ss, k) \in 0..Len(Stream(r))
      /\ \A k \in 1..Len(r.answers) :
           /\ Offset(ss, k) = Offset(ss, k - 1) + Len(ss[k])
           /\ \A i \in 1..Len(ss[k]) : Stream(r)[Offset(ss, k - 1) + i] = ss[k][i]
  <2>1. Len(ss) = Len(r.answers) /\ FlattenSeq(ss) = Stream(r)
    BY <1>3, <1>4
  <2> QED BY ONLY <1>6, <2>1
<1>8. \A k : End(r, k) = Offset(ss, k)
  BY DEF End, ss
<1>9. Len(Stream(r)) \in Nat
  BY <1>7, LenProperties
<1>10. ASSUME NEW k \in 1..Len(r.answers)
       PROVE  /\ End(r, k) = End(r, k - 1) + HeaderLen + rep(k)
              /\ \A i \in 1..(HeaderLen + rep(k)) :
                   Stream(r)[End(r, k - 1) + i] = <<r.answers[k], i>>
  <2>1. k - 1 \in 0..Len(r.answers)
    BY <1>1
  <2>2. Offset(ss, k - 1) \in Nat
    BY <1>7, <1>9, <2>1
  <2>3. Offset(ss, k) = Offset(ss, k - 1) + (HeaderLen + rep(k)) /\ rep(k) \in Nat
    BY <1>5, <1>7
  <2> HIDE DEF rep
  <2>4. End(r, k) = End(r, k - 1) + HeaderLen + rep(k)
    BY <1>8, <2>2, <2>3, HeaderLenAssumption
  <2>5. \A i \in 1..(HeaderLen + rep(k)) :
          Stream(r)[Offset(ss, k - 1) + i] = <<r.answers[k], i>>
    BY <1>5, <1>7
  <2> QED BY <1>8, <2>4, <2>5
<1> QED BY <1>7, <1>8, <1>10

-----------------------------------------------------------------------------
\* Between r and s no byte is read or consumed, no response comes and no read is
\* started; a read that was pending may have failed, or the socket been closed.
ReadKept(r, s) ==
  /\ s.recv_buffer = r.recv_buffer /\ s.recv_header = r.recv_header /\ s.rcvd = r.rcvd
  /\ s.answers = r.answers /\ s.called = r.called /\ s.requests = r.requests
  /\ s.read_op.kind = r.read_op.kind /\ s.read_op.n = r.read_op.n
  /\ (s.read_op.st = "none" <=> r.read_op.st = "none")
  /\ s.read_op.st = "ok" => r.read_op.st = "ok"
  /\ s.read_op.st = "aborted" => s.stat = "kClosed"
  /\ s.stat = "kWorking" => r.stat = "kWorking"
  /\ (s.pc \in Chain <=> r.pc \in Chain)
  /\ (s.pc = "do_read_msg" <=> r.pc = "do_read_msg")

\* Such a step keeps the read chain in order.
LEMMA ReadKeeps ==
  ASSUME NEW r, NEW s, ReadSafe(r), ReadKept(r, s)
  PROVE  ReadSafe(s) /\ (ReadInv(r) => ReadInv(s))
<1>1. Stream(s) = Stream(r) /\ \A k : End(s, k) = End(r, k)
  BY DEF ReadKept, Stream, End, Parts
<1>2. (Active(s) <=> Active(r)) /\ (InBody(s) <=> InBody(r))
  BY DEF ReadKept, Active, InBody
<1>3. Base(s) = Base(r)
  BY <1>1, <1>2 DEF ReadKept, Base
<1>4. ReadShape(s)
  BY <1>1, <1>2 DEF ReadKept, ReadSafe, ReadShape
<1>5. FrameInv(s)
  BY <1>1, <1>2, <1>3 DEF ReadKept, ReadSafe, FrameInv
<1>6. IdsMade(s)
  BY DEF ReadKept, ReadSafe, IdsMade
<1> QED BY <1>2, <1>4, <1>5, <1>6 DEF ReadInv, ReadSafe, ReadKept

\* sock_shutdown_and_close: both halves of the invariant survive it.
LEMMA ShutFacts ==
  ASSUME NEW r \in ConnRec
  PROVE  /\ Shut(r) \in ConnRec /\ Shut(r).stat = "kClosed" /\ Shut(r).pc = r.pc
         /\ ReadSafe(r) => ReadInv(Shut(r))
         /\ WriteSafe(r) => \A w \in BOOLEAN : WriteInv(Shut(r), w)
<1> DEFINE s == Shut(r)
           ab == [i \in 1..Len(r.write_ops) |-> "aborted"]
           rop == [r.read_op EXCEPT !.st = IF @ = "pending" THEN "aborted" ELSE @]
<1>1. CASE r.stat = "kClosed"
  BY <1>1 DEF Shut, ReadInv, WriteInv
<1>2. CASE r.stat # "kClosed"
  <2>1. Len(r.write_ops) \in Nat
    BY ConnFields, LenProperties
  <2>2. ab \in Seq(WriteEc)
    BY <2>1 DEF WriteEc
  <2>3. /\ rop \in ReadOp /\ rop.kind = r.read_op.kind /\ rop.n = r.read_op.n
        /\ (rop.st = "none" <=> r.read_op.st = "none")
        /\ (rop.st = "ok" <=> r.read_op.st = "ok")
    BY ConnFields DEF ReadOp
  <2>4. s = [r EXCEPT !.stat = "kClosed", !.read_op = rop, !.write_done = @ \o ab,
                      !.write_ops = <<>>]
    BY <1>2 DEF Shut
  <2> HIDE DEF ab, rop, s
  <2>5. r.write_done \o ab \in Seq(WriteEc)
    BY <2>2, ConnFields
  <2>6. s \in ConnRec
    <3> DEFINE done == r.write_done \o ab
               none == <<>>
    <3>1. s = [r EXCEPT !.stat = "kClosed", !.read_op = rop, !.write_done = done,
                        !.write_ops = none]
      BY <2>4 DEF ConnRec
    <3>2. done \in Seq(WriteEc) /\ none \in Seq(WriteOp)
      BY <2>5
    <3> HIDE DEF done, none
    <3> QED BY <2>3, <3>1, <3>2 DEF ConnRec
  <2>7. /\ s.stat = "kClosed" /\ s.read_op = rop /\ s.write_ops = <<>> /\ s.pc = r.pc
        /\ s.recv_buffer = r.recv_buffer /\ s.recv_header = r.recv_header
        /\ s.rcvd = r.rcvd /\ s.answers = r.answers /\ s.called = r.called
        /\ s.requests = r.requests /\ s.io_block = r.io_block
    BY <2>4 DEF ConnRec
  <2>8. ReadKept(r, s)
    BY <2>3, <2>7 DEF ReadKept
  <2>9. ASSUME NEW w \in BOOLEAN, WriteSafe(r) PROVE WriteInv(s, w)
    BY <2>7, <2>9 DEF WriteInv, WriteSafe
  <2> QED BY <2>6, <2>7, <2>8, <2>9, ReadKeeps DEF s, ReadInv
<1> QED BY <1>1, <1>2

\* A connection between two reads that has consumed b bytes of the stream.
Framed(r, b) ==
  /\ r.read_op.kind = "none" /\ r.read_op.st = "none" /\ IdsMade(r)
  /\ Len(r.called) <= Len(r.answers)
  /\ \A i \in 1..Len(r.called) : r.called[i] = Outcome(r.answers[i])
  /\ r.rcvd <= Len(Stream(r))
  /\ HoldsPart(r.recv_buffer, Stream(r), b, r.rcvd)

\* It expects a header, or the body of a header that it has.
AtHeader(r) == Framed(r, End(r, Len(r.called)))
AtBody(r) ==
  /\ Framed(r, End(r, Len(r.called)) + HeaderLen)
  /\ Len(r.called) < Len(r.answers)
  /\ r.recv_header = [magic |-> TRUE, len |-> calls[r.answers[Len(r.called) + 1]].reply]

\* async_recv_wrapper calls the handler with what the server has answered.
LEMMA WrapperCorrect ==
  ASSUME calls \in Seq(Calls), NEW n \in 1..Len(calls)
  PROVE  /\ async_recv_wrapper(Payload(n, calls[n].reply)) = Outcome(n)
         /\ Outcome(n) \in Called
<1> DEFINE pay == Payload(n, calls[n].reply)
           whose == {m \in 1..Len(calls) : pay = Payload(m, calls[m].reply)}
<1>1. Len(calls) \in Nat /\ \A m \in 1..Len(calls) : calls[m] \in Calls
  BY LenProperties, ElementOfSeq
<1>2. \A m \in 1..Len(calls) : calls[m].reply \in Nat \ {0} /\ calls[m].kind \in Kinds
  BY <1>1 DEF Calls
<1>3. ASSUME NEW m \in 1..Len(calls), pay = Payload(m, calls[m].reply) PROVE m = n
  <2>1. 1 \in 1..calls[n].reply /\ 1 \in 1..calls[m].reply
    BY <1>2
  <2>2. pay[1] = <<n, HeaderLen + 1>> /\ Payload(m, calls[m].reply)[1] = <<m, HeaderLen + 1>>
    BY <2>1 DEF Payload
  <2> QED BY <1>3, <2>2
<1>4. whose = {n}
  BY <1>3
<1>5. pay \in Seq(Byte)
  <2>1. n \in Nat /\ calls[n].reply \in Nat
    BY <1>1, <1>2
  <2> QED BY <2>1, MessageType
<1> HIDE DEF pay
<1>6. async_recv_wrapper(pay) =
        CASE \E m \in whose : calls[m].kind = "served" -> [status |-> "OK", rsp |-> pay]
          [] \E m \in whose : calls[m].kind # "served" ->
               [status |-> calls[CHOOSE m \in whose : TRUE].kind, rsp |-> <<>>]
          [] whose = {} -> [status |-> "RECV_FORMAT_ERROR", rsp |-> <<>>]
  BY DEF async_recv_wrapper
<1>7. (CHOOSE m \in whose : TRUE) = n
  BY <1>4
<1> HIDE DEF whose
<1>8. async_recv_wrapper(pay) = Outcome(n)
  <2>1. CASE calls[n].kind = "served"
    BY <1>4, <1>6, <2>1 DEF Outcome, pay
  <2>2. CASE calls[n].kind # "served"
    BY <1>4, <1>6, <1>7, <2>2 DEF Outcome
  <2> QED BY <2>1, <2>2
<1>9. Outcome(n) \in Called
  <2>1. <<>> \in Seq(Byte)
    OBVIOUS
  <2> QED BY <1>2, <1>5, <2>1 DEF Outcome, Called, pay
<1> QED BY <1>8, <1>9 DEF pay

\* The header of a response decodes to the length of its body.
LEMMA HeaderCorrect ==
  ASSUME calls \in Seq(Calls), NEW n \in 1..Len(calls), NEW hs \in Seq(Byte),
         Len(hs) = HeaderLen, \A i \in 1..HeaderLen : hs[i] = <<n, i>>
  PROVE  /\ Decode(hs) = [magic |-> TRUE, len |-> calls[n].reply]
         /\ calls[n].reply \in Nat
<1>1. calls[n] \in Calls /\ n \in Nat
  BY LenProperties, ElementOfSeq
<1>2. 1 \in 1..HeaderLen
  BY HeaderLenAssumption
<1>3. hs[1][1] = n
  BY <1>2
<1>4. hs = NetStr(n, 0)
  <2>1. NetStr(n, 0) = [i \in 1..HeaderLen |-> <<n, i>>]
    BY HeaderLenAssumption DEF NetStr
  <2>2. hs = [i \in 1..HeaderLen |-> hs[i]]
    OBVIOUS
  <2> QED BY <2>1, <2>2
<1> QED BY <1>1, <1>3, <1>4 DEF Decode, Calls

\* The fields the writes use are as they were.
WriteKept(r, s) ==
  /\ s.io_block = r.io_block /\ s.write_ops = r.write_ops /\ s.write_done = r.write_done
  /\ s.send_status = r.send_status /\ s.send_buffer = r.send_buffer /\ s.stat = r.stat
  /\ r.pc \in {"do_write", "write_lock"} => s.pc \in {"do_write", "write_lock"}

\* Then the writes are still in order.
LEMMA WriteKeeps ==
  ASSUME NEW r, NEW s, WriteKept(r, s), NEW w \in BOOLEAN, WriteInv(r, w)
  PROVE  WriteInv(s, w)
  BY DEF WriteKept, WriteInv, WriteSafe

\* do_read and do_read_msg find the buffer where the last response, or the header,
\* ended.
LEMMA ChainFramed ==
  ASSUME NEW r \in ConnRec, ReadSafe(r)
  PROVE  /\ r.pc = "do_read" => AtHeader(r)
         /\ r.pc = "do_read_msg" => AtBody(r)
<1>1. ASSUME r.pc \in Chain
      PROVE  Framed(r, Base(r)) /\ (InBody(r) <=> r.pc = "do_read_msg")
  <2>1. r.read_op.kind = "none" /\ r.read_op.st = "none"
    BY <1>1 DEF ReadSafe, ReadShape
  <2> QED BY <1>1, <2>1 DEF ReadSafe, ReadShape, FrameInv, Active, Framed, InBody
<1>2. ASSUME r.pc = "do_read" PROVE AtHeader(r)
  BY <1>1, <1>2 DEF Chain, AtHeader, Base
<1>3. ASSUME r.pc = "do_read_msg" PROVE AtBody(r)
  BY <1>1, <1>3 DEF Chain, AtBody, Base, ReadSafe, FrameInv
<1> QED BY <1>2, <1>3

\* read_handler and read_msg_handler append the bytes that come next.
LEMMA ReceivedFramed ==
  ASSUME NEW r \in ConnRec, ReadSafe(r), calls \in Seq(Calls), r.read_op.st = "ok",
         r.pc = "idle"
  PROVE  /\ Received(r) \in ConnRec /\ Received(r).pc = "idle" /\ WriteKept(r, Received(r))
         /\ Received(r).recv_header = r.recv_header
         /\ r.read_op.kind = "head" => AtHeader(Received(r))
         /\ r.read_op.kind = "body" => AtBody(Received(r))
<1> DEFINE s == Received(r)
           n == r.read_op.n
           buf == r.recv_buffer \o SubSeq(Stream(r), r.rcvd + 1, r.rcvd + n)
           q == r.rcvd + n
<1>1. /\ r.recv_buffer \in Seq(Byte) /\ r.rcvd \in Nat /\ n \in Nat
      /\ IdsMade(r) /\ Stream(r) \in Seq(Byte)
  BY ConnFields, StreamFacts DEF ReadSafe
<1>2. /\ Len(r.called) <= Len(r.answers) /\ Len(r.called) \in Nat /\ Len(r.answers) \in Nat
      /\ r.read_op.kind # "none" /\ q <= Len(Stream(r))
      /\ HoldsPart(r.recv_buffer, Stream(r), Base(r), r.rcvd)
  <2>1. r.called \in Seq(Called) /\ r.answers \in Seq(Ids)
    BY ConnFields
  <2>2. r.read_op.kind # "none" /\ q <= Len(Stream(r))
    BY DEF ReadSafe, ReadShape
  <2> QED BY <2>1, <2>2, LenProperties DEF ReadSafe, FrameInv, Active
<1>3. Base(r) \in Nat
  <2>1. Len(r.called) \in 0..Len(r.answers) /\ Len(Stream(r)) \in Nat
    BY <1>1, <1>2, LenProperties
  <2>2. End(r, Len(r.called)) \in 0..Len(Stream(r))
    BY <1>1, <2>1, StreamFacts
  <2> QED BY <2>1, <2>2, HeaderLenAssumption DEF Base
<1>4. buf \in Seq(Byte) /\ HoldsPart(buf, Stream(r), Base(r), q)
  BY <1>1, <1>2, <1>3, AddBack
<1>5. s = [r EXCEPT !.recv_buffer = buf, !.rcvd = q, !.read_op = NoRead]
  BY DEF Received
<1>6. NoRead \in ReadOp /\ NoRead.kind = "none" /\ NoRead.st = "none" /\ q \in Nat
  BY <1>1, AsyncAssumption DEF NoRead, ReadOp
<1> HIDE DEF s, buf, q, n
<1>7. s \in ConnRec
  BY <1>4, <1>5, <1>6 DEF ConnRec
<1>8. /\ s.recv_buffer = buf /\ s.rcvd = q /\ s.read_op = NoRead /\ s.pc = "idle"
      /\ s.recv_header = r.recv_header /\ s.answers = r.answers /\ s.called = r.called
      /\ s.requests = r.requests
      /\ WriteKept(r, s)
  BY <1>5 DEF ConnRec, WriteKept
<1>9. Stream(s) = Stream(r) /\ \A k : End(s, k) = End(r, k)
  BY <1>8 DEF Stream, End, Parts
<1>10. Framed(s, Base(r))
  <2>1. IdsMade(s)
    BY <1>1, <1>8 DEF IdsMade
  <2> QED BY <1>2, <1>4, <1>6, <1>8, <1>9, <2>1 DEF Framed, ReadSafe, FrameInv
<1>11. ASSUME r.read_op.kind = "head" PROVE AtHeader(s)
  BY <1>8, <1>9, <1>10, <1>11 DEF AtHeader, Base, InBody
<1>12. ASSUME r.read_op.kind = "body" PROVE AtBody(s)
  BY <1>8, <1>9, <1>10, <1>12 DEF AtBody, Base, InBody, ReadSafe, FrameInv
<1> QED BY <1>7, <1>8, <1>11, <1>12 DEF s

\* What was received and what the handler was called with are as they were.
SameInput(q, t) ==
  /\ t.recv_buffer = q.recv_buffer /\ t.recv_header = q.recv_header /\ t.rcvd = q.rcvd
  /\ t.answers = q.answers /\ t.called = q.called /\ t.requests = q.requests

\* The chain goes on: with the next step, or with a read.
LEMMA Listening ==
  ASSUME NEW q, NEW t, SameInput(q, t)
  PROVE  /\ /\ AtHeader(q)
            /\ \/ t.pc = "do_read" /\ t.read_op = q.read_op
               \/ t.pc = "idle" /\ t.read_op.kind = "head" /\ t.read_op.st = "pending"
            => ReadInv(t)
         /\ /\ AtBody(q)
            /\ \/ t.pc = "do_read_msg" /\ t.read_op = q.read_op
               \/ t.pc = "idle" /\ t.read_op.kind = "body" /\ t.read_op.st = "pending"
            => ReadInv(t)
         /\ \A b : Framed(q, b) /\ t.pc = "idle" /\ t.read_op.kind = "none"
                   /\ t.read_op.st = "none" => ReadSafe(t)
<1>1. Stream(t) = Stream(q) /\ \A k : End(t, k) = End(q, k)
  BY DEF SameInput, Stream, End, Parts
<1>2. IdsMade(q) => IdsMade(t)
  BY DEF SameInput, IdsMade
<1>3. ASSUME AtHeader(q),
             \/ t.pc = "do_read" /\ t.read_op = q.read_op
             \/ t.pc = "idle" /\ t.read_op.kind = "head" /\ t.read_op.st = "pending"
      PROVE  ReadInv(t)
  <2>1. Active(t) /\ ~InBody(t)
    BY <1>3 DEF AtHeader, Framed, Active, InBody, Chain
  <2>2. HoldsPart(t.recv_buffer, Stream(t), Base(t), t.rcvd)
    BY <1>1, <1>3, <2>1 DEF AtHeader, Framed, Base, SameInput
  <2>3. FrameInv(t)
    BY <1>3, <2>1, <2>2 DEF FrameInv, AtHeader, Framed, SameInput
  <2>4. ReadShape(t)
    BY <1>1, <1>3 DEF ReadShape, AtHeader, Framed, SameInput, Chain
  <2> QED BY <1>2, <1>3, <2>1, <2>3, <2>4 DEF ReadInv, ReadSafe, AtHeader, Framed
<1>4. ASSUME AtBody(q),
             \/ t.pc = "do_read_msg" /\ t.read_op = q.read_op
             \/ t.pc = "idle" /\ t.read_op.kind = "body" /\ t.read_op.st = "pending"
      PROVE  ReadInv(t)
  <2>1. Active(t) /\ InBody(t)
    BY <1>4 DEF AtBody, Framed, Active, InBody, Chain
  <2>2. HoldsPart(t.recv_buffer, Stream(t), Base(t), t.rcvd)
    BY <1>1, <1>4, <2>1 DEF AtBody, Framed, Base, SameInput
  <2>3. FrameInv(t)
    BY <1>4, <2>1, <2>2 DEF FrameInv, AtBody, Framed, SameInput
  <2>4. ReadShape(t)
    BY <1>1, <1>4 DEF ReadShape, AtBody, Framed, SameInput, Chain
  <2> QED BY <1>2, <1>4, <2>1, <2>3, <2>4 DEF ReadInv, ReadSafe, AtBody, Framed
<1>5. ASSUME NEW b, Framed(q, b), t.pc = "idle", t.read_op.kind = "none",
             t.read_op.st = "none"
      PROVE  ReadSafe(t)
  <2>1. ~Active(t) /\ ~InBody(t)
    BY <1>5 DEF Active, InBody, Chain
  <2>2. FrameInv(t)
    BY <1>5, <2>1 DEF FrameInv, Framed, SameInput
  <2>3. ReadShape(t)
    BY <1>1, <1>5 DEF ReadShape, Framed, SameInput, Chain
  <2> QED BY <1>2, <1>5, <2>2, <2>3 DEF ReadSafe, Framed
<1> QED BY <1>3, <1>4, <1>5

\* parse_header, with a header in the buffer: the chain goes on with the body of
\* the next response, or the connection is closed.
LEMMA ParseHeaderStep ==
  ASSUME NEW q \in ConnRec, calls \in Seq(Calls), AtHeader(q), Len(q.recv_buffer) >= HeaderLen,
         q.pc \notin {"do_write", "write_lock"}
  PROVE  /\ ParseHeader(q) \in ConnRec /\ ReadInv(ParseHeader(q))
         /\ \A w \in BOOLEAN : WriteInv(q, w) => WriteInv(ParseHeader(q), w)
         /\ ParseHeader(q).stat = "kWorking" => q.stat = "kWorking"
<1> DEFINE hs == ConsumeStore(q.recv_buffer, HeaderLen)
           tl == FrontErase(q.recv_buffer, HeaderLen)
           h == Decode(hs)
           k == Len(q.called)
           n == q.answers[k + 1]
           b == End(q, k)
<1>1. /\ q.recv_buffer \in Seq(Byte) /\ q.rcvd \in Nat /\ IdsMade(q)
      /\ Stream(q) \in Seq(Byte) /\ Len(q.recv_buffer) \in Nat /\ Len(Stream(q)) \in Nat
      /\ k \in Nat /\ Len(q.answers) \in Nat /\ k <= Len(q.answers)
  <2>1. IdsMade(q) /\ k <= Len(q.answers)
    BY DEF AtHeader, Framed
  <2>2. Stream(q) \in Seq(Byte)
    BY <2>1, StreamFacts
  <2>3. q.called \in Seq(Called) /\ q.answers \in Seq(Ids) /\ q.recv_buffer \in Seq(Byte)
        /\ q.rcvd \in Nat
    BY ConnFields
  <2> QED BY <2>1, <2>2, <2>3, LenProperties
<1>2. /\ b \in 0..Len(Stream(q)) /\ HoldsPart(q.recv_buffer, Stream(q), b, q.rcvd)
      /\ q.rcvd <= Len(Stream(q))
  <2>1. k \in 0..Len(q.answers)
    BY <1>1
  <2> QED BY <1>1, <2>1, StreamFacts DEF AtHeader, Framed
<1>3. k < Len(q.answers)
  <2>1. b < Len(Stream(q))
    BY <1>1, <1>2, HeaderLenAssumption DEF HoldsPart
  <2>2. End(q, Len(q.answers)) = Len(Stream(q))
    BY <1>1, StreamFacts
  <2>3. k # Len(q.answers)
    BY <1>1, <1>2, <2>1, <2>2
  <2> HIDE DEF k
  <2> QED BY <1>1, <2>3
<1>4. n \in 1..Len(calls) /\ calls[n].reply \in Nat
      /\ \A i \in 1..(HeaderLen + calls[n].reply) : Stream(q)[b + i] = <<n, i>>
  <2>1. k + 1 \in 1..Len(q.answers) /\ (k + 1) - 1 = k
    BY <1>1, <1>3
  <2>2. n \in 1..Len(calls)
    BY <1>1, <2>1 DEF IdsMade
  <2>3. calls[n] \in Calls
    BY <2>2, ElementOfSeq
  <2>4. \A j \in 1..Len(q.answers) :
          \A i \in 1..(HeaderLen + calls[q.answers[j]].reply) :
            Stream(q)[End(q, j - 1) + i] = <<q.answers[j], i>>
    BY <1>1, StreamFacts
  <2> QED BY <2>1, <2>2, <2>3, <2>4 DEF Calls
<1>5. /\ hs \in Seq(Byte) /\ Len(hs) = HeaderLen
      /\ \A i \in 1..HeaderLen : hs[i] = Stream(q)[b + i]
      /\ tl \in Seq(Byte) /\ HoldsPart(tl, Stream(q), b + HeaderLen, q.rcvd)
  <2>1. b \in Nat
    BY <1>1, <1>2
  <2> QED BY <1>1, <1>2, <2>1, HeaderLenAssumption, TakeFront
<1>6. h = [magic |-> TRUE, len |-> calls[n].reply]
  <2>1. \A i \in 1..HeaderLen : i \in 1..(HeaderLen + calls[n].reply)
    <3> DEFINE rep == calls[n].reply
    <3>1. rep \in Nat
      BY <1>4
    <3> HIDE DEF rep
    <3>2. \A i \in 1..HeaderLen : i \in 1..(HeaderLen + rep)
      BY <3>1, HeaderLenAssumption
    <3> QED BY <3>2 DEF rep
  <2> HIDE DEF hs, n, b
  <2>2. \A i \in 1..HeaderLen : hs[i] = <<n, i>>
    BY <1>4, <1>5, <2>1
  <2> QED BY <1>4, <1>5, <2>2, HeaderCorrect
<1> DEFINE s == [q EXCEPT !.recv_header = h, !.recv_buffer = tl]
           t == [s EXCEPT !.pc = "do_read_msg"]
           u == [s EXCEPT !.pc = "idle"]
<1>7. ParseHeader(q) = IF HeaderOK(h) THEN t ELSE Shut(u)
  BY DEF ParseHeader
<1>8. h \in [magic : BOOLEAN, len : Nat]
  BY <1>4, <1>6
<1> HIDE DEF h, tl
<1>9. s \in ConnRec /\ t \in ConnRec /\ u \in ConnRec
  BY <1>5, <1>8 DEF ConnRec
<1>10. /\ s.recv_header = h /\ s.recv_buffer = tl /\ s.rcvd = q.rcvd
       /\ s.answers = q.answers /\ s.called = q.called /\ s.requests = q.requests
       /\ s.read_op = q.read_op /\ s.pc = q.pc
       /\ t.pc = "do_read_msg" /\ t.read_op = s.read_op /\ u.pc = "idle"
       /\ u.read_op = s.read_op /\ WriteKept(q, t) /\ WriteKept(q, u)
       /\ SameInput(s, t) /\ SameInput(s, u)
  BY DEF ConnRec, WriteKept, SameInput
<1> HIDE DEF s, t, u
<1>11. Stream(s) = Stream(q) /\ \A j : End(s, j) = End(q, j)
  BY <1>10 DEF Stream, End, Parts
<1>12. AtBody(s)
  <2>1. IdsMade(s)
    BY <1>1, <1>10 DEF IdsMade
  <2>2. Framed(s, End(s, Len(s.called)) + HeaderLen)
    BY <1>5, <1>10, <1>11, <2>1 DEF Framed, AtHeader
  <2> QED BY <1>3, <1>6, <1>10, <2>2 DEF AtBody
<1>13. ReadInv(t) /\ ReadSafe(u)
  <2>1. ReadInv(t)
    BY <1>10, <1>12, Listening
  <2>2. \E e : Framed(s, e) /\ u.read_op.kind = "none" /\ u.read_op.st = "none"
    BY <1>10, <1>12 DEF AtBody, Framed
  <2>3. ReadSafe(u)
    BY <1>10, <2>2, Listening
  <2> QED BY <2>1, <2>3
<1>14. CASE HeaderOK(h)
  <2>1. ParseHeader(q) = t
    BY <1>7, <1>14
  <2> QED BY <1>9, <1>10, <1>13, <2>1, WriteKeeps DEF WriteKept
<1>15. CASE ~HeaderOK(h)
  <2>1. ParseHeader(q) = Shut(u)
    BY <1>7, <1>15
  <2>2. \A w \in BOOLEAN : WriteInv(q, w) => WriteInv(u, w)
    BY <1>10, WriteKeeps
  <2> QED BY <1>9, <1>13, <2>1, <2>2, ShutFacts DEF WriteInv
<1> QED BY <1>14, <1>15

\* parse_msg_body, with the body in the buffer: the handler gets the response.
LEMMA ParseMsgBodyStep ==
  ASSUME NEW q \in ConnRec, calls \in Seq(Calls), AtBody(q),
         Len(q.recv_buffer) >= q.recv_header.len, q.pc \notin {"do_write", "write_lock"}
  PROVE  /\ ParseMsgBody(q) \in ConnRec /\ ReadInv(ParseMsgBody(q))
         /\ \A w \in BOOLEAN : WriteInv(q, w) => WriteInv(ParseMsgBody(q), w)
         /\ ParseMsgBody(q).stat = "kWorking" => q.stat = "kWorking"
<1> DEFINE len == q.recv_header.len
           body == ConsumeStore(q.recv_buffer, len)
           tl == FrontErase(q.recv_buffer, len)
           k == Len(q.called)
           n == q.answers[k + 1]
           b == End(q, k) + HeaderLen
           out == async_recv_wrapper(body)
           done == Append(q.called, out)
<1>1. /\ q.recv_buffer \in Seq(Byte) /\ q.rcvd \in Nat /\ IdsMade(q) /\ q.called \in Seq(Called)
      /\ Stream(q) \in Seq(Byte) /\ Len(q.recv_buffer) \in Nat /\ Len(Stream(q)) \in Nat
      /\ k \in Nat /\ Len(q.answers) \in Nat /\ k < Len(q.answers)
  <2>1. IdsMade(q) /\ k < Len(q.answers)
    BY DEF AtBody, Framed
  <2>2. Stream(q) \in Seq(Byte)
    BY <2>1, StreamFacts
  <2>3. q.called \in Seq(Called) /\ q.answers \in Seq(Ids) /\ q.recv_buffer \in Seq(Byte)
        /\ q.rcvd \in Nat
    BY ConnFields
  <2> QED BY <2>1, <2>2, <2>3, LenProperties
<1>2. k + 1 \in 1..Len(q.answers) /\ (k + 1) - 1 = k /\ k \in 0..Len(q.answers)
  BY <1>1
<1>3. n \in 1..Len(calls) /\ len = calls[n].reply /\ len \in Nat
  <2>1. n \in 1..Len(calls)
    BY <1>1, <1>2 DEF IdsMade
  <2>2. calls[n] \in Calls
    BY <2>1, ElementOfSeq
  <2>3. len = calls[n].reply
    BY DEF AtBody
  <2> QED BY <2>1, <2>2, <2>3 DEF Calls
<1>4. /\ End(q, k) \in Nat /\ End(q, k + 1) = End(q, k) + HeaderLen + len
      /\ \A i \in 1..(HeaderLen + len) : Stream(q)[End(q, k) + i] = <<n, i>>
  <2>1. End(q, k) \in Nat
    BY <1>1, <1>2, StreamFacts
  <2>2. \A j \in 1..Len(q.answers) :
          /\ End(q, j) = End(q, j - 1) + HeaderLen + calls[q.answers[j]].reply
          /\ \A i \in 1..(HeaderLen + calls[q.answers[j]].reply) :
               Stream(q)[End(q, j - 1) + i] = <<q.answers[j], i>>
    BY <1>1, StreamFacts
  <2>3. /\ End(q, k + 1) = End(q, (k + 1) - 1) + HeaderLen + calls[n].reply
        /\ \A i \in 1..(HeaderLen + calls[n].reply) :
             Stream(q)[End(q, (k + 1) - 1) + i] = <<n, i>>
    BY <1>2, <2>2
  <2> HIDE DEF len, n, k
  <2> QED BY <1>2, <1>3, <2>1, <2>3
<1>5. /\ body \in Seq(Byte) /\ Len(body) = len /\ b \in Nat
      /\ \A i \in 1..len : body[i] = Stream(q)[b + i]
      /\ tl \in Seq(Byte) /\ HoldsPart(tl, Stream(q), b + len, q.rcvd)
  <2>1. b \in Nat
    BY <1>4, HeaderLenAssumption
  <2>2. HoldsPart(q.recv_buffer, Stream(q), b, q.rcvd)
    BY DEF AtBody, Framed
  <2>3. len <= Len(q.recv_buffer) /\ len \in Nat
    BY <1>1, <1>3
  <2> HIDE DEF len, b
  <2> QED BY <1>1, <2>1, <2>2, <2>3, TakeFront
<1>6. body = Payload(n, len)
  <2>1. ASSUME NEW i \in 1..len PROVE body[i] = <<n, HeaderLen + i>>
    <3>1. HeaderLen + i \in 1..(HeaderLen + len) /\ b + i = End(q, k) + (HeaderLen + i)
      <4> DEFINE e == End(q, k)
      <4>1. e \in Nat /\ len \in Nat /\ i \in 1..len
        BY <1>3, <1>4
      <4> HIDE DEF e, len
      <4>2. HeaderLen + i \in 1..(HeaderLen + len) /\ (e + HeaderLen) + i = e + (HeaderLen + i)
        BY ONLY <4>1, HeaderLenAssumption
      <4> QED BY <4>2 DEF e
    <3> QED BY <1>4, <1>5, <3>1
  <2>2. body = [i \in 1..len |-> body[i]]
    BY <1>5
  <2> QED BY <2>1, <2>2 DEF Payload
<1>7. out = Outcome(n) /\ out \in Called
  BY <1>3, <1>6, WrapperCorrect
<1>8. ParseMsgBody(q) = [q EXCEPT !.recv_buffer = tl, !.pc = "do_read", !.called = done]
  BY DEF ParseMsgBody
<1> DEFINE s == ParseMsgBody(q)
<1> HIDE DEF out
<1>9. /\ done \in Seq(Called) /\ Len(done) = k + 1 /\ done[k + 1] = out
      /\ \A i \in 1..k : done[i] = q.called[i]
  BY <1>1, <1>7, AppendProperties
<1> HIDE DEF s, tl, done
<1>10. s \in ConnRec
  BY <1>5, <1>8, <1>9 DEF ConnRec, s
<1>11. /\ s.recv_buffer = tl /\ s.rcvd = q.rcvd /\ s.called = done
       /\ s.answers = q.answers /\ s.requests = q.requests
       /\ s.read_op = q.read_op /\ s.pc = "do_read" /\ WriteKept(q, s)
  BY <1>8 DEF ConnRec, WriteKept, s
<1>12. Stream(s) = Stream(q) /\ \A j : End(s, j) = End(q, j)
  BY <1>11 DEF Stream, End, Parts
<1>13. AtHeader(s)
  <2>1. IdsMade(s)
    BY <1>1, <1>11 DEF IdsMade
  <2>2. \A i \in 1..(k + 1) : done[i] = Outcome(q.answers[i])
    <3>1. \A i \in 1..k : q.called[i] = Outcome(q.answers[i])
      BY DEF AtBody, Framed
    <3>2. done[k + 1] = Outcome(q.answers[k + 1])
      BY <1>7, <1>9
    <3> HIDE DEF k
    <3>3. \A i \in 1..(k + 1) : i = k + 1 \/ i \in 1..k
      BY <1>1
    <3> QED BY <1>9, <3>1, <3>2, <3>3
  <2>3. End(s, Len(s.called)) = b + len
    <3> HIDE DEF k, len
    <3>1. End(s, Len(s.called)) = End(q, k + 1)
      BY <1>9, <1>11, <1>12
    <3> QED BY <1>4, <3>1
  <2>4. Len(s.called) <= Len(s.answers) /\ Len(s.called) = k + 1
    BY <1>2, <1>9, <1>11
  <2>5. HoldsPart(s.recv_buffer, Stream(s), End(s, Len(s.called)), s.rcvd)
    BY <1>5, <1>11, <1>12, <2>3
  <2> QED BY <1>11, <1>12, <2>1, <2>2, <2>4, <2>5 DEF Framed, AtHeader, AtBody
<1>14. ReadInv(s)
  <2>1. SameInput(s, s)
    BY DEF SameInput
  <2> QED BY <1>11, <1>13, <2>1, Listening
<1> QED BY <1>10, <1>11, <1>14, WriteKeeps DEF WriteKept, s

-----------------------------------------------------------------------------
\* A step that changes connection c alone, and makes no call.
LEMMA OneConn ==
  ASSUME conns \in Seq(ConnRec), AllRead, calls' = calls, NEW c \in 1..Len(conns),
         NEW s \in ConnRec, ReadInv(s), conns' = [conns EXCEPT ![c] = s]
  PROVE  /\ conns' \in Seq(ConnRec) /\ Len(conns') = Len(conns) /\ conns'[c] = s
         /\ \A d \in 1..Len(conns) : d # c => conns'[d] = conns[d]
         /\ AllRead'
<1>1. conns' \in Seq(ConnRec) /\ Len(conns') = Len(conns) /\ conns'[c] = s
      /\ \A d \in 1..Len(conns) : d # c => conns'[d] = conns[d]
  BY ExceptSeq
<1>2. ASSUME NEW d \in 1..Len(conns') PROVE ReadInv(conns[d])'
  <2>1. CASE d = c
    BY <1>1, <2>1, PutInv
  <2>2. CASE d # c
    <3>1. conns'[d] = conns[d] /\ ReadInv(conns[d])
      BY <1>1, <2>2 DEF AllRead
    <3> QED BY <3>1, PutInv
  <2> QED BY <2>1, <2>2
<1> QED BY <1>1, <1>2 DEF AllRead

\* A step of a strand or of the network.
LEMMA PutStep ==
  ASSUME AsyncInv, NEW c \in 1..Len(conns), NEW s \in ConnRec, Put(c, s), ReadInv(s),
         WriteInv(s, Writing(c)), s.stat = "kWorking" => conns[c].stat = "kWorking"
  PROVE  AsyncInv'
<1>1. /\ conns' = [conns EXCEPT ![c] = s] /\ calls' = calls /\ pc' = pc /\ conn' = conn
      /\ was_timeout' = was_timeout /\ timer' = timer /\ expired' = expired
      /\ closing' = closing /\ crashed' = crashed /\ result' = result /\ on' = on
  BY DEF Put, clientVars, timerVars
<1>2. conns \in Seq(ConnRec) /\ AllRead
  BY DEF AsyncInv, ClientTypeOK
<1>3. /\ conns' \in Seq(ConnRec) /\ Len(conns') = Len(conns) /\ conns'[c] = s
      /\ \A d \in 1..Len(conns) : d # c => conns'[d] = conns[d]
      /\ AllRead'
  BY <1>1, <1>2, OneConn
<1>4. ClientTypeOK'
  BY <1>1, <1>3 DEF AsyncInv, ClientTypeOK
<1>5. AllWrite'
  <2>1. ASSUME NEW d \in 1..Len(conns) PROVE WriteInv(conns'[d], Writing(d))
    <3>1. CASE d = c
      BY <1>3, <3>1
    <3>2. CASE d # c
      BY <1>3, <3>2 DEF AsyncInv, AllWrite
    <3> QED BY <3>1, <3>2
  <2>2. \A d : Writing(d)' <=> Writing(d)
    BY <1>1 DEF Writing
  <2> QED BY <1>1, <1>3, <2>1, <2>2 DEF AllWrite, WriteInv, WriteSafe, Writing
<1>6. \A d \in 1..Len(conns) : conns[d].stat = "kClosed" => conns'[d].stat = "kClosed"
  <2>1. s.stat \in {"kWorking", "kClosed"}
    BY ConnFields
  <2> QED BY <1>3, <2>1
<1>7. GivesUpClosed'
  <2>1. pc = "failed" => conn \in 1..Len(conns)
    BY <1>2, LenProperties DEF AsyncInv, ClientTypeOK
  <2> QED BY <1>1, <1>6, <2>1 DEF AsyncInv, GivesUpClosed, Oversize
<1>8. LetGoIsClosed'
  BY <1>1, <1>3, <1>6 DEF AsyncInv, LetGoIsClosed, Oversize
<1> QED BY <1>3, <1>4, <1>5, <1>7, <1>8 DEF AsyncInv

\* What is known of connection c before such a step.
LEMMA ConnFacts ==
  ASSUME AsyncInv, NEW c \in 1..Len(conns)
  PROVE  /\ conns[c] \in ConnRec /\ ReadInv(conns[c]) /\ ReadSafe(conns[c])
         /\ WriteInv(conns[c], Writing(c)) /\ Writing(c) \in BOOLEAN
         /\ calls \in Seq(Calls)
<1>1. conns[c] \in ConnRec
  BY ElementOfSeq DEF AsyncInv, ClientTypeOK
<1> QED BY <1>1 DEF AsyncInv, AllRead, AllWrite, ReadInv, ClientTypeOK, Writing

\* do_read: give up on a closed connection, read the rest of a header, or parse it.
LEMMA DoReadStep ==
  ASSUME AsyncInv, NEW c \in 1..Len(conns), do_read(c)
  PROVE  AsyncInv'
<1> DEFINE r == conns[c]
           s1 == [r EXCEPT !.pc = "idle"]
           op == Reading("head", HeaderLen - Len(r.recv_buffer))
           s2 == [r EXCEPT !.pc = "idle", !.read_op = op]
<1>1. /\ r \in ConnRec /\ ReadInv(r) /\ ReadSafe(r) /\ WriteInv(r, Writing(c))
      /\ Writing(c) \in BOOLEAN /\ calls \in Seq(Calls)
  BY ConnFacts
<1>2. r.pc = "do_read"
      /\ \/ r.stat # "kWorking" /\ Put(c, s1)
         \/ Len(r.recv_buffer) < HeaderLen /\ Put(c, s2)
         \/ Len(r.recv_buffer) >= HeaderLen /\ Put(c, ParseHeader(r))
  BY DEF do_read
<1> HIDE DEF r
<1>3. AtHeader(r) /\ r.read_op.kind = "none" /\ r.read_op.st = "none"
  BY <1>1, <1>2, ChainFramed DEF AtHeader, Framed
<1>4. CASE r.stat # "kWorking" /\ Put(c, s1)
  <2>1. /\ s1 \in ConnRec /\ s1.pc = "idle" /\ s1.read_op = r.read_op /\ s1.stat = r.stat
        /\ SameInput(r, s1) /\ WriteKept(r, s1)
    BY <1>1, <1>2 DEF ConnRec, SameInput, WriteKept
  <2> HIDE DEF s1
  <2>2. ReadSafe(s1)
    BY <1>3, <2>1, Listening DEF AtHeader
  <2> QED BY <1>1, <1>4, <2>1, <2>2, WriteKeeps, PutStep DEF ReadInv, r
<1>5. CASE Len(r.recv_buffer) < HeaderLen /\ Put(c, s2)
  <2>1. op \in ReadOp /\ op.kind = "head" /\ op.st = "pending"
    <3>1. Len(r.recv_buffer) \in Nat
      BY <1>1, ConnFields, LenProperties
    <3> QED BY <1>5, <3>1, AsyncAssumption, HeaderLenAssumption DEF Reading, ReadOp
  <2> HIDE DEF op
  <2>2. /\ s2 \in ConnRec /\ s2.pc = "idle" /\ s2.read_op = op /\ s2.stat = r.stat
        /\ SameInput(r, s2) /\ WriteKept(r, s2)
    BY <1>1, <1>2, <2>1 DEF ConnRec, SameInput, WriteKept
  <2> HIDE DEF s2
  <2>3. ReadInv(s2)
    BY <1>3, <2>1, <2>2, Listening
  <2> QED BY <1>1, <1>5, <2>2, <2>3, WriteKeeps, PutStep DEF r
<1>6. CASE Len(r.recv_buffer) >= HeaderLen /\ Put(c, ParseHeader(r))
  <2>1. /\ ParseHeader(r) \in ConnRec /\ ReadInv(ParseHeader(r))
        /\ WriteInv(ParseHeader(r), Writing(c))
        /\ ParseHeader(r).stat = "kWorking" => r.stat = "kWorking"
    BY <1>1, <1>2, <1>3, <1>6, ParseHeaderStep
  <2> QED BY <1>6, <2>1, PutStep DEF r
<1> QED BY <1>2, <1>4, <1>5, <1>6

\* do_read_msg: the same for the body.
LEMMA DoReadMsgStep ==
  ASSUME AsyncInv, NEW c \in 1..Len(conns), do_read_msg(c)
  PROVE  AsyncInv'
<1> DEFINE r == conns[c]
           s1 == [r EXCEPT !.pc = "idle"]
           op == Reading("body", BodyNeed(r))
           s2 == [r EXCEPT !.pc = "idle", !.read_op = op]
<1>1. /\ r \in ConnRec /\ ReadInv(r) /\ ReadSafe(r) /\ WriteInv(r, Writing(c))
      /\ Writing(c) \in BOOLEAN /\ calls \in Seq(Calls)
  BY ConnFacts
<1>2. r.pc = "do_read_msg"
      /\ \/ r.stat # "kWorking" /\ Put(c, s1)
         \/ Len(r.recv_buffer) < r.recv_header.len /\ Put(c, s2)
         \/ Len(r.recv_buffer) >= r.recv_header.len /\ Put(c, ParseMsgBody(r))
  BY DEF do_read_msg
<1> HIDE DEF r
<1>3. AtBody(r) /\ r.read_op.kind = "none" /\ r.read_op.st = "none"
  BY <1>1, <1>2, ChainFramed DEF AtBody, Framed
<1>4. CASE r.stat # "kWorking" /\ Put(c, s1)
  <2>1. /\ s1 \in ConnRec /\ s1.pc = "idle" /\ s1.read_op = r.read_op /\ s1.stat = r.stat
        /\ SameInput(r, s1) /\ WriteKept(r, s1)
    BY <1>1, <1>2 DEF ConnRec, SameInput, WriteKept
  <2> HIDE DEF s1
  <2>2. ReadSafe(s1)
    BY <1>3, <2>1, Listening DEF AtBody
  <2> QED BY <1>1, <1>4, <2>1, <2>2, WriteKeeps, PutStep DEF ReadInv, r
<1>5. CASE Len(r.recv_buffer) < r.recv_header.len /\ Put(c, s2)
  <2>1. op \in ReadOp /\ op.kind = "body" /\ op.st = "pending"
    <3>1. Len(r.recv_buffer) \in Nat /\ r.recv_header.len \in Nat
      BY <1>1, ConnFields, LenProperties
    <3>2. BodyNeed(r) \in 0..BlockLen
      BY <1>5, <3>1, AsyncAssumption DEF BodyNeed, Smaller
    <3> QED BY <3>2, AsyncAssumption DEF Reading, ReadOp
  <2> HIDE DEF op
  <2>2. /\ s2 \in ConnRec /\ s2.pc = "idle" /\ s2.read_op = op /\ s2.stat = r.stat
        /\ SameInput(r, s2) /\ WriteKept(r, s2)
    BY <1>1, <1>2, <2>1 DEF ConnRec, SameInput, WriteKept
  <2> HIDE DEF s2
  <2>3. ReadInv(s2)
    BY <1>3, <2>1, <2>2, Listening
  <2> QED BY <1>1, <1>5, <2>2, <2>3, WriteKeeps, PutStep DEF r
<1>6. CASE Len(r.recv_buffer) >= r.recv_header.len /\ Put(c, ParseMsgBody(r))
  <2>1. /\ ParseMsgBody(r) \in ConnRec /\ ReadInv(ParseMsgBody(r))
        /\ WriteInv(ParseMsgBody(r), Writing(c))
        /\ ParseMsgBody(r).stat = "kWorking" => r.stat = "kWorking"
    BY <1>1, <1>2, <1>3, <1>6, ParseMsgBodyStep
  <2> QED BY <1>6, <2>1, PutStep DEF r
<1> QED BY <1>2, <1>4, <1>5, <1>6

\* read_handler: the bytes may be too few for the header still.
LEMMA ReadHandlerStep ==
  ASSUME AsyncInv, NEW c \in 1..Len(conns), read_handler(c)
  PROVE  AsyncInv'
<1> DEFINE r == conns[c]
           s == Received(r)
           t == [s EXCEPT !.pc = "do_read"]
<1>1. /\ r \in ConnRec /\ ReadInv(r) /\ ReadSafe(r) /\ WriteInv(r, Writing(c))
      /\ Writing(c) \in BOOLEAN /\ calls \in Seq(Calls)
  BY ConnFacts
<1>2. /\ r.pc = "idle" /\ r.read_op.kind = "head" /\ r.read_op.st = "ok"
      /\ Put(c, IF Len(s.recv_buffer) < HeaderLen THEN t ELSE ParseHeader(s))
  BY DEF read_handler
<1> HIDE DEF r
<1>3. s \in ConnRec /\ s.pc = "idle" /\ WriteKept(r, s) /\ AtHeader(s) /\ s.stat = r.stat
  BY <1>1, <1>2, ReceivedFramed DEF WriteKept
<1>4. WriteInv(s, Writing(c))
  BY <1>1, <1>3, WriteKeeps
<1> HIDE DEF s
<1>5. Len(s.recv_buffer) \in Nat
  BY <1>3, ConnFields, LenProperties
<1>6. CASE Len(s.recv_buffer) < HeaderLen
  <2>1. /\ t \in ConnRec /\ t.pc = "do_read" /\ t.read_op = s.read_op /\ t.stat = r.stat
        /\ SameInput(s, t) /\ WriteKept(s, t)
    BY <1>3 DEF ConnRec, SameInput, WriteKept
  <2>2. Put(c, t)
    BY <1>2, <1>6
  <2> HIDE DEF t
  <2>3. ReadInv(t)
    BY <1>3, <2>1, Listening
  <2> QED BY <1>1, <1>4, <2>1, <2>2, <2>3, WriteKeeps, PutStep DEF r
<1>7. CASE ~(Len(s.recv_buffer) < HeaderLen)
  <2>1. Len(s.recv_buffer) >= HeaderLen
    BY <1>5, <1>7, HeaderLenAssumption
  <2>2. /\ ParseHeader(s) \in ConnRec /\ ReadInv(ParseHeader(s))
        /\ WriteInv(ParseHeader(s), Writing(c))
        /\ ParseHeader(s).stat = "kWorking" => r.stat = "kWorking"
    BY <1>1, <1>3, <1>4, <2>1, ParseHeaderStep
  <2>3. Put(c, ParseHeader(s))
    BY <1>2, <1>7
  <2> QED BY <2>2, <2>3, PutStep DEF r
<1> QED BY <1>6, <1>7

\* read_msg_handler: the same for the body.
LEMMA ReadMsgHandlerStep ==
  ASSUME AsyncInv, NEW c \in 1..Len(conns), read_msg_handler(c)
  PROVE  AsyncInv'
<1> DEFINE r == conns[c]
           s == Received(r)
           t == [s EXCEPT !.pc = "do_read_msg"]
<1>1. /\ r \in ConnRec /\ ReadInv(r) /\ ReadSafe(r) /\ WriteInv(r, Writing(c))
      /\ Writing(c) \in BOOLEAN /\ calls \in Seq(Calls)
  BY ConnFacts
<1>2. /\ r.pc = "idle" /\ r.read_op.kind = "body" /\ r.read_op.st = "ok"
      /\ Put(c, IF Len(s.recv_buffer) < s.recv_header.len THEN t ELSE ParseMsgBody(s))
  BY DEF read_msg_handler
<1> HIDE DEF r
<1>3. s \in ConnRec /\ s.pc = "idle" /\ WriteKept(r, s) /\ AtBody(s) /\ s.stat = r.stat
  BY <1>1, <1>2, ReceivedFramed DEF WriteKept
<1>4. WriteInv(s, Writing(c))
  BY <1>1, <1>3, WriteKeeps
<1> HIDE DEF s
<1>5. Len(s.recv_buffer) \in Nat /\ s.recv_header.len \in Nat
  BY <1>3, ConnFields, LenProperties
<1>6. CASE Len(s.recv_buffer) < s.recv_header.len
  <2>1. /\ t \in ConnRec /\ t.pc = "do_read_msg" /\ t.read_op = s.read_op
        /\ t.stat = r.stat /\ SameInput(s, t) /\ WriteKept(s, t)
    BY <1>3 DEF ConnRec, SameInput, WriteKept
  <2>2. Put(c, t)
    BY <1>2, <1>6
  <2> HIDE DEF t
  <2>3. ReadInv(t)
    BY <1>3, <2>1, Listening
  <2> QED BY <1>1, <1>4, <2>1, <2>2, <2>3, WriteKeeps, PutStep DEF r
<1>7. CASE ~(Len(s.recv_buffer) < s.recv_header.len)
  <2>1. Len(s.recv_buffer) >= s.recv_header.len
    BY <1>5, <1>7
  <2>2. /\ ParseMsgBody(s) \in ConnRec /\ ReadInv(ParseMsgBody(s))
        /\ WriteInv(ParseMsgBody(s), Writing(c))
        /\ ParseMsgBody(s).stat = "kWorking" => r.stat = "kWorking"
    BY <1>1, <1>3, <1>4, <2>1, ParseMsgBodyStep
  <2>3. Put(c, ParseMsgBody(s))
    BY <1>2, <1>7
  <2> QED BY <2>2, <2>3, PutStep DEF r
<1> QED BY <1>6, <1>7

\* A handler with an error code: the read is over, and with it the chain.
LEMMA ReadHandlerEcStep ==
  ASSUME AsyncInv, NEW c \in 1..Len(conns), ReadHandlerEc(c)
  PROVE  AsyncInv'
<1> DEFINE r == conns[c]
           t == [r EXCEPT !.read_op = NoRead]
<1>1. /\ r \in ConnRec /\ ReadInv(r) /\ ReadSafe(r) /\ WriteInv(r, Writing(c))
      /\ Writing(c) \in BOOLEAN /\ calls \in Seq(Calls)
  BY ConnFacts
<1>2. /\ r.pc = "idle" /\ r.read_op.st \in {"aborted", "error"}
      /\ Put(c, handle_socket_ec(t, r.read_op.st))
  BY DEF ReadHandlerEc
<1> HIDE DEF r
<1>3. NoRead \in ReadOp /\ NoRead.kind = "none" /\ NoRead.st = "none"
  BY AsyncAssumption DEF NoRead, ReadOp
<1>4. /\ t \in ConnRec /\ t.pc = "idle" /\ t.read_op = NoRead /\ t.stat = r.stat
      /\ SameInput(r, t) /\ WriteKept(r, t)
  BY <1>1, <1>2, <1>3 DEF ConnRec, SameInput, WriteKept
<1> HIDE DEF t
<1>5. WriteInv(t, Writing(c))
  BY <1>1, <1>4, WriteKeeps
<1>6. ReadSafe(t)
  <2>1. ~Active(t) /\ ~InBody(t)
    BY <1>3, <1>4 DEF Active, InBody, Chain
  <2>2. Stream(t) = Stream(r)
    BY <1>4 DEF SameInput, Stream
  <2>3. FrameInv(t)
    BY <1>1, <1>4, <2>1 DEF FrameInv, ReadSafe, SameInput
  <2>4. ReadShape(t)
    BY <1>1, <1>3, <1>4, <2>2 DEF ReadShape, ReadSafe, SameInput
  <2>5. IdsMade(t)
    BY <1>1, <1>4 DEF IdsMade, ReadSafe, SameInput
  <2> QED BY <2>3, <2>4, <2>5 DEF ReadSafe
<1>7. CASE r.read_op.st = "aborted"
  <2>1. Put(c, t)
    BY <1>2, <1>7 DEF handle_socket_ec
  <2>2. r.stat = "kClosed"
    BY <1>1, <1>7 DEF ReadSafe, ReadShape
  <2>3. ReadInv(t)
    BY <1>4, <1>6, <2>2 DEF ReadInv
  <2> QED BY <1>4, <1>5, <2>1, <2>3, PutStep DEF r
<1>8. CASE r.read_op.st = "error"
  <2>1. Put(c, Shut(t))
    BY <1>2, <1>8 DEF handle_socket_ec
  <2>2. /\ Shut(t) \in ConnRec /\ Shut(t).stat = "kClosed" /\ ReadInv(Shut(t))
        /\ WriteInv(Shut(t), Writing(c))
    BY <1>1, <1>4, <1>5, <1>6, ShutFacts DEF WriteInv
  <2> QED BY <2>1, <2>2, PutStep
<1> QED BY <1>2, <1>7, <1>8

-----------------------------------------------------------------------------
\* do_write up to the lock: it is left alone only when there is a write under way.
LEMMA StrandWriteTestStep ==
  ASSUME AsyncInv, NEW c \in 1..Len(conns), StrandWriteTest(c)
  PROVE  AsyncInv'
<1> DEFINE r == conns[c]
           x == IF r.send_status = "kDone" /\ r.stat = "kWorking" THEN "write_lock" ELSE "idle"
           s == [r EXCEPT !.pc = x]
<1>1. /\ r \in ConnRec /\ ReadInv(r) /\ ReadSafe(r) /\ WriteInv(r, Writing(c))
      /\ Writing(c) \in BOOLEAN /\ calls \in Seq(Calls)
  BY ConnFacts
<1>2. r.pc = "do_write" /\ Put(c, s)
  BY DEF StrandWriteTest
<1> HIDE DEF r
<1>3. x \in {"write_lock", "idle"} /\ (x = "idle" => r.send_status # "kDone" \/ r.stat # "kWorking")
  OBVIOUS
<1> HIDE DEF x
<1>4. /\ s \in ConnRec /\ s.pc = x /\ s.stat = r.stat /\ SameInput(r, s)
      /\ s.read_op = r.read_op /\ s.io_block = r.io_block /\ s.write_ops = r.write_ops
      /\ s.write_done = r.write_done /\ s.send_status = r.send_status
      /\ s.send_buffer = r.send_buffer
  BY <1>1, <1>3 DEF ConnRec, SameInput
<1> HIDE DEF s
<1>5. ReadInv(s)
  <2>1. ReadKept(r, s)
    BY <1>1, <1>2, <1>3, <1>4 DEF ReadKept, SameInput, Chain, ReadSafe, ReadShape
  <2> QED BY <1>1, <2>1, ReadKeeps
<1>6. WriteInv(s, Writing(c))
  <2>1. r.send_status \in {"kSend", "kDone"}
    BY <1>1, ConnFields
  <2> QED BY <1>1, <1>3, <1>4, <2>1 DEF WriteInv, WriteSafe
<1> QED BY <1>2, <1>4, <1>5, <1>6, PutStep DEF r

\* do_write under the lock: what was buffered is on its way, or nothing was; on a
\* closed socket the write fails.
LEMMA WriteBlockStep ==
  ASSUME NEW q \in ConnRec, WriteSafe(q), q.send_status = "kSend" /\ q.stat = "kWorking" =>
           q.write_ops # <<>> \/ q.write_done # <<>>
  PROVE  /\ WriteBlock(q) \in ConnRec /\ \A w \in BOOLEAN : WriteInv(WriteBlock(q), w)
         /\ ReadSafe(q) => ReadKept(q, WriteBlock(q))
         /\ WriteBlock(q).stat = q.stat
<1> DEFINE n == Smaller(Len(q.send_buffer), BlockLen)
           block == ConsumeBlock(q.io_block, q.send_buffer, n)
           rest == FrontErase(q.send_buffer, n)
           ops == IF q.stat = "kClosed" THEN q.write_ops
                  ELSE Append(q.write_ops, [len |-> n, pos |-> 0])
           done == IF q.stat = "kClosed" THEN Append(q.write_done, "error") ELSE q.write_done
           s == WriteBlock(q)
<1>1. CASE q.send_buffer = <<>>
  <2>1. s = q
    BY <1>1 DEF WriteBlock
  <2> HIDE DEF s
  <2>2. \A w \in BOOLEAN : WriteInv(q, w)
    BY <1>1 DEF WriteInv
  <2>3. ReadSafe(q) => ReadKept(q, q)
    BY DEF ReadKept, ReadSafe, ReadShape
  <2> QED BY <2>1, <2>2, <2>3 DEF s
<1>2. CASE q.send_buffer # <<>>
  <2>1. BlockLen \in Nat \ {0}
    BY AsyncAssumption, HeaderLenAssumption
  <2>2. /\ n \in Nat \ {0} /\ n <= Len(block)
        /\ block \in Seq(Byte) /\ Len(q.io_block) <= Len(block) /\ Len(block) <= BlockLen
        /\ rest \in Seq(Byte)
    BY <1>2, <2>1, ConnFields, BlockStep DEF WriteSafe
  <2>3. s = [q EXCEPT !.io_block = block, !.send_buffer = rest, !.send_status = "kSend",
                      !.write_ops = ops, !.write_done = done]
    BY <1>2 DEF WriteBlock, ConnRec
  <2> HIDE DEF n, block, rest
  <2>4. /\ ops \in Seq(WriteOp) /\ WithinBlock(ops, Len(block))
        /\ q.stat # "kClosed" => ops # <<>>
    <3>1. q.write_ops \in Seq(WritePart) /\ WithinBlock(q.write_ops, Len(q.io_block))
      BY ConnFields DEF WriteSafe, WithinBlock, WriteOp, WritePart
    <3>2. Len(block) \in Nat /\ Len(q.io_block) \in Nat
      BY <2>2, ConnFields, LenProperties
    <3> DEFINE more == Append(q.write_ops, [len |-> n, pos |-> 0])
    <3>3. /\ WithinBlock(q.write_ops, Len(block)) /\ WithinBlock(more, Len(block))
          /\ more \in Seq(WriteOp)
      BY <2>2, <3>1, <3>2, AddPart DEF WriteOp, WritePart
    <3>4. more # <<>>
      <4> DEFINE op == [len |-> n, pos |-> 0]
      <4>1. op \in WritePart
        BY <2>2 DEF WritePart
      <4> HIDE DEF op
      <4>2. Append(q.write_ops, op) # <<>>
        BY <3>1, <4>1, AppendProperties
      <4> QED BY <4>2 DEF op
    <3> HIDE DEF more
    <3>5. q.write_ops \in Seq(WriteOp)
      BY ConnFields
    <3> QED BY <3>3, <3>4, <3>5 DEF more
  <2>5. /\ done \in Seq(WriteEc) /\ (q.stat = "kClosed" => done # <<>>)
        /\ \A i \in 1..Len(done) : done[i] = "aborted" => q.stat = "kClosed"
    <3>1. q.write_done \in Seq(WriteEc) /\ "error" \in WriteEc
      BY ConnFields DEF WriteEc
    <3>2. Append(q.write_done, "error") \in Seq(WriteEc) /\ Append(q.write_done, "error") # <<>>
      BY <3>1, AppendProperties
    <3> QED BY <3>1, <3>2 DEF WriteSafe
  <2> HIDE DEF ops, done, s
  <2>6. s \in ConnRec
    BY <2>2, <2>3, <2>4, <2>5 DEF ConnRec
  <2>7. /\ s.stat = q.stat /\ s.pc = q.pc /\ SameInput(q, s) /\ s.read_op = q.read_op
        /\ s.io_block = block /\ s.write_ops = ops /\ s.write_done = done
    BY <2>3 DEF ConnRec, SameInput
  <2>8. ASSUME NEW w \in BOOLEAN PROVE WriteInv(s, w)
    <3>1. WriteSafe(s)
      BY <2>2, <2>4, <2>5, <2>7 DEF WriteSafe, WithinBlock
    <3>2. q.stat \in {"kWorking", "kClosed"}
      BY ConnFields
    <3> QED BY <2>4, <2>5, <2>7, <3>1, <3>2 DEF WriteInv
  <2>9. ReadSafe(q) => ReadKept(q, s)
    BY <2>7 DEF ReadKept, SameInput, ReadSafe, ReadShape
  <2> QED BY <2>6, <2>7, <2>8, <2>9 DEF s
<1> QED BY <1>1, <1>2

\* do_write by the strand.
LEMMA StrandWriteStep ==
  ASSUME AsyncInv, NEW c \in 1..Len(conns), StrandWrite(c)
  PROVE  AsyncInv'
<1> DEFINE r == conns[c]
           q == [r EXCEPT !.pc = "idle"]
<1>1. /\ r \in ConnRec /\ ReadInv(r) /\ ReadSafe(r) /\ WriteInv(r, Writing(c))
      /\ Writing(c) \in BOOLEAN /\ calls \in Seq(Calls)
  BY ConnFacts
<1>2. r.pc = "write_lock" /\ Put(c, WriteBlock(q))
  BY DEF StrandWrite
<1> HIDE DEF r
<1>3. /\ q \in ConnRec /\ q.pc = "idle" /\ q.stat = r.stat /\ SameInput(r, q)
      /\ q.read_op = r.read_op /\ q.io_block = r.io_block /\ q.write_ops = r.write_ops
      /\ q.write_done = r.write_done /\ q.send_status = r.send_status
  BY <1>1 DEF ConnRec, SameInput
<1> HIDE DEF q
<1>4. ReadInv(q) /\ ReadSafe(q)
  <2>1. ReadKept(r, q)
    BY <1>1, <1>2, <1>3 DEF ReadKept, SameInput, Chain, ReadSafe, ReadShape
  <2> QED BY <1>1, <2>1, ReadKeeps
<1>5. WriteSafe(q) /\ (q.send_status = "kSend" /\ q.stat = "kWorking" =>
                        q.write_ops # <<>> \/ q.write_done # <<>>)
  BY <1>1, <1>3 DEF WriteInv, WriteSafe
<1>6. /\ WriteBlock(q) \in ConnRec /\ ReadInv(WriteBlock(q)) /\ WriteBlock(q).stat = r.stat
      /\ WriteInv(WriteBlock(q), Writing(c))
  BY <1>1, <1>3, <1>4, <1>5, WriteBlockStep, ReadKeeps
<1> QED BY <1>2, <1>6, PutStep DEF r

\* The oldest completion is taken from the queue.
LEMMA TakeDone ==
  ASSUME NEW done \in Seq(WriteEc), done # <<>>
  PROVE  /\ Tail(done) \in Seq(WriteEc) /\ Head(done) \in WriteEc /\ Head(done) = done[1]
         /\ Len(done) >= 1 /\ Len(done) \in Nat
         /\ \A i \in 1..Len(Tail(done)) : i + 1 \in 1..Len(done) /\ Tail(done)[i] = done[i + 1]
<1>1. /\ Tail(done) \in Seq(WriteEc) /\ Head(done) \in WriteEc /\ Head(done) = done[1]
      /\ Len(done) \in Nat \ {0} /\ Len(Tail(done)) = Len(done) - 1
      /\ \A i \in 1..Len(Tail(done)) : Tail(done)[i] = done[i + 1]
  BY HeadTailProperties, LenProperties, EmptySeq
<1> QED BY <1>1

\* write_handler: it goes on with do_write.
LEMMA WriteHandlerStep ==
  ASSUME AsyncInv, NEW c \in 1..Len(conns), write_handler(c)
  PROVE  AsyncInv'
<1> DEFINE r == conns[c]
           tl == Tail(r.write_done)
           s == [r EXCEPT !.write_done = tl, !.send_status = "kDone", !.pc = "do_write"]
<1>1. /\ r \in ConnRec /\ ReadInv(r) /\ ReadSafe(r) /\ WriteInv(r, Writing(c))
      /\ Writing(c) \in BOOLEAN /\ calls \in Seq(Calls)
  BY ConnFacts
<1>2. r.pc = "idle" /\ r.write_done # <<>> /\ Put(c, s)
  BY DEF write_handler
<1> HIDE DEF r
<1>3. tl \in Seq(WriteEc) /\ \A i \in 1..Len(tl) : i + 1 \in 1..Len(r.write_done)
                                                  /\ tl[i] = r.write_done[i + 1]
  BY <1>1, <1>2, ConnFields, TakeDone
<1> HIDE DEF tl
<1>4. /\ s \in ConnRec /\ s.pc = "do_write" /\ s.stat = r.stat /\ SameInput(r, s)
      /\ s.read_op = r.read_op /\ s.io_block = r.io_block /\ s.write_ops = r.write_ops
      /\ s.write_done = tl /\ s.send_status = "kDone"
  BY <1>1, <1>3 DEF ConnRec, SameInput
<1> HIDE DEF s
<1>5. ReadInv(s)
  <2>1. ReadKept(r, s)
    BY <1>1, <1>2, <1>4 DEF ReadKept, SameInput, Chain, ReadSafe, ReadShape
  <2> QED BY <1>1, <2>1, ReadKeeps
<1>6. WriteInv(s, Writing(c))
  BY <1>1, <1>3, <1>4 DEF WriteInv, WriteSafe
<1> QED BY <1>2, <1>4, <1>5, <1>6, PutStep DEF r

\* write_handler with an error code.
LEMMA WriteHandlerEcStep ==
  ASSUME AsyncInv, NEW c \in 1..Len(conns), WriteHandlerEc(c)
  PROVE  AsyncInv'
<1> DEFINE r == conns[c]
           tl == Tail(r.write_done)
           ec == Head(r.write_done)
           s == [r EXCEPT !.write_done = tl]
<1>1. /\ r \in ConnRec /\ ReadInv(r) /\ ReadSafe(r) /\ WriteInv(r, Writing(c))
      /\ Writing(c) \in BOOLEAN /\ calls \in Seq(Calls)
  BY ConnFacts
<1>2. r.pc = "idle" /\ r.write_done # <<>> /\ Put(c, handle_socket_ec(s, ec))
  BY DEF WriteHandlerEc
<1> HIDE DEF r
<1>3. /\ tl \in Seq(WriteEc) /\ ec = r.write_done[1] /\ 1 \in 1..Len(r.write_done)
      /\ \A i \in 1..Len(tl) : i + 1 \in 1..Len(r.write_done) /\ tl[i] = r.write_done[i + 1]
  BY <1>1, <1>2, ConnFields, TakeDone
<1> HIDE DEF tl, ec
<1>4. /\ s \in ConnRec /\ s.pc = r.pc /\ s.stat = r.stat /\ SameInput(r, s)
      /\ s.read_op = r.read_op /\ s.io_block = r.io_block /\ s.write_ops = r.write_ops
      /\ s.write_done = tl
  BY <1>1, <1>3 DEF ConnRec, SameInput
<1> HIDE DEF s
<1>5. ReadInv(s) /\ ReadSafe(s)
  <2>1. ReadKept(r, s)
    BY <1>1, <1>2, <1>4 DEF ReadKept, SameInput, ReadSafe, ReadShape
  <2> QED BY <1>1, <2>1, ReadKeeps
<1>6. WriteSafe(s)
  BY <1>1, <1>3, <1>4 DEF WriteInv, WriteSafe
<1>7. CASE ec = "aborted"
  <2>1. Put(c, s)
    BY <1>2, <1>7 DEF handle_socket_ec
  <2>2. r.stat = "kClosed"
    BY <1>1, <1>3, <1>7 DEF WriteInv, WriteSafe
  <2>3. WriteInv(s, Writing(c))
    BY <1>4, <1>6, <2>2 DEF WriteInv
  <2> QED BY <1>4, <1>5, <2>1, <2>3, PutStep DEF r
<1>8. CASE ec # "aborted"
  <2>1. Put(c, Shut(s))
    BY <1>2, <1>8 DEF handle_socket_ec
  <2>2. /\ Shut(s) \in ConnRec /\ Shut(s).stat = "kClosed" /\ ReadInv(Shut(s))
        /\ WriteInv(Shut(s), Writing(c))
    BY <1>1, <1>4, <1>5, <1>6, ShutFacts
  <2> QED BY <2>1, <2>2, PutStep
<1> QED BY <1>7, <1>8

-----------------------------------------------------------------------------
\* A read completes, within what the server has sent.
LEMMA ReadCompleteStep ==
  ASSUME AsyncInv, NEW c \in 1..Len(conns), ReadComplete(c)
  PROVE  AsyncInv'
<1> DEFINE r == conns[c]
<1>1. /\ r \in ConnRec /\ ReadInv(r) /\ ReadSafe(r) /\ WriteInv(r, Writing(c))
      /\ Writing(c) \in BOOLEAN /\ calls \in Seq(Calls)
  BY ConnFacts
<1>2. PICK n \in r.read_op.need..BlockLen :
        /\ r.read_op.st = "pending" /\ r.rcvd + n <= Len(Stream(r))
        /\ Put(c, [r EXCEPT !.read_op.st = "ok", !.read_op.n = n])
  BY DEF ReadComplete
<1> DEFINE op == [r.read_op EXCEPT !.st = "ok", !.n = n]
           s == [r EXCEPT !.read_op = op]
<1> HIDE DEF r
<1>3. Put(c, s)
  <2>1. [r EXCEPT !.read_op.st = "ok", !.read_op.n = n] = s
    BY <1>1 DEF ConnRec, ReadOp
  <2> QED BY <1>2, <2>1
<1>4. op \in ReadOp /\ op.st = "ok" /\ op.kind = r.read_op.kind /\ op.n = n
  <2>1. r.read_op \in ReadOp
    BY <1>1, ConnFields
  <2>2. n \in 0..BlockLen
    <3>1. r.read_op.need \in 0..BlockLen
      BY <2>1 DEF ReadOp
    <3> QED BY <3>1, AsyncAssumption
  <2> QED BY <2>1, <2>2 DEF ReadOp
<1> HIDE DEF op
<1>5. s \in ConnRec /\ s.read_op = op /\ s.pc = r.pc /\ SameInput(r, s) /\ WriteKept(r, s)
  BY <1>1, <1>4 DEF ConnRec, SameInput, WriteKept
<1> HIDE DEF s
<1>6. WriteInv(s, Writing(c)) /\ s.stat = r.stat
  BY <1>1, <1>5, WriteKeeps DEF WriteKept
<1>7. ReadInv(s)
  <2>1. Stream(s) = Stream(r) /\ \A k : End(s, k) = End(r, k)
    BY <1>5 DEF SameInput, Stream, End, Parts
  <2>2. (Active(s) <=> Active(r)) /\ (InBody(s) <=> InBody(r))
    BY <1>4, <1>5 DEF Active, InBody
  <2>3. Base(s) = Base(r)
    BY <1>5, <2>1, <2>2 DEF SameInput, Base
  <2>4. ReadShape(s)
    BY <1>1, <1>2, <1>4, <1>5, <2>1 DEF SameInput, ReadSafe, ReadShape
  <2>5. FrameInv(s)
    BY <1>1, <1>5, <2>1, <2>2, <2>3 DEF SameInput, ReadSafe, FrameInv
  <2>6. IdsMade(s)
    BY <1>1, <1>5 DEF SameInput, ReadSafe, IdsMade
  <2> QED BY <1>1, <1>6, <2>2, <2>4, <2>5, <2>6 DEF ReadInv, ReadSafe
<1> QED BY <1>3, <1>5, <1>6, <1>7, PutStep DEF r

\* A read fails, the server having closed.
LEMMA ReadFailStep ==
  ASSUME AsyncInv, NEW c \in 1..Len(conns), ReadFail(c)
  PROVE  AsyncInv'
<1> DEFINE r == conns[c]
           op == [r.read_op EXCEPT !.st = "error"]
           s == [r EXCEPT !.read_op = op]
<1>1. /\ r \in ConnRec /\ ReadInv(r) /\ ReadSafe(r) /\ WriteInv(r, Writing(c))
      /\ Writing(c) \in BOOLEAN /\ calls \in Seq(Calls)
  BY ConnFacts
<1>2. r.read_op.st = "pending" /\ Put(c, [r EXCEPT !.read_op.st = "error"])
  BY DEF ReadFail
<1> HIDE DEF r
<1>3. Put(c, s)
  <2>1. [r EXCEPT !.read_op.st = "error"] = s
    BY <1>1 DEF ConnRec, ReadOp
  <2> QED BY <1>2, <2>1
<1>4. op \in ReadOp /\ op.st = "error" /\ op.kind = r.read_op.kind /\ op.n = r.read_op.n
  BY <1>1, ConnFields DEF ReadOp
<1> HIDE DEF op
<1>5. s \in ConnRec /\ s.read_op = op /\ s.pc = r.pc /\ SameInput(r, s) /\ WriteKept(r, s)
  BY <1>1, <1>4 DEF ConnRec, SameInput, WriteKept
<1> HIDE DEF s
<1>6. WriteInv(s, Writing(c)) /\ s.stat = r.stat
  BY <1>1, <1>5, WriteKeeps DEF WriteKept
<1>7. ReadInv(s)
  <2>1. ReadKept(r, s)
    BY <1>1, <1>2, <1>4, <1>5, <1>6 DEF ReadKept, SameInput
  <2> QED BY <1>1, <2>1, ReadKeeps
<1> QED BY <1>3, <1>5, <1>6, <1>7, PutStep DEF r

\* Part of the oldest write goes out; the write may be complete with it.
LEMMA TransmitStep ==
  ASSUME AsyncInv, NEW c \in 1..Len(conns), Transmit(c)
  PROVE  AsyncInv'
<1> DEFINE r == conns[c]
           op == Head(r.write_ops)
<1>1. /\ r \in ConnRec /\ ReadInv(r) /\ ReadSafe(r) /\ WriteInv(r, Writing(c))
      /\ Writing(c) \in BOOLEAN /\ calls \in Seq(Calls)
  BY ConnFacts
<1>2. PICK k \in 1..(op.len - op.pos) :
        LET s == [r EXCEPT !.wire = @ \o SubSeq(r.io_block, op.pos + 1, op.pos + k)] IN
        Put(c, IF op.pos + k = op.len
               THEN [s EXCEPT !.write_ops = Tail(@), !.write_done = Append(@, "ok")]
               ELSE [s EXCEPT !.write_ops = Append(Tail(@), [op EXCEPT !.pos = @ + k])])
  BY DEF Transmit
<1>3. r.write_ops # <<>>
  BY DEF Transmit
<1> DEFINE w == r.wire \o SubSeq(r.io_block, op.pos + 1, op.pos + k)
           tl == Tail(r.write_ops)
           full == Append(r.write_done, "ok")
           back == Append(tl, [op EXCEPT !.pos = @ + k])
           s1 == [r EXCEPT !.wire = w, !.write_ops = tl, !.write_done = full]
           s2 == [r EXCEPT !.wire = w, !.write_ops = back]
<1> HIDE DEF r
<1>4. IF op.pos + k = op.len THEN Put(c, s1) ELSE Put(c, s2)
  BY <1>1, <1>2 DEF ConnRec
<1>5. /\ r.write_ops \in Seq(WritePart) /\ r.io_block \in Seq(Byte) /\ Len(r.io_block) \in Nat
      /\ WithinBlock(r.write_ops, Len(r.io_block)) /\ r.wire \in Seq(Byte)
      /\ r.write_done \in Seq(WriteEc)
  <2>1. r.io_block \in Seq(Byte)
    BY <1>1, ConnFields
  <2> QED BY <1>1, <2>1, ConnFields, LenProperties DEF WriteInv, WriteSafe, WithinBlock, WriteOp, WritePart
<1>6. /\ op.pos \in Nat /\ op.pos + k <= Len(r.io_block) /\ WithinBlock(tl, Len(r.io_block))
      /\ op.pos + k # op.len => WithinBlock(back, Len(r.io_block))
  BY <1>3, <1>5, PartStep
<1>7. k \in Nat /\ op \in WritePart /\ tl \in Seq(WritePart)
  <2>1. op \in WritePart /\ tl \in Seq(WritePart)
    BY <1>3, <1>5, HeadTailProperties
  <2>2. op.len \in Nat
    BY <2>1 DEF WritePart
  <2> QED BY <1>6, <2>1, <2>2
<1>8. back \in Seq(WritePart) /\ back # <<>>
  <2> HIDE DEF op
  <2> DEFINE nop == [op EXCEPT !.pos = @ + k]
  <2>1. nop \in WritePart
    BY <1>7 DEF WritePart
  <2> HIDE DEF nop, tl
  <2>2. Append(tl, nop) \in Seq(WritePart) /\ Append(tl, nop) # <<>>
    BY <1>7, <2>1, AppendProperties
  <2> QED BY <2>2 DEF nop
<1>9. /\ full \in Seq(WriteEc) /\ full # <<>> /\ Len(full) = Len(r.write_done) + 1
      /\ \A i \in 1..Len(r.write_done) : full[i] = r.write_done[i]
      /\ full[Len(r.write_done) + 1] = "ok" /\ Len(r.write_done) \in Nat
  <2>1. "ok" \in WriteEc
    BY DEF WriteEc
  <2> QED BY <1>5, <2>1, AppendProperties, LenProperties
<1>10. w \in Seq(Byte)
  <2> HIDE DEF op
  <2>1. \A i \in (op.pos + 1)..(op.pos + k) : i \in 1..Len(r.io_block)
    BY <1>5, <1>6, <1>7
  <2>2. \A i \in (op.pos + 1)..(op.pos + k) : r.io_block[i] \in Byte
    BY <1>5, <2>1, ElementOfSeq
  <2>3. op.pos + 1 \in Int /\ op.pos + k \in Int
    BY <1>6, <1>7
  <2>4. SubSeq(r.io_block, op.pos + 1, op.pos + k) \in Seq(Byte)
    BY <2>2, <2>3, SubSeqProperties
  <2> QED BY <1>5, <2>4, ConcatProperties
<1> HIDE DEF w, tl, full, back
<1>11. CASE op.pos + k = op.len
  <2>1. Put(c, s1)
    BY <1>4, <1>11
  <2>2. /\ s1 \in ConnRec /\ s1.pc = r.pc /\ s1.stat = r.stat /\ SameInput(r, s1)
        /\ s1.read_op = r.read_op /\ s1.io_block = r.io_block /\ s1.write_ops = tl
        /\ s1.write_done = full
    BY <1>1, <1>7, <1>9, <1>10 DEF ConnRec, SameInput, WriteOp, WritePart
  <2> HIDE DEF s1
  <2>3. ReadInv(s1)
    <3>1. ReadKept(r, s1)
      BY <1>1, <2>2 DEF ReadKept, SameInput, ReadSafe, ReadShape
    <3> QED BY <1>1, <3>1, ReadKeeps
  <2>4. \A i \in 1..Len(full) : full[i] = "aborted" => r.stat = "kClosed"
    <3>1. \A i \in 1..Len(full) : i = Len(r.write_done) + 1 \/ i \in 1..Len(r.write_done)
      BY <1>9
    <3> QED BY <1>1, <1>9, <3>1 DEF WriteInv, WriteSafe
  <2>5. WriteInv(s1, Writing(c))
    BY <1>1, <1>6, <1>9, <2>2, <2>4 DEF WriteInv, WriteSafe, WithinBlock
  <2> QED BY <2>1, <2>2, <2>3, <2>5, PutStep DEF r
<1>12. CASE op.pos + k # op.len
  <2>1. Put(c, s2)
    BY <1>4, <1>12
  <2>2. /\ s2 \in ConnRec /\ s2.pc = r.pc /\ s2.stat = r.stat /\ SameInput(r, s2)
        /\ s2.read_op = r.read_op /\ s2.io_block = r.io_block /\ s2.write_ops = back
        /\ s2.write_done = r.write_done
    BY <1>1, <1>8, <1>10 DEF ConnRec, SameInput, WriteOp, WritePart
  <2> HIDE DEF s2
  <2>3. ReadInv(s2)
    <3>1. ReadKept(r, s2)
      BY <1>1, <2>2 DEF ReadKept, SameInput, ReadSafe, ReadShape
    <3> QED BY <1>1, <3>1, ReadKeeps
  <2>4. WriteInv(s2, Writing(c))
    BY <1>1, <1>6, <1>8, <1>12, <2>2 DEF WriteInv, WriteSafe, WithinBlock
  <2> QED BY <2>1, <2>2, <2>3, <2>4, PutStep DEF r
<1> QED BY <1>11, <1>12

\* A write fails, the server having closed.
LEMMA WriteFailStep ==
  ASSUME AsyncInv, NEW c \in 1..Len(conns), WriteFail(c)
  PROVE  AsyncInv'
<1> DEFINE r == conns[c]
           tl == Tail(r.write_ops)
           full == Append(r.write_done, "error")
           s == [r EXCEPT !.write_ops = tl, !.write_done = full]
<1>1. /\ r \in ConnRec /\ ReadInv(r) /\ ReadSafe(r) /\ WriteInv(r, Writing(c))
      /\ Writing(c) \in BOOLEAN /\ calls \in Seq(Calls)
  BY ConnFacts
<1>2. r.write_ops # <<>> /\ Put(c, s)
  BY DEF WriteFail
<1> HIDE DEF r
<1>3. r.write_ops \in Seq(WriteOp) /\ r.write_done \in Seq(WriteEc)
  BY <1>1, ConnFields
<1>4. tl \in Seq(WriteOp) /\ WithinBlock(tl, Len(r.io_block))
  <2>1. /\ tl \in Seq(WriteOp) /\ Len(r.write_ops) \in Nat \ {0}
        /\ Len(tl) = Len(r.write_ops) - 1 /\ \A i \in 1..Len(tl) : tl[i] = r.write_ops[i + 1]
    BY <1>2, <1>3, HeadTailProperties, LenProperties, EmptySeq
  <2>2. \A i \in 1..Len(tl) : i + 1 \in 1..Len(r.write_ops)
    BY <2>1
  <2> HIDE DEF tl
  <2> QED BY <1>1, <2>1, <2>2 DEF WithinBlock, WriteInv, WriteSafe
<1>5. /\ full \in Seq(WriteEc) /\ full # <<>> /\ Len(full) = Len(r.write_done) + 1
      /\ \A i \in 1..Len(r.write_done) : full[i] = r.write_done[i]
      /\ full[Len(r.write_done) + 1] = "error" /\ Len(r.write_done) \in Nat
  <2>1. "error" \in WriteEc
    BY DEF WriteEc
  <2> QED BY <1>3, <2>1, AppendProperties, LenProperties
<1> HIDE DEF tl, full
<1>6. /\ s \in ConnRec /\ s.pc = r.pc /\ s.stat = r.stat /\ SameInput(r, s)
      /\ s.read_op = r.read_op /\ s.io_block = r.io_block /\ s.write_ops = tl
      /\ s.write_done = full
  BY <1>1, <1>4, <1>5 DEF ConnRec, SameInput
<1> HIDE DEF s
<1>7. ReadInv(s)
  <2>1. ReadKept(r, s)
    BY <1>1, <1>6 DEF ReadKept, SameInput, ReadSafe, ReadShape
  <2> QED BY <1>1, <2>1, ReadKeeps
<1>8. \A i \in 1..Len(full) : full[i] = "aborted" => r.stat = "kClosed"
  <2>1. \A i \in 1..Len(full) : i = Len(r.write_done) + 1 \/ i \in 1..Len(r.write_done)
    BY <1>5
  <2> QED BY <1>1, <1>5, <2>1 DEF WriteInv, WriteSafe
<1>9. WriteInv(s, Writing(c))
  BY <1>1, <1>4, <1>5, <1>6, <1>8 DEF WriteInv, WriteSafe, WithinBlock
<1> QED BY <1>2, <1>6, <1>7, <1>9, PutStep DEF r

\* The server closes its end.
LEMMA ServerCloseStep ==
  ASSUME AsyncInv, NEW c \in 1..Len(conns), ServerClose(c)
  PROVE  AsyncInv'
<1> DEFINE r == conns[c]
           s == [r EXCEPT !.peer_up = FALSE]
<1>1. /\ r \in ConnRec /\ ReadInv(r) /\ ReadSafe(r) /\ WriteInv(r, Writing(c))
      /\ Writing(c) \in BOOLEAN /\ calls \in Seq(Calls)
  BY ConnFacts
<1>2. Put(c, s)
  BY DEF ServerClose
<1> HIDE DEF r
<1>3. s \in ConnRec /\ s.pc = r.pc /\ SameInput(r, s) /\ s.read_op = r.read_op /\ WriteKept(r, s)
  BY <1>1 DEF ConnRec, SameInput, WriteKept
<1> HIDE DEF s
<1>4. WriteInv(s, Writing(c)) /\ s.stat = r.stat
  BY <1>1, <1>3, WriteKeeps DEF WriteKept
<1>5. ReadInv(s)
  <2>1. ReadKept(r, s)
    BY <1>1, <1>3, <1>4 DEF ReadKept, SameInput, ReadSafe, ReadShape
  <2> QED BY <1>1, <2>1, ReadKeeps
<1> QED BY <1>2, <1>3, <1>4, <1>5, PutStep DEF r

\* The server sends a response: it comes behind the others, which stay where they
\* were.
LEMMA MoreAnswers ==
  ASSUME NEW r \in ConnRec, NEW s \in ConnRec, calls \in Seq(Calls), IdsMade(r),
         NEW n \in 1..Len(calls), n \in Ids, s.answers = Append(r.answers, n)
  PROVE  /\ Stream(s) = Stream(r) \o NetStr(n, calls[n].reply)
         /\ NetStr(n, calls[n].reply) \in Seq(Byte)
         /\ \A k \in 0..Len(r.answers) : End(s, k) = End(r, k)
         /\ Len(s.answers) = Len(r.answers) + 1
         /\ \A i \in 1..Len(r.answers) : s.answers[i] = r.answers[i]
         /\ \A i \in 1..Len(s.answers) : s.answers[i] \in 1..Len(calls)
<1> DEFINE m == Len(r.answers)
           tt == Parts(r)
           ss == Parts(s)
<1>1. /\ m \in Nat /\ Len(s.answers) = m + 1 /\ s.answers[m + 1] = n
      /\ \A i \in 1..m : s.answers[i] = r.answers[i]
  BY ConnFields, LenProperties, AppendProperties
<1>2. \A i \in 1..(m + 1) : s.answers[i] \in 1..Len(calls)
  <2>1. \A i \in 1..(m + 1) : i = m + 1 \/ i \in 1..m
    BY <1>1
  <2> QED BY <1>1, <2>1 DEF IdsMade
<1>3. \A j \in 1..Len(calls) : NetStr(j, calls[j].reply) \in Seq(Byte)
  <2> TAKE j \in 1..Len(calls)
  <2>1. calls[j] \in Calls /\ j \in Nat
    BY ElementOfSeq, LenProperties
  <2>2. calls[j].reply \in Nat
    BY <2>1 DEF Calls
  <2> QED BY <2>1, <2>2, MessageType
<1>4. ss \in Seq(Seq(Byte)) /\ Len(ss) = m + 1 /\ ss[m + 1] = NetStr(n, calls[n].reply)
  <2>1. \A i \in 1..(m + 1) : NetStr(s.answers[i], calls[s.answers[i]].reply) \in Seq(Byte)
    BY <1>2, <1>3
  <2>2. ss = [i \in 1..(m + 1) |-> NetStr(s.answers[i], calls[s.answers[i]].reply)]
    BY <1>1 DEF Parts
  <2>3. m + 1 \in 1..(m + 1)
    BY <1>1
  <2>4. m + 1 \in Nat /\ s.answers[m + 1] = n
    BY <1>1
  <2> HIDE DEF ss, m
  <2>5. ss[m + 1] = NetStr(n, calls[n].reply)
    BY ONLY <2>2, <2>3, <2>4
  <2>6. ss \in [1..(m + 1) -> Seq(Byte)]
    BY ONLY <2>1, <2>2
  <2>7. ss \in Seq(Seq(Byte)) /\ Len(ss) = m + 1
    BY ONLY <2>4, <2>6
  <2> QED BY <2>5, <2>7
<1>5. tt \in Seq(Seq(Byte)) /\ Len(tt) = m
  <2>1. \A i \in 1..m : NetStr(r.answers[i], calls[r.answers[i]].reply) \in Seq(Byte)
    BY <1>3 DEF IdsMade
  <2> QED BY <1>1, <2>1 DEF Parts
<1>6. \A i \in 1..m : tt[i] = ss[i]
  BY <1>1 DEF Parts
<1>7. Stream(r) = FlattenSeq(tt) /\ Stream(s) = FlattenSeq(ss)
  BY DEF Stream, Parts
<1> HIDE DEF ss, tt
<1>8. FlattenSeq(ss) = FlattenSeq(tt) \o ss[Len(ss)]
  BY <1>4, <1>5, <1>6, FlattenNext
<1>9. ASSUME NEW k \in 0..m PROVE Offset(ss, k) = Offset(tt, k)
  <2> HIDE DEF m
  <2>1. SubSeq(ss, 1, k) = SubSeq(tt, 1, k)
    <3>1. \A i \in 1..k : i \in 1..m
      BY <1>1
    <3>2. SubSeq(ss, 1, k) = [i \in 1..k |-> ss[i]] /\ SubSeq(tt, 1, k) = [i \in 1..k |-> tt[i]]
      BY <1>1, <1>4, <1>5
    <3> QED BY <1>6, <3>1, <3>2
  <2> QED BY <2>1 DEF Offset
<1>10. \A k \in 0..m : End(s, k) = End(r, k)
  BY <1>9 DEF End, ss, tt
<1> QED BY <1>1, <1>2, <1>3, <1>4, <1>7, <1>8, <1>10

\* Answer: what was received is still what comes first.
LEMMA AnswerStep ==
  ASSUME AsyncInv, NEW c \in 1..Len(conns), Answer(c)
  PROVE  AsyncInv'
<1> DEFINE r == conns[c]
<1>1. /\ r \in ConnRec /\ ReadInv(r) /\ ReadSafe(r) /\ WriteInv(r, Writing(c))
      /\ Writing(c) \in BOOLEAN /\ calls \in Seq(Calls)
  BY ConnFacts
<1>2. PICK i \in 1..Len(r.requests) : Put(c, [r EXCEPT !.answers = Append(@, r.requests[i])])
  BY DEF Answer
<1> DEFINE n == r.requests[i]
           more == Append(r.answers, n)
           s == [r EXCEPT !.answers = more]
<1>3. Put(c, s)
  BY <1>2
<1> HIDE DEF r
<1>4. n \in 1..Len(calls) /\ n \in Ids
  <2>1. r.requests \in Seq(Ids)
    BY <1>1, ConnFields
  <2> QED BY <1>1, <2>1, ElementOfSeq DEF ReadSafe, IdsMade
<1> HIDE DEF n
<1>5. more \in Seq(Ids)
  BY <1>1, <1>4, ConnFields, AppendProperties
<1> HIDE DEF more
<1>6. /\ s \in ConnRec /\ s.answers = more /\ s.pc = r.pc /\ s.read_op = r.read_op
      /\ s.recv_buffer = r.recv_buffer /\ s.recv_header = r.recv_header /\ s.rcvd = r.rcvd
      /\ s.called = r.called /\ s.requests = r.requests /\ WriteKept(r, s)
  BY <1>1, <1>5 DEF ConnRec, WriteKept
<1> HIDE DEF s
<1>7. WriteInv(s, Writing(c)) /\ s.stat = r.stat
  BY <1>1, <1>6, WriteKeeps DEF WriteKept
<1> DEFINE msg == NetStr(n, calls[n].reply)
<1>8. /\ Stream(s) = Stream(r) \o msg /\ msg \in Seq(Byte)
      /\ \A k \in 0..Len(r.answers) : End(s, k) = End(r, k)
      /\ Len(s.answers) = Len(r.answers) + 1
      /\ \A j \in 1..Len(r.answers) : s.answers[j] = r.answers[j]
      /\ \A j \in 1..Len(s.answers) : s.answers[j] \in 1..Len(calls)
  BY <1>1, <1>4, <1>6, MoreAnswers DEF more, ReadSafe
<1> HIDE DEF msg
<1>9. /\ Stream(r) \in Seq(Byte) /\ Len(Stream(r)) \in Nat /\ Len(r.answers) \in Nat
      /\ Len(r.called) \in Nat /\ Len(r.called) <= Len(r.answers) /\ r.rcvd \in Nat
      /\ r.recv_buffer \in Seq(Byte) /\ r.read_op.n \in Nat
  <2>1. Stream(r) \in Seq(Byte)
    BY <1>1, StreamFacts DEF ReadSafe
  <2>2. r.answers \in Seq(Ids) /\ r.called \in Seq(Called)
    BY <1>1, ConnFields
  <2> QED BY <1>1, <2>1, <2>2, ConnFields, LenProperties DEF ReadSafe, FrameInv
<1>10. Len(r.called) \in 0..Len(r.answers)
  BY <1>9
<1>11. (Active(s) <=> Active(r)) /\ (InBody(s) <=> InBody(r)) /\ Base(s) = Base(r)
  BY <1>6, <1>8, <1>10 DEF Active, InBody, Base
<1>12. Len(Stream(s)) >= Len(Stream(r)) /\ Len(Stream(s)) \in Nat
  BY <1>8, <1>9, ConcatProperties, LenProperties
<1>13. ReadShape(s)
  BY <1>1, <1>6, <1>7, <1>9, <1>12 DEF ReadSafe, ReadShape
<1>14. FrameInv(s)
  <2>1. Active(r) => HoldsPart(s.recv_buffer, Stream(s), Base(s), s.rcvd)
    <3>1. Base(r) \in Nat
      <4>1. End(r, Len(r.called)) \in Nat
        BY <1>1, <1>9, <1>10, StreamFacts DEF ReadSafe
      <4> QED BY <4>1, HeaderLenAssumption DEF Base
    <3>2. r.rcvd <= Len(Stream(r))
      BY <1>1 DEF ReadSafe, ReadShape
    <3>3. Active(r) => HoldsPart(r.recv_buffer, Stream(r), Base(r), r.rcvd)
      BY <1>1 DEF ReadSafe, FrameInv
    <3>4. Active(r) => HoldsPart(r.recv_buffer, Stream(r) \o msg, Base(r), r.rcvd)
      BY <1>8, <1>9, <3>1, <3>2, <3>3, HoldsMore
    <3> QED BY <1>6, <1>8, <1>11, <3>4
  <2>2. Len(s.called) <= Len(s.answers)
    BY <1>6, <1>8, <1>9
  <2>3. \A j \in 1..Len(s.called) : s.called[j] = Outcome(s.answers[j])
    <3>1. \A j \in 1..Len(r.called) : j \in 1..Len(r.answers)
      BY <1>9
    <3>2. \A j \in 1..Len(r.called) : r.called[j] = Outcome(r.answers[j])
      BY <1>1 DEF ReadSafe, FrameInv
    <3> QED BY <1>6, <1>8, <3>1, <3>2
  <2>4. ASSUME InBody(s)
        PROVE  /\ Len(s.called) < Len(s.answers)
               /\ s.recv_header = [magic |-> TRUE,
                                   len |-> calls[s.answers[Len(s.called) + 1]].reply]
    <3>1. /\ Len(r.called) < Len(r.answers)
          /\ r.recv_header = [magic |-> TRUE,
                              len |-> calls[r.answers[Len(r.called) + 1]].reply]
      BY <1>1, <1>11, <2>4 DEF ReadSafe, FrameInv
    <3>2. Len(r.called) + 1 \in 1..Len(r.answers)
      BY <1>9, <3>1
    <3>3. s.answers[Len(r.called) + 1] = r.answers[Len(r.called) + 1]
      BY <1>8, <3>2
    <3> QED BY <1>6, <1>8, <1>9, <3>1, <3>3
  <2> QED BY <1>11, <2>1, <2>2, <2>3, <2>4 DEF FrameInv
<1>15. IdsMade(s)
  BY <1>1, <1>6, <1>8 DEF IdsMade, ReadSafe
<1>16. ReadInv(s)
  BY <1>1, <1>7, <1>11, <1>13, <1>14, <1>15 DEF ReadInv, ReadSafe
<1> QED BY <1>3, <1>6, <1>7, <1>16, PutStep DEF r

-----------------------------------------------------------------------------
\* A step that leaves the connections alone and makes no call; the caller may be in
\* do_write where it was not.
LEMMA SameConns ==
  ASSUME AsyncInv, conns' = conns, calls' = calls
  PROVE  /\ AllRead'
         /\ (\A c \in 1..Len(conns) : Writing(c) => Writing(c)') => AllWrite'
<1>1. AllRead'
  <2>1. ASSUME NEW c \in 1..Len(conns') PROVE ReadInv(conns[c])'
    <3>1. conns'[c] = conns[c] /\ ReadInv(conns[c])
      BY DEF AsyncInv, AllRead
    <3> QED BY <3>1, PutInv
  <2> QED BY <2>1 DEF AllRead
<1>2. ASSUME \A c \in 1..Len(conns) : Writing(c) => Writing(c)' PROVE AllWrite'
  BY <1>2 DEF AsyncInv, AllWrite, WriteInv, WriteSafe
<1> QED BY <1>1, <1>2

\* A call that is made concerns no response that has come.
LEMMA MoreCalls ==
  ASSUME calls \in Seq(Calls), NEW k \in Calls, calls' = Append(calls, k),
         NEW c, NEW s \in ConnRec, conns'[c] = s, ReadInv(s)
  PROVE  ReadInv(conns[c])'
<1>1. /\ Len(calls) \in Nat /\ Len(calls') = Len(calls) + 1
      /\ \A n \in 1..Len(calls) : calls'[n] = calls[n]
  BY AppendProperties, LenProperties
<1>2. \A n \in 1..Len(calls) : n \in 1..Len(calls')
  BY <1>1
<1>3. IdsMade(s)
  BY DEF ReadInv, ReadSafe
<1>4. \A i \in 1..Len(s.answers) :
        /\ calls'[s.answers[i]] = calls[s.answers[i]]
        /\ Outcome(s.answers[i])' = Outcome(s.answers[i])
  BY <1>1, <1>3 DEF IdsMade, Outcome
<1>5. Parts(conns[c])' = Parts(s)
  BY <1>4 DEF Parts
<1>6. Stream(conns[c])' = Stream(s) /\ \A j : End(conns[c], j)' = End(s, j)
  <2>1. Stream(conns[c])' = FlattenSeq(Parts(conns[c])') /\ Stream(s) = FlattenSeq(Parts(s))
    BY DEF Stream, Parts
  <2>2. \A j : End(conns[c], j)' = Offset(Parts(conns[c])', j)
    BY DEF End
  <2> QED BY <1>5, <2>1, <2>2 DEF End
<1>7. Base(conns[c])' = Base(s)
  BY <1>6 DEF Base, InBody
<1>8. ReadShape(conns[c])'
  BY <1>6 DEF ReadShape, ReadInv, ReadSafe
<1>9. FrameInv(conns[c])'
  <2>1. /\ Len(s.called) <= Len(s.answers)
        /\ \A i \in 1..Len(s.called) : s.called[i] = Outcome(s.answers[i])
        /\ Active(s) => HoldsPart(s.recv_buffer, Stream(s), Base(s), s.rcvd)
        /\ InBody(s) => /\ Len(s.called) < Len(s.answers)
                        /\ s.recv_header = [magic |-> TRUE,
                                            len |-> calls[s.answers[Len(s.called) + 1]].reply]
    BY DEF ReadInv, ReadSafe, FrameInv
  <2>2. Len(s.called) \in Nat /\ Len(s.answers) \in Nat
    <3>1. s.called \in Seq(Called) /\ s.answers \in Seq(Ids)
      BY ConnFields
    <3> QED BY <3>1, LenProperties
  <2>3. \A i \in 1..Len(s.called) : s.called[i] = Outcome(s.answers[i])'
    <3>1. \A i \in 1..Len(s.called) : i \in 1..Len(s.answers)
      BY <2>1, <2>2
    <3> QED BY <1>4, <2>1, <3>1
  <2>4. InBody(s) => s.recv_header = [magic |-> TRUE,
                                      len |-> calls'[s.answers[Len(s.called) + 1]].reply]
    <3>1. Len(s.called) < Len(s.answers) => Len(s.called) + 1 \in 1..Len(s.answers)
      BY <2>2
    <3> QED BY <1>4, <2>1, <3>1
  <2> QED BY <1>6, <1>7, <2>1, <2>3, <2>4 DEF FrameInv, Active, InBody, Outcome
<1>10. IdsMade(conns[c])'
  BY <1>2, <1>3 DEF IdsMade
<1> QED BY <1>8, <1>9, <1>10 DEF ReadInv, ReadSafe, Active

\* A new connection: its first read is under way.
LEMMA NewConnOK ==
  ASSUME calls \in Seq(Calls)
  PROVE  NewConn \in ConnRec /\ ReadInv(NewConn) /\ \A w \in BOOLEAN : WriteInv(NewConn, w)
<1> DEFINE e == <<>>
           op == Reading("head", HeaderLen)
           s == [stat |-> "kWorking", pc |-> "idle", recv_buffer |-> e, recv_header |-> NoHeader,
                 read_op |-> op, rcvd |-> 0, send_buffer |-> e, io_block |-> e,
                 send_status |-> "kDone", write_ops |-> e, write_done |-> e, peer_up |-> TRUE,
                 requests |-> e, wire |-> e, answers |-> e, called |-> e]
<1>1. NewConn = s
  BY DEF NewConn
<1>2. /\ e \in Seq(Byte) /\ e \in Seq(WriteOp) /\ e \in Seq(WriteEc) /\ e \in Seq(Ids)
      /\ e \in Seq(Called) /\ Len(e) = 0 /\ e = <<>>
  OBVIOUS
<1>3. op \in ReadOp /\ op.kind = "head" /\ op.st = "pending"
  BY AsyncAssumption, HeaderLenAssumption DEF Reading, ReadOp
<1>4. NoHeader \in [magic : BOOLEAN, len : Nat]
  BY DEF NoHeader
<1> HIDE DEF e, op
<1>5. s \in ConnRec
  BY <1>2, <1>3, <1>4 DEF ConnRec
<1>6. /\ s.stat = "kWorking" /\ s.pc = "idle" /\ s.recv_buffer = e /\ s.read_op = op
      /\ s.rcvd = 0 /\ s.send_buffer = e /\ s.io_block = e /\ s.send_status = "kDone"
      /\ s.write_ops = e /\ s.write_done = e /\ s.requests = e /\ s.answers = e /\ s.called = e
  OBVIOUS
<1> HIDE DEF s
<1>7. IdsMade(s)
  BY <1>2, <1>6 DEF IdsMade
<1>8. /\ Stream(s) \in Seq(Byte) /\ End(s, 0) = 0 /\ End(s, Len(s.answers)) = Len(Stream(s))
      /\ Len(Stream(s)) = 0
  <2>1. /\ Stream(s) \in Seq(Byte) /\ End(s, 0) = 0 /\ End(s, Len(s.answers)) = Len(Stream(s))
    BY <1>5, <1>7, StreamFacts
  <2> QED BY <1>2, <1>6, <2>1
<1>9. Base(s) = 0 /\ Active(s) /\ ~InBody(s)
  BY <1>2, <1>3, <1>6, <1>8 DEF Base, Active, InBody
<1>10. ReadShape(s)
  BY <1>3, <1>6, <1>8 DEF ReadShape, Chain
<1>11. FrameInv(s)
  BY <1>2, <1>6, <1>9 DEF FrameInv, HoldsPart
<1>12. WriteSafe(s)
  BY <1>2, <1>6, AsyncAssumption DEF WriteSafe
<1>13. \A w \in BOOLEAN : WriteInv(s, w)
  BY <1>2, <1>6, <1>12 DEF WriteInv
<1> QED BY <1>1, <1>5, <1>7, <1>9, <1>10, <1>11, <1>13 DEF ReadInv, ReadSafe

\* The next call of a script, and the calls with it.
LEMMA NextCallFacts ==
  ASSUME calls \in Seq(Calls), NEW k, NextCall(k), calls' = Append(calls, k)
  PROVE  /\ k \in Calls /\ calls' \in Seq(Calls) /\ Len(calls') <= MaxCalls
         /\ Len(calls') = Len(calls) + 1 /\ Len(calls) \in Nat /\ Len(calls') \in Ids
         /\ calls' # <<>> /\ \A n \in 1..Len(calls) : n \in 1..Len(calls') /\ calls'[n] = calls[n]
<1>1. PICK s \in Scripts : Len(calls) < Len(s) /\ k = s[Len(calls) + 1]
  BY DEF NextCall
<1>2. s \in Seq(Calls) /\ Len(s) <= MaxCalls /\ MaxCalls \in Nat
  BY AsyncAssumption
<1>3. Len(calls) \in Nat /\ Len(s) \in Nat
  BY <1>2, LenProperties
<1>4. k \in Calls
  <2>1. Len(calls) + 1 \in 1..Len(s)
    BY <1>1, <1>3
  <2> QED BY <1>1, <1>2, <2>1, ElementOfSeq
<1>5. /\ calls' \in Seq(Calls) /\ Len(calls') = Len(calls) + 1 /\ calls' # <<>>
      /\ \A n \in 1..Len(calls) : calls'[n] = calls[n]
  BY <1>4, AppendProperties
<1>6. Len(calls) + 1 <= MaxCalls
  BY <1>1, <1>2, <1>3
<1>7. Len(calls') <= MaxCalls /\ Len(calls') \in Ids /\ \A n \in 1..Len(calls) : n \in 1..Len(calls')
  BY <1>2, <1>3, <1>5, <1>6 DEF Ids
<1> QED BY <1>3, <1>4, <1>5, <1>7

\* call_RPC takes the connection it has, or a new one.
LEMMA CallBegins ==
  ASSUME AsyncInv, NEW k, Call(k)
  PROVE  AsyncInv'
<1>1. /\ pc = "idle" /\ NextCall(k) /\ calls' = Append(calls, k) /\ pc' = "arm"
      /\ was_timeout' = was_timeout /\ timer' = timer /\ expired' = expired
      /\ closing' = closing /\ crashed' = crashed /\ result' = result /\ on' = on
      /\ IF conn = 0 THEN conns' = Append(conns, NewConn) /\ conn' = Len(conns')
                     ELSE conns' = conns /\ conn' = conn
  BY DEF Call, timerVars
<1>2. calls \in Seq(Calls) /\ conns \in Seq(ConnRec) /\ Len(conns) \in Nat /\ ClientTypeOK
  BY LenProperties DEF AsyncInv, ClientTypeOK
<1>3. /\ k \in Calls /\ calls' \in Seq(Calls) /\ Len(calls') <= MaxCalls
      /\ Len(calls') = Len(calls) + 1 /\ Len(calls) \in Nat /\ calls' # <<>>
      /\ \A n \in 1..Len(calls) : n \in 1..Len(calls') /\ calls'[n] = calls[n]
  BY <1>1, <1>2, NextCallFacts
<1>4. NewConn \in ConnRec /\ ReadInv(NewConn) /\ \A w \in BOOLEAN : WriteInv(NewConn, w)
  BY <1>2, NewConnOK
<1>5. /\ conns' \in Seq(ConnRec) /\ Len(conns') \in Nat /\ Len(conns) <= Len(conns')
      /\ conn' \in 1..Len(conns')
      /\ \A c \in 1..Len(conns') :
           \/ c \in 1..Len(conns) /\ conns'[c] = conns[c]
           \/ conn = 0 /\ c = conn' /\ conns'[c] = NewConn
  <2>1. CASE conn = 0
    <3>1. /\ conns' \in Seq(ConnRec) /\ Len(conns') = Len(conns) + 1
          /\ conns'[Len(conns) + 1] = NewConn /\ conn' = Len(conns')
          /\ \A c \in 1..Len(conns) : conns'[c] = conns[c]
      <4>1. conns' = Append(conns, NewConn) /\ conn' = Len(conns')
        BY <1>1, <2>1
      <4>2. conns \in Seq(ConnRec) /\ NewConn \in ConnRec
        BY <1>2, <1>4
      <4> QED BY ONLY <4>1, <4>2, AppendProperties
    <3>2. \A c \in 1..Len(conns') : c \in 1..Len(conns) \/ c = Len(conns) + 1
      BY <1>2, <3>1
    <3> QED BY <1>2, <2>1, <3>1, <3>2
  <2>2. CASE conn # 0
    <3>1. conn \in 1..Len(conns)
      BY <1>2, <2>2 DEF ClientTypeOK
    <3> QED BY <1>1, <1>2, <2>2, <3>1
  <2> QED BY <2>1, <2>2
<1>6. ClientTypeOK'
  <2>1. \A x \in 0..Len(conns) : x \in 0..Len(conns')
    BY <1>2, <1>5
  <2>2. \A x \in 0..Len(calls) : x \in 0..Len(calls')
    BY <1>3
  <2>3. on' \in [Ids -> 0..Len(conns')]
    BY <1>1, <1>2, <2>1 DEF ClientTypeOK
  <2> QED BY <1>1, <1>2, <1>3, <1>5, <2>2, <2>3 DEF ClientTypeOK
<1>7. AllRead'
  <2>1. ASSUME NEW c \in 1..Len(conns') PROVE ReadInv(conns[c])'
    <3>1. conns'[c] \in ConnRec
      BY <1>5, ElementOfSeq
    <3>2. ReadInv(conns'[c])
      BY <1>4, <1>5 DEF AsyncInv, AllRead
    <3> DEFINE s == conns'[c]
    <3>3. s \in ConnRec /\ ReadInv(s) /\ conns'[c] = s
      BY <3>1, <3>2
    <3> HIDE DEF s
    <3> QED BY <1>1, <1>2, <1>3, <3>3, MoreCalls
  <2> QED BY <2>1 DEF AllRead
<1>8. AllWrite'
  <2>1. \A c : ~Writing(c) /\ Writing(c)' = FALSE
    BY <1>1 DEF Writing
  <2>2. \A c \in 1..Len(conns') : WriteInv(conns'[c], FALSE)
    <3> TAKE c \in 1..Len(conns')
    <3>1. CASE c \in 1..Len(conns) /\ conns'[c] = conns[c]
      <4>1. WriteInv(conns[c], Writing(c))
        BY <3>1 DEF AsyncInv, AllWrite
      <4> QED BY <2>1, <3>1, <4>1 DEF WriteInv
    <3>2. CASE conns'[c] = NewConn
      BY <1>4, <3>2
    <3> QED BY <1>5, <3>1, <3>2
  <2> QED BY <2>1, <2>2 DEF AllWrite, WriteInv, WriteSafe
<1>9. GivesUpClosed'
  BY <1>1 DEF GivesUpClosed
<1>10. LetGoIsClosed'
  <2> SUFFICES ASSUME \A n \in 1..Len(calls') : ~Oversize(calls'[n]),
                      NEW c \in 1..Len(conns'), c # conn'
               PROVE  conns'[c].stat = "kClosed"
    BY DEF LetGoIsClosed, Oversize
  <2>1. \A n \in 1..Len(calls) : ~Oversize(calls[n])
    BY <1>3
  <2>2. c \in 1..Len(conns) /\ conns'[c] = conns[c]
    BY <1>5
  <2>3. c # conn
    BY <1>1, <1>2, <2>2
  <2> QED BY <2>1, <2>2, <2>3 DEF AsyncInv, LetGoIsClosed
<1> QED BY <1>6, <1>7, <1>8, <1>9, <1>10 DEF AsyncInv

\* No connection could be made.
LEMMA ConnectFailsStep ==
  ASSUME AsyncInv, NEW k, ConnectFails(k)
  PROVE  AsyncInv'
<1>1. /\ pc = "idle" /\ NextCall(k) /\ calls' = Append(calls, k) /\ pc' = pc
      /\ was_timeout' = was_timeout /\ timer' = timer /\ expired' = expired
      /\ closing' = closing /\ crashed' = crashed /\ on' = on /\ conn' = conn /\ conns' = conns
      /\ result' = [result EXCEPT ![Len(calls')] = "NETWORK_CONNECT_ERROR"]
  BY DEF ConnectFails, timerVars
<1>2. calls \in Seq(Calls) /\ conns \in Seq(ConnRec) /\ ClientTypeOK
  BY DEF AsyncInv, ClientTypeOK
<1>3. /\ k \in Calls /\ calls' \in Seq(Calls) /\ Len(calls') <= MaxCalls
      /\ Len(calls') = Len(calls) + 1 /\ Len(calls) \in Nat /\ calls' # <<>>
      /\ \A n \in 1..Len(calls) : n \in 1..Len(calls') /\ calls'[n] = calls[n]
  BY <1>1, <1>2, NextCallFacts
<1>4. ClientTypeOK'
  <2>1. \A x \in 0..Len(calls) : x \in 0..Len(calls')
    BY <1>3
  <2> QED BY <1>1, <1>2, <1>3, <2>1 DEF ClientTypeOK
<1>5. AllRead'
  <2>1. ASSUME NEW c \in 1..Len(conns') PROVE ReadInv(conns[c])'
    <3> DEFINE s == conns'[c]
    <3>1. s \in ConnRec /\ ReadInv(s) /\ conns'[c] = s
      BY <1>1, <1>2, ElementOfSeq DEF AsyncInv, AllRead
    <3> HIDE DEF s
    <3> QED BY <1>1, <1>2, <1>3, <3>1, MoreCalls
  <2> QED BY <2>1 DEF AllRead
<1>6. AllWrite'
  BY <1>1 DEF AsyncInv, AllWrite, WriteInv, WriteSafe, Writing
<1>7. GivesUpClosed'
  BY <1>1 DEF GivesUpClosed
<1>8. LetGoIsClosed'
  BY <1>1, <1>3 DEF AsyncInv, LetGoIsClosed, Oversize
<1> QED BY <1>4, <1>5, <1>6, <1>7, <1>8 DEF AsyncInv

\* A step of the caller that leaves the connections alone; when it leaves do_write
\* nothing is lost by that, and when it gives up it has a reason.
LEMMA CallerStep ==
  ASSUME AsyncInv, conns' = conns, calls' = calls, on' = on, conn' = conn,
         UNCHANGED <<expired, closing, crashed>>, was_timeout' \in BOOLEAN,
         timer' \in 0..Len(calls),
         pc' \in {"idle", "arm", "send", "do_write", "write_lock", "failed", "error"},
         pc' \notin {"idle", "error"} => conn # 0, pc # "idle",
         result' \in [Ids -> {"none", "OK", "NETWORK_CONNECT_ERROR", "NETWORK_SEND_ERROR",
                              "RPC_CALL_TIMEOUT"}],
         Writing(conn) => Writing(conn)' \/ WriteInv(conns[conn], FALSE),
         pc' = "failed" => conns[conn].stat = "kClosed" \/ Oversize(calls[Len(calls)])
  PROVE  AsyncInv'
<1>1. ClientTypeOK'
  BY DEF AsyncInv, ClientTypeOK
<1>2. AllRead'
  BY SameConns
<1>3. AllWrite'
  <2>1. ASSUME NEW c \in 1..Len(conns) PROVE WriteInv(conns[c], Writing(c)')
    <3>1. WriteInv(conns[c], Writing(c))
      BY DEF AsyncInv, AllWrite
    <3>2. CASE Writing(c)
      <4>1. c = conn
        BY <3>2 DEF Writing
      <4> QED BY <3>1, <3>2, <4>1 DEF WriteInv
    <3>3. CASE ~Writing(c)
      BY <3>1, <3>3 DEF WriteInv
    <3> QED BY <3>2, <3>3
  <2> QED BY <2>1 DEF AllWrite, WriteInv, WriteSafe
<1>4. GivesUpClosed'
  BY DEF GivesUpClosed, Oversize
<1>5. LetGoIsClosed'
  BY DEF AsyncInv, LetGoIsClosed, Oversize
<1> QED BY <1>1, <1>2, <1>3, <1>4, <1>5 DEF AsyncInv

\* The connection of a call in progress, and the call.
LEMMA InCall ==
  ASSUME AsyncInv, pc \in {"arm", "send", "do_write", "write_lock", "failed"}
  PROVE  /\ conn \in 1..Len(conns) /\ Len(calls) \in Ids /\ Len(calls) \in 1..Len(calls)
         /\ Cur \in Ids /\ calls[Cur] \in Calls
<1>1. Len(conns) \in Nat /\ Len(calls) \in Nat \ {0} /\ Len(calls) <= MaxCalls
  BY LenProperties, EmptySeq DEF AsyncInv, ClientTypeOK
<1>2. conn \in 1..Len(conns)
  BY <1>1 DEF AsyncInv, ClientTypeOK
<1>3. Len(calls) \in Ids /\ Len(calls) \in 1..Len(calls)
  BY <1>1, AsyncAssumption DEF Ids
<1> QED BY <1>2, <1>3, ElementOfSeq DEF Cur, AsyncInv, ClientTypeOK

\* set_rpc_call_timeout.
LEMMA TimeoutSetStep ==
  ASSUME AsyncInv, set_rpc_call_timeout
  PROVE  AsyncInv'
<1>1. /\ pc = "arm" /\ pc' = "send" /\ calls' = calls /\ conn' = conn /\ conns' = conns
      /\ UNCHANGED <<expired, closing, crashed>> /\ result' = result /\ on' = on
      /\ (timer' = Cur /\ was_timeout' = FALSE) \/ UNCHANGED <<timer, was_timeout>>
  BY DEF set_rpc_call_timeout
<1>2. Cur \in 0..Len(calls) /\ conn # 0
  <2>1. Len(calls) \in 1..Len(calls)
    BY <1>1, InCall
  <2> QED BY <1>1, <2>1 DEF Cur, AsyncInv, ClientTypeOK
<1>3. timer' \in 0..Len(calls) /\ was_timeout' \in BOOLEAN
  BY <1>1, <1>2 DEF AsyncInv, ClientTypeOK
<1>4. ~Writing(conn)
  BY <1>1 DEF Writing
<1>5. result' \in [Ids -> {"none", "OK", "NETWORK_CONNECT_ERROR", "NETWORK_SEND_ERROR",
                          "RPC_CALL_TIMEOUT"}]
  BY <1>1 DEF AsyncInv, ClientTypeOK
<1> QED BY <1>1, <1>2, <1>3, <1>4, <1>5, CallerStep

\* do_write of the caller up to the lock: it leaves it to the write that is out, or
\* finds the connection closed.
LEMMA CallWriteTestStep ==
  ASSUME AsyncInv, CallWriteTest
  PROVE  AsyncInv'
<1> DEFINE r == conns[conn]
<1>1. /\ pc = "do_write" /\ calls' = calls /\ conn' = conn /\ conns' = conns /\ on' = on
      /\ UNCHANGED <<expired, closing, crashed>> /\ timer' = timer /\ was_timeout' = was_timeout
      /\ \/ r.send_status # "kDone" /\ pc' = "idle" /\ result' = [result EXCEPT ![Cur] = "OK"]
         \/ /\ r.send_status = "kDone" /\ result' = result
            /\ pc' = IF r.stat = "kWorking" THEN "write_lock" ELSE "failed"
  BY DEF CallWriteTest, Return, timerVars
<1>2. conn \in 1..Len(conns) /\ Cur \in Ids
  BY <1>1, InCall
<1>3. r \in ConnRec /\ WriteInv(r, Writing(conn))
  BY <1>2, ConnFacts
<1>4. r.send_status \in {"kSend", "kDone"} /\ r.stat \in {"kWorking", "kClosed"}
  BY <1>3, ConnFields
<1>5. Writing(conn)' \/ WriteInv(r, FALSE)
  BY <1>1, <1>3, <1>4 DEF Writing, WriteInv
<1>6. /\ result' \in [Ids -> {"none", "OK", "NETWORK_CONNECT_ERROR", "NETWORK_SEND_ERROR",
                             "RPC_CALL_TIMEOUT"}]
      /\ timer' \in 0..Len(calls) /\ was_timeout' \in BOOLEAN /\ conn # 0
  BY <1>1, <1>2 DEF AsyncInv, ClientTypeOK
<1>7. pc' \in {"idle", "write_lock", "failed"} /\ (pc' = "failed" => r.stat = "kClosed")
  BY <1>1, <1>4
<1> QED BY <1>1, <1>5, <1>6, <1>7, CallerStep

\* conn_async_.reset(): what is let go of is closed, unless a request was too long.
LEMMA ResetStep ==
  ASSUME AsyncInv, Reset
  PROVE  AsyncInv'
<1>1. /\ pc = "failed" /\ pc' = "error" /\ conn' = 0 /\ calls' = calls /\ conns' = conns
      /\ on' = on /\ result' = result
      /\ UNCHANGED <<was_timeout, timer, expired, closing, crashed>>
  BY DEF Reset, timerVars
<1>2. conn \in 1..Len(conns) /\ Len(calls) \in 1..Len(calls)
  BY <1>1, InCall
<1>3. ClientTypeOK'
  <2>1. 0 \in 0..Len(conns)
    BY <1>2
  <2> QED BY <1>1, <2>1 DEF AsyncInv, ClientTypeOK
<1>4. AllRead'
  BY <1>1, SameConns
<1>5. AllWrite'
  <2>1. \A c \in 1..Len(conns) : ~Writing(c)
    BY <1>1 DEF Writing
  <2> QED BY <1>1, <2>1, SameConns
<1>6. GivesUpClosed'
  BY <1>1 DEF GivesUpClosed
<1>7. LetGoIsClosed'
  <2>1. (\A n \in 1..Len(calls) : ~Oversize(calls[n])) => conns[conn].stat = "kClosed"
    BY <1>1, <1>2 DEF AsyncInv, GivesUpClosed
  <2> QED BY <1>1, <2>1 DEF AsyncInv, LetGoIsClosed, Oversize
<1> QED BY <1>3, <1>4, <1>5, <1>6, <1>7 DEF AsyncInv

\* The error that call_RPC returns.
LEMMA ReturnErrorStep ==
  ASSUME AsyncInv, ReturnError
  PROVE  AsyncInv'
<1>1. /\ pc = "error" /\ pc' = "idle" /\ calls' = calls /\ conn' = conn /\ conns' = conns
      /\ on' = on /\ UNCHANGED <<expired, closing, crashed>> /\ timer' = timer
      /\ was_timeout' = was_timeout
      /\ result' = [result EXCEPT ![Cur] = IF was_timeout THEN "RPC_CALL_TIMEOUT"
                                                          ELSE "NETWORK_SEND_ERROR"]
  BY DEF ReturnError, Return, timerVars
<1>2. /\ result' \in [Ids -> {"none", "OK", "NETWORK_CONNECT_ERROR", "NETWORK_SEND_ERROR",
                             "RPC_CALL_TIMEOUT"}]
      /\ timer' \in 0..Len(calls) /\ was_timeout' \in BOOLEAN
  BY <1>1 DEF AsyncInv, ClientTypeOK
<1>3. ~Writing(conn)
  BY <1>1 DEF Writing
<1> QED BY <1>1, <1>2, <1>3, CallerStep

\* A step of the caller or the timer that puts s in place of the connection in use,
\* which does not begin to work by it.
LEMMA ConnStep ==
  ASSUME AsyncInv, conn \in 1..Len(conns), NEW s \in ConnRec,
         conns' = [conns EXCEPT ![conn] = s], calls' = calls, conn' = conn,
         UNCHANGED <<was_timeout, timer, expired, crashed>>, closing' \in BOOLEAN,
         pc' \in {"idle", "arm", "send", "do_write", "write_lock", "failed", "error"},
         pc' # "idle" => pc # "idle", pc' = "failed" => pc = "failed",
         result' \in [Ids -> {"none", "OK", "NETWORK_CONNECT_ERROR", "NETWORK_SEND_ERROR",
                              "RPC_CALL_TIMEOUT"}],
         on' \in [Ids -> 0..Len(conns)],
         ReadInv(s), WriteInv(s, Writing(conn)'),
         s.stat = "kWorking" => conns[conn].stat = "kWorking"
  PROVE  AsyncInv'
<1>1. conns \in Seq(ConnRec) /\ AllRead /\ s.stat \in {"kWorking", "kClosed"} /\ Len(conns) \in Nat
  BY ConnFields, LenProperties DEF AsyncInv, ClientTypeOK
<1>2. /\ conns' \in Seq(ConnRec) /\ Len(conns') = Len(conns) /\ conns'[conn] = s
      /\ \A d \in 1..Len(conns) : d # conn => conns'[d] = conns[d]
      /\ AllRead'
  BY <1>1, OneConn
<1>3. ClientTypeOK'
  <2>1. conn # 0
    BY <1>1
  <2> QED BY <1>2, <2>1 DEF AsyncInv, ClientTypeOK
<1>4. AllWrite'
  <2>1. ASSUME NEW d \in 1..Len(conns) PROVE WriteInv(conns'[d], Writing(d)')
    <3>1. CASE d = conn
      BY <1>2, <3>1
    <3>2. CASE d # conn
      <4>1. conns'[d] = conns[d] /\ ~Writing(d) /\ WriteInv(conns[d], Writing(d))
        BY <1>2, <3>2 DEF AsyncInv, AllWrite, Writing
      <4> QED BY <4>1 DEF WriteInv
    <3> QED BY <3>1, <3>2
  <2> QED BY <1>2, <2>1 DEF AllWrite, WriteInv, WriteSafe
<1>5. conns[conn].stat = "kClosed" => s.stat = "kClosed"
  BY <1>1
<1>6. GivesUpClosed'
  BY <1>2, <1>5 DEF AsyncInv, GivesUpClosed, Oversize
<1>7. LetGoIsClosed'
  BY <1>2 DEF AsyncInv, LetGoIsClosed, Oversize
<1> QED BY <1>2, <1>3, <1>4, <1>6, <1>7 DEF AsyncInv

\* send_net_message: the request is refused, or appended and do_write called.
LEMMA SendStep ==
  ASSUME AsyncInv, send_net_message
  PROVE  AsyncInv'
<1> DEFINE r == conns[conn]
           buf == BufferAppend(r.send_buffer, Cur, calls[Cur].len)
           reqs == Append(r.requests, Cur)
           s == [r EXCEPT !.send_buffer = buf, !.requests = reqs]
<1>1. /\ pc = "send" /\ calls' = calls /\ conn' = conn /\ result' = result
      /\ UNCHANGED <<was_timeout, timer, expired, closing, crashed>>
      /\ \/ Oversize(calls[Cur]) /\ pc' = "failed" /\ conns' = conns /\ on' = on
         \/ /\ conns' = [conns EXCEPT
                           ![conn].send_buffer = BufferAppend(@, Cur, calls[Cur].len),
                           ![conn].requests = Append(@, Cur)]
            /\ on' = [on EXCEPT ![Cur] = conn] /\ pc' = "do_write"
  BY DEF send_net_message, timerVars
<1>2. conn \in 1..Len(conns) /\ Cur \in Ids /\ calls[Cur] \in Calls
      /\ Cur \in 1..Len(calls)
  BY <1>1, InCall DEF Cur
<1>3. /\ result' \in [Ids -> {"none", "OK", "NETWORK_CONNECT_ERROR", "NETWORK_SEND_ERROR",
                             "RPC_CALL_TIMEOUT"}]
      /\ timer' \in 0..Len(calls) /\ was_timeout' \in BOOLEAN /\ conn # 0 /\ closing \in BOOLEAN
      /\ conns \in Seq(ConnRec)
  BY <1>1, <1>2 DEF AsyncInv, ClientTypeOK
<1>4. CASE Oversize(calls[Cur]) /\ pc' = "failed" /\ conns' = conns /\ on' = on
  <2>1. ~Writing(conn)
    BY <1>1 DEF Writing
  <2> QED BY <1>1, <1>3, <1>4, <2>1, CallerStep DEF Cur
<1>5. CASE /\ conns' = [conns EXCEPT
                          ![conn].send_buffer = BufferAppend(@, Cur, calls[Cur].len),
                          ![conn].requests = Append(@, Cur)]
           /\ on' = [on EXCEPT ![Cur] = conn] /\ pc' = "do_write"
  <2>1. r \in ConnRec /\ ReadInv(r) /\ ReadSafe(r) /\ WriteInv(r, Writing(conn))
    BY <1>2, ConnFacts
  <2>2. conns' = [conns EXCEPT ![conn] = s]
    BY <1>2, <1>3, <1>5, <2>1 DEF ConnRec
  <2>3. buf \in Seq(Byte)
    <3>1. Cur \in Nat /\ calls[Cur].len \in Nat
      BY <1>2 DEF Calls, Ids
    <3>2. NetStr(Cur, calls[Cur].len) \in Seq(Byte)
      BY <3>1, MessageType
    <3> QED BY <2>1, <3>2, ConnFields, ConcatProperties DEF BufferAppend
  <2>4. /\ reqs \in Seq(Ids) /\ \A i \in 1..Len(reqs) : reqs[i] \in 1..Len(calls)
    <3>1. r.requests \in Seq(Ids) /\ \A i \in 1..Len(r.requests) : r.requests[i] \in 1..Len(calls)
      BY <2>1, ConnFields DEF ReadSafe, IdsMade
    <3> HIDE DEF r
    <3>2. /\ reqs \in Seq(Ids) /\ Len(reqs) = Len(r.requests) + 1
          /\ reqs[Len(r.requests) + 1] = Cur /\ Len(r.requests) \in Nat
          /\ \A i \in 1..Len(r.requests) : reqs[i] = r.requests[i]
      BY <1>2, <3>1, AppendProperties, LenProperties
    <3>3. \A i \in 1..Len(reqs) : i = Len(r.requests) + 1 \/ i \in 1..Len(r.requests)
      BY <3>2
    <3> QED BY <1>2, <3>1, <3>2, <3>3
  <2> HIDE DEF buf, reqs, r
  <2>5. /\ s \in ConnRec /\ s.pc = r.pc /\ s.stat = r.stat /\ s.read_op = r.read_op
        /\ s.recv_buffer = r.recv_buffer /\ s.recv_header = r.recv_header /\ s.rcvd = r.rcvd
        /\ s.answers = r.answers /\ s.called = r.called /\ s.requests = reqs
        /\ s.io_block = r.io_block /\ s.write_ops = r.write_ops
        /\ s.write_done = r.write_done /\ s.send_status = r.send_status
    BY <2>1, <2>3, <2>4 DEF ConnRec
  <2> HIDE DEF s
  <2>6. ReadInv(s)
    <3>1. Stream(s) = Stream(r) /\ \A k : End(s, k) = End(r, k)
      BY <2>5 DEF Stream, End, Parts
    <3>2. (Active(s) <=> Active(r)) /\ (InBody(s) <=> InBody(r))
      BY <2>5 DEF Active, InBody
    <3>3. Base(s) = Base(r)
      BY <2>5, <3>1, <3>2 DEF Base
    <3>4. ReadShape(s)
      BY <2>1, <2>5, <3>1 DEF ReadSafe, ReadShape
    <3>5. FrameInv(s)
      BY <2>1, <2>5, <3>1, <3>2, <3>3 DEF ReadSafe, FrameInv
    <3>6. IdsMade(s)
      BY <2>1, <2>4, <2>5 DEF ReadSafe, IdsMade
    <3> QED BY <2>1, <2>5, <3>2, <3>4, <3>5, <3>6 DEF ReadInv, ReadSafe
  <2>7. Writing(conn)'
    BY <1>1, <1>5 DEF Writing
  <2>8. WriteInv(s, Writing(conn)')
    BY <2>1, <2>5, <2>7 DEF WriteInv, WriteSafe
  <2>9. on' \in [Ids -> 0..Len(conns)]
    BY <1>2, <1>5 DEF AsyncInv, ClientTypeOK
  <2> QED BY <1>1, <1>2, <1>3, <1>5, <2>2, <2>5, <2>6, <2>8, <2>9, ConnStep DEF r
<1> QED BY <1>1, <1>4, <1>5

\* do_write of the caller under the lock.
LEMMA CallWriteStep ==
  ASSUME AsyncInv, CallWrite
  PROVE  AsyncInv'
<1> DEFINE r == conns[conn]
<1>1. /\ pc = "write_lock" /\ pc' = "idle" /\ calls' = calls /\ conn' = conn
      /\ result' = [result EXCEPT ![Cur] = "OK"] /\ on' = on
      /\ UNCHANGED <<was_timeout, timer, expired, closing, crashed>>
      /\ conns' = [conns EXCEPT ![conn] = WriteBlock(r)]
  BY DEF CallWrite, Return, timerVars
<1>2. conn \in 1..Len(conns) /\ Cur \in Ids
  BY <1>1, InCall
<1>3. r \in ConnRec /\ ReadInv(r) /\ ReadSafe(r) /\ WriteInv(r, Writing(conn))
  BY <1>2, ConnFacts
<1>4. /\ WriteBlock(r) \in ConnRec /\ ReadInv(WriteBlock(r)) /\ WriteBlock(r).stat = r.stat
      /\ \A w \in BOOLEAN : WriteInv(WriteBlock(r), w)
  BY <1>3, WriteBlockStep, ReadKeeps DEF WriteInv
<1>5. WriteInv(WriteBlock(r), Writing(conn)')
  <2>1. Writing(conn)' \in BOOLEAN
    BY DEF Writing
  <2> QED BY <1>4, <2>1
<1>6. /\ result' \in [Ids -> {"none", "OK", "NETWORK_CONNECT_ERROR", "NETWORK_SEND_ERROR",
                             "RPC_CALL_TIMEOUT"}]
      /\ on' \in [Ids -> 0..Len(conns)] /\ closing' \in BOOLEAN
  BY <1>1, <1>2 DEF AsyncInv, ClientTypeOK
<1> QED BY <1>1, <1>2, <1>4, <1>5, <1>6, ConnStep

-----------------------------------------------------------------------------
\* The timer expires, and rpc_call_timeout begins.
LEMMA TimerBeginStep ==
  ASSUME AsyncInv, TimerExpire \/ rpc_call_timeout
  PROVE  AsyncInv'
<1>1. /\ calls' = calls /\ pc' = pc /\ conn' = conn /\ conns' = conns /\ on' = on
      /\ result' = result /\ crashed' = crashed
  BY DEF TimerExpire, rpc_call_timeout
<1>2. /\ timer' \in 0..Len(calls) /\ expired' \in Nat /\ closing' \in BOOLEAN
      /\ was_timeout' \in BOOLEAN
  <2>1. /\ Len(calls) \in Nat /\ expired \in Nat /\ timer \in 0..Len(calls)
        /\ closing \in BOOLEAN /\ was_timeout \in BOOLEAN
    BY LenProperties DEF AsyncInv, ClientTypeOK
  <2>2. CASE TimerExpire
    BY <2>1, <2>2 DEF TimerExpire
  <2>3. CASE rpc_call_timeout
    <3>1. expired' \in Nat
      BY <2>1, <2>3 DEF rpc_call_timeout
    <3>2. timer' = timer /\ closing' = TRUE /\ was_timeout' = TRUE
      BY <2>3 DEF rpc_call_timeout
    <3> QED BY <2>1, <3>1, <3>2
  <2> QED BY <2>2, <2>3
<1>3. ClientTypeOK'
  BY <1>1, <1>2 DEF AsyncInv, ClientTypeOK
<1>4. AllRead' /\ AllWrite'
  <2>1. \A c \in 1..Len(conns) : Writing(c) => Writing(c)'
    BY <1>1 DEF Writing
  <2> QED BY <1>1, <2>1, SameConns
<1>5. GivesUpClosed' /\ LetGoIsClosed'
  BY <1>1 DEF AsyncInv, GivesUpClosed, LetGoIsClosed, Oversize
<1> QED BY <1>3, <1>4, <1>5 DEF AsyncInv

\* shutdown_and_close_socket on the connection in use, whichever that is.
LEMMA TimerCloseStep ==
  ASSUME AsyncInv, shutdown_and_close_socket
  PROVE  AsyncInv'
<1> DEFINE r == conns[conn]
<1>1. /\ closing' = FALSE /\ calls' = calls /\ pc' = pc /\ conn' = conn /\ on' = on
      /\ UNCHANGED <<was_timeout, timer, expired>> /\ result' = result
      /\ IF conn = 0 THEN crashed' = TRUE /\ conns' = conns
                     ELSE conns' = [conns EXCEPT ![conn] = Shut(r)] /\ crashed' = crashed
  BY DEF shutdown_and_close_socket
<1>2. CASE conn = 0
  <2>1. crashed' = TRUE /\ conns' = conns
    BY <1>1, <1>2
  <2>2. ClientTypeOK'
    BY <1>1, <2>1 DEF AsyncInv, ClientTypeOK
  <2>3. AllRead' /\ AllWrite'
    <3>1. \A c \in 1..Len(conns) : Writing(c) => Writing(c)'
      BY <1>1 DEF Writing
    <3> QED BY <1>1, <2>1, <3>1, SameConns
  <2>4. GivesUpClosed' /\ LetGoIsClosed'
    BY <1>1, <2>1 DEF AsyncInv, GivesUpClosed, LetGoIsClosed, Oversize
  <2> QED BY <2>2, <2>3, <2>4 DEF AsyncInv
<1>3. CASE conn # 0
  <2>1. conn \in 1..Len(conns)
    BY <1>3, LenProperties DEF AsyncInv, ClientTypeOK
  <2>2. r \in ConnRec /\ ReadSafe(r) /\ WriteInv(r, Writing(conn))
    BY <2>1, ConnFacts
  <2>3. Writing(conn)' \in BOOLEAN
    BY DEF Writing
  <2>4. /\ Shut(r) \in ConnRec /\ Shut(r).stat = "kClosed" /\ ReadInv(Shut(r))
        /\ WriteInv(Shut(r), Writing(conn)')
    BY <2>2, <2>3, ShutFacts DEF WriteInv
  <2>5. /\ result' \in [Ids -> {"none", "OK", "NETWORK_CONNECT_ERROR", "NETWORK_SEND_ERROR",
                               "RPC_CALL_TIMEOUT"}]
        /\ on' \in [Ids -> 0..Len(conns)] /\ closing' \in BOOLEAN
        /\ pc' \in {"idle", "arm", "send", "do_write", "write_lock", "failed", "error"}
    BY <1>1 DEF AsyncInv, ClientTypeOK
  <2>6. conns' = [conns EXCEPT ![conn] = Shut(r)] /\ crashed' = crashed
    BY <1>1, <1>3
  <2> HIDE DEF r
  <2> QED BY <1>1, <2>1, <2>4, <2>5, <2>6, ConnStep
<1> QED BY <1>2, <1>3

-----------------------------------------------------------------------------
\* No call has been made and no connection.
LEMMA AsyncInit == Init => AsyncInv
<1> SUFFICES ASSUME Init PROVE AsyncInv
  OBVIOUS
<1>1. /\ calls = <<>> /\ conns = <<>> /\ conn = 0 /\ pc = "idle" /\ timer = 0 /\ expired = 0
      /\ was_timeout = FALSE /\ closing = FALSE /\ crashed = FALSE
      /\ result = [n \in Ids |-> "none"] /\ on = [n \in Ids |-> 0]
  BY DEF Init
<1>2. Len(calls) = 0 /\ Len(conns) = 0 /\ calls \in Seq(Calls) /\ conns \in Seq(ConnRec)
  BY <1>1
<1>3. ClientTypeOK
  <2>1. result \in [Ids -> {"none", "OK", "NETWORK_CONNECT_ERROR", "NETWORK_SEND_ERROR",
                            "RPC_CALL_TIMEOUT"}]
        /\ on \in [Ids -> 0..Len(conns)]
    BY <1>1, <1>2
  <2>2. Len(calls) <= MaxCalls /\ conn \in 0..Len(conns) /\ timer \in 0..Len(calls)
    BY <1>1, <1>2, AsyncAssumption
  <2> QED BY <1>1, <1>2, <2>1, <2>2 DEF ClientTypeOK
<1>4. AllRead /\ AllWrite
  BY <1>2 DEF AllRead, AllWrite
<1>5. GivesUpClosed /\ LetGoIsClosed
  BY <1>1, <1>2 DEF GivesUpClosed, LetGoIsClosed
<1> QED BY <1>3, <1>4, <1>5 DEF AsyncInv

\* Every step of the caller, the strands, the timer, the network and the server
\* preserves the invariant.
LEMMA AsyncNext == AsyncInv /\ [Next]_vars => AsyncInv'
<1> SUFFICES ASSUME AsyncInv, [Next]_vars PROVE AsyncInv'
  OBVIOUS
<1>1. CASE CallStep
  BY <1>1, TimeoutSetStep, SendStep, CallWriteTestStep, CallWriteStep, ResetStep,
     ReturnErrorStep DEF CallStep
<1>2. CASE TimerStep
  BY <1>2, TimerBeginStep, TimerCloseStep DEF TimerStep
<1>3. CASE \E c \in 1..Len(conns) : Strand(c)
  BY <1>3, DoReadStep, DoReadMsgStep, ReadHandlerStep, ReadMsgHandlerStep, ReadHandlerEcStep,
     StrandWriteTestStep, StrandWriteStep, WriteHandlerStep, WriteHandlerEcStep DEF Strand
<1>4. CASE \E c \in 1..Len(conns) : Network(c)
  BY <1>4, ReadCompleteStep, ReadFailStep, TransmitStep, WriteFailStep, AnswerStep DEF Network
<1>5. CASE \E k : Call(k) \/ ConnectFails(k)
  BY <1>5, CallBegins, ConnectFailsStep
<1>6. CASE \E c \in 1..Len(conns) : ServerClose(c)
  BY <1>6, ServerCloseStep
<1>7. CASE UNCHANGED vars
  <2>1. /\ calls' = calls /\ pc' = pc /\ conn' = conn /\ conns' = conns /\ on' = on
        /\ result' = result /\ UNCHANGED <<was_timeout, timer, expired, closing, crashed>>
    BY <1>7 DEF vars, clientVars, timerVars
  <2>2. ClientTypeOK'
    BY <2>1 DEF AsyncInv, ClientTypeOK
  <2>3. AllRead' /\ AllWrite'
    <3>1. \A c \in 1..Len(conns) : Writing(c) => Writing(c)'
      BY <2>1 DEF Writing
    <3> QED BY <2>1, <3>1, SameConns
  <2>4. GivesUpClosed' /\ LetGoIsClosed'
    BY <2>1 DEF AsyncInv, GivesUpClosed, LetGoIsClosed, Oversize
  <2> QED BY <2>2, <2>3, <2>4 DEF AsyncInv
<1> QED BY <1>1, <1>2, <1>3, <1>4, <1>5, <1>6, <1>7 DEF Next, Progress

\* The invariant says what TypeOK says, of every connection.
LEMMA AsyncTypes == AsyncInv => TypeOK
<1> SUFFICES ASSUME AsyncInv PROVE TypeOK
  OBVIOUS
<1>1. ASSUME NEW c \in 1..Len(conns) PROVE ConnOK(conns[c])
  <2> DEFINE r == conns[c]
  <2>1. r \in ConnRec /\ ReadSafe(r) /\ WriteInv(r, Writing(c)) /\ calls \in Seq(Calls)
    BY ConnFacts
  <2> HIDE DEF r
  <2>2. Stream(r) \in Seq(Byte)
    BY <2>1, StreamFacts DEF ReadSafe
  <2>3. r.rcvd \in 0..Len(Stream(r))
    BY <2>1, <2>2, ConnFields, LenProperties DEF ReadSafe, ReadShape
  <2>4. r.write_done \in Seq({"ok", "aborted", "error"})
    BY <2>1, ConnFields DEF WriteEc
  <2>5. ConnOK(r)
    BY <2>1, <2>3, <2>4, ConnFields DEF ConnOK, WriteInv, WriteSafe
  <2> QED BY <2>5 DEF r
<1> QED BY <1>1 DEF AsyncInv, ClientTypeOK, TypeOK

\* The client's variables keep their types; no read or write reaches beyond
\* io_block_, nothing is read that the server has not sent, and a call in progress
\* has a connection (RpcClientImpl.cpp, Client/TcpConnAsync.cpp).
THEOREM AsyncTypeCorrect == Spec => []TypeOK
<1>1. Spec => []AsyncInv
  BY AsyncInit, AsyncNext, PTL DEF Spec
<1> QED BY <1>1, AsyncTypes, PTL

\* For every way the responses are cut into reads, and whatever is closed meanwhile,
\* the application's handler is called once for each response, in their order, with
\* its status and its own payload (Client/TcpConnAsync.cpp, async_recv_wrapper).
THEOREM AsyncHandlerCorrect == Spec => []HandlerCorrect
<1>1. AsyncInv => HandlerCorrect
  BY DEF AsyncInv, AllRead, ReadInv, ReadSafe, FrameInv, HandlerCorrect
<1>2. Spec => []AsyncInv
  BY AsyncInit, AsyncNext, PTL DEF Spec
<1> QED BY <1>1, <1>2, PTL

\* A connection that works listens, with one read: do_read, do_read_msg and their
\* handlers neither drop the chain nor fork it.
THEOREM AsyncReadChain == Spec => []OneReadChain
<1>1. AsyncInv => OneReadChain
  BY DEF AsyncInv, AllRead, ReadInv, ReadSafe, ReadShape, Active, Chain, OneReadChain
<1>2. Spec => []AsyncInv
  BY AsyncInit, AsyncNext, PTL DEF Spec
<1> QED BY <1>1, <1>2, PTL

\* do_write is called by the caller and by the strand, and tests send_status_ before
\* it takes the lock: still no request on a working connection is left in the buffer
\* with nobody to write it.
THEOREM AsyncNoLostWakeup == Spec => []NoLostWakeup
<1>1. AsyncInv => NoLostWakeup
  BY DEF AsyncInv, AllWrite, WriteInv, Writing, NoLostWakeup
<1>2. Spec => []AsyncInv
  BY AsyncInit, AsyncNext, PTL DEF Spec
<1> QED BY <1>1, <1>2, PTL

\* conn_async_.reset() lets go of a connection only when its socket is closed, unless
\* a request was too long to send.
THEOREM AsyncLetGo == Spec => []LetGoIsClosed
<1>1. AsyncInv => LetGoIsClosed
  BY DEF AsyncInv
<1>2. Spec => []AsyncInv
  BY AsyncInit, AsyncNext, PTL DEF Spec
<1> QED BY <1>1, <1>2, PTL
=============================================================================
