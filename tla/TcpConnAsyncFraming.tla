------------------------ MODULE TcpConnAsyncFraming -------------------------
(***************************************************************************)
(* Framing, proved for every input, every header and block size and every  *)
(* way of cutting the stream into reads: FrameInv says where in the stream *)
(* the receiver stands.  With it the rest of TypeOK is proved.             *)
(***************************************************************************)
EXTENDS TcpConnAsyncControl

\* The header of the request being read has been consumed.
InBody ==
  pc["strand"] \in {"do_read_msg", "arm_body"} \/ read_op.kind = "body"

\* The connection reads, or is about to.
Reading == InReadChain \/ read_op.kind # "none"

\* The byte of the stream in front of recv_bound_.buffer_, when n requests have
\* been delivered.
Base(n, body) == StreamLen(input, n) + (IF body THEN HeaderLen ELSE 0)

\* buf holds the stream from byte b + 1 to byte r.
Holds(buf, b, r) ==
  /\ r = b + Len(buf)
  /\ \A i \in 1..Len(buf) : buf[i] = Stream(input)[b + i]

HeaderOf(m) == [magic |-> input[m].magic, len |-> input[m].len]

DeliveredOK ==
  /\ delivered \in Seq(Seq(Byte))
  /\ FramingCorrect
  /\ pc["strand"] = "dispatch" => Len(delivered) >= 1

\* What is buffered is the next part of the stream.
BufferOK ==
  Reading => Holds(recv_buffer, Base(Len(delivered), InBody), rcvd)

\* The header in recv_bound_.header_ is that of the next request.
BodyOK ==
  InBody => /\ Len(delivered) < Len(input)
            /\ recv_header = HeaderOf(Len(delivered) + 1)
            /\ HeaderOK(recv_header)

FrameInv == DeliveredOK /\ BufferOK /\ BodyOK

-----------------------------------------------------------------------------
\* parse_header at the end of a request finds the header of the next one.
LEMMA HeaderStep ==
  ASSUME RecvTypeOK, NEW n \in Nat, n <= Len(input), NEW buf \in Seq(Byte),
         NEW r \in 0..Len(Stream(input)), Holds(buf, StreamLen(input, n), r),
         Len(buf) >= HeaderLen
  PROVE  /\ n < Len(input)
         /\ Decode(ConsumeStore(buf, HeaderLen)) = HeaderOf(n + 1)
         /\ Holds(FrontErase(buf, HeaderLen), StreamLen(input, n) + HeaderLen, r)
<1> DEFINE hs == ConsumeStore(buf, HeaderLen)
           st == StreamLen(input, n)
<1>1. /\ HeaderLen \in Nat \ {0} /\ st \in Nat /\ Len(input) \in Nat
      /\ Len(Stream(input)) \in Nat /\ Len(buf) \in Nat
  BY HeaderLenAssumption, StreamFacts, LenProperties
<1>2. n < Len(input)
  <2>1. SUFFICES ASSUME n = Len(input) PROVE FALSE
    BY <1>1
  <2>2. st = Len(Stream(input))
    BY <2>1, StreamLayout DEF RecvTypeOK
  <2> QED BY <1>1, <2>2 DEF Holds
<1>3. n + 1 \in 1..Len(input) /\ (n + 1) - 1 = n
  BY <1>1, <1>2
<1>4. /\ \A i \in 1..(HeaderLen + input[n + 1].len) : Stream(input)[st + i] = <<n + 1, i>>
      /\ input[n + 1].len \in Nat
  BY <1>3, StreamLayout, StreamFacts DEF RecvTypeOK
<1>5. /\ hs \in Seq(Byte) /\ Len(hs) = HeaderLen
      /\ \A i \in 1..HeaderLen : hs[i] = <<n + 1, i>>
  <2>1. hs \in Seq(Byte) /\ Len(hs) = HeaderLen
        /\ \A i \in 1..HeaderLen : hs[i] = buf[i]
    BY <1>1, BufferFacts
  <2>2. \A i \in 1..HeaderLen : buf[i] = Stream(input)[st + i]
    <3>1. \A i \in 1..Len(buf) : buf[i] = Stream(input)[st + i]
      BY DEF Holds
    <3>2. \A i \in 1..HeaderLen : i \in 1..Len(buf)
      BY <1>1
    <3> QED BY ONLY <3>1, <3>2
  <2>3. \A i \in 1..HeaderLen : i \in 1..(HeaderLen + input[n + 1].len)
    <3> DEFINE len == input[n + 1].len
    <3>1. HeaderLen \in Nat /\ len \in Nat
      BY <1>1, <1>4
    <3> HIDE DEF len
    <3>2. \A i \in 1..HeaderLen : i \in 1..(HeaderLen + len)
      BY ONLY <3>1
    <3> QED BY ONLY <3>2 DEF len
  <2> HIDE DEF hs, st
  <2> QED BY <1>4, <2>1, <2>2, <2>3
<1>6. hs = NetStr(n + 1, 0)
  <2>1. NetStr(n + 1, 0) = [i \in 1..HeaderLen |-> <<n + 1, i>>]
    BY <1>1 DEF NetStr
  <2>2. hs = [i \in 1..HeaderLen |-> hs[i]]
    BY <1>5, LenProperties
  <2> HIDE DEF hs
  <2> QED BY <1>5, <2>1, <2>2
<1>7. hs[1][1] = n + 1
  <2> HIDE DEF hs
  <2>1. hs[1] = <<n + 1, 1>>
    BY <1>1, <1>5
  <2> QED BY <2>1
<1>8. Decode(hs) = HeaderOf(n + 1)
  <2> HIDE DEF hs
  <2> QED BY <1>3, <1>6, <1>7 DEF Decode, HeaderOf
<1>9. Holds(FrontErase(buf, HeaderLen), st + HeaderLen, r)
  <2> DEFINE rest == FrontErase(buf, HeaderLen)
  <2>1. /\ Len(rest) = Len(buf) - HeaderLen
        /\ \A i \in 1..Len(rest) : rest[i] = buf[HeaderLen + i]
    BY <1>1, BufferFacts
  <2> HIDE DEF rest, st
  <2>2. Holds(buf, st, r)
    BY DEF st
  <2>3. Holds(rest, st + HeaderLen, r)
    BY <1>1, <2>1, <2>2 DEF Holds
  <2> QED BY <2>3 DEF rest
<1> QED BY <1>2, <1>8, <1>9

\* parse_msg_body behind a header takes exactly the payload of that request.
LEMMA BodyStep ==
  ASSUME RecvTypeOK, NEW n \in Nat, n < Len(input), NEW buf \in Seq(Byte),
         NEW r \in 0..Len(Stream(input)),
         Holds(buf, StreamLen(input, n) + HeaderLen, r),
         Len(buf) >= input[n + 1].len
  PROVE  /\ ConsumeStore(buf, input[n + 1].len) = Payload(n + 1, input[n + 1].len)
         /\ Holds(FrontErase(buf, input[n + 1].len), StreamLen(input, n + 1), r)
<1> DEFINE len == input[n + 1].len
           st == StreamLen(input, n)
           pl == ConsumeStore(buf, len)
<1>1. HeaderLen \in Nat \ {0} /\ n + 1 \in 1..Len(input) /\ (n + 1) - 1 = n
      /\ Len(buf) \in Nat
  <2>1. HeaderLen \in Nat \ {0} /\ Len(buf) \in Nat
    BY HeaderLenAssumption, LenProperties
  <2>2. Len(input) \in Nat
    BY StreamFacts
  <2> QED BY <2>1, <2>2
<1>2. st \in Nat /\ len \in Nat
  BY <1>1, StreamFacts
<1>3. /\ StreamLen(input, n + 1) = st + HeaderLen + len
      /\ \A i \in 1..(HeaderLen + len) : Stream(input)[st + i] = <<n + 1, i>>
  BY <1>1, StreamLayout DEF RecvTypeOK
<1>4. Holds(buf, st + HeaderLen, r) /\ Len(buf) >= len
  OBVIOUS
<1>5. /\ pl \in Seq(Byte) /\ Len(pl) = len
      /\ \A i \in 1..len : pl[i] = buf[i]
      /\ Len(FrontErase(buf, len)) = Len(buf) - len
      /\ \A i \in 1..Len(FrontErase(buf, len)) : FrontErase(buf, len)[i] = buf[len + i]
  <2> HIDE DEF len, st
  <2>1. buf \in Seq(Byte) /\ len \in Nat /\ len <= Len(buf) /\ Len(buf) \in Nat
    BY <1>1, <1>2, <1>4
  <2>2. pl \in Seq(Byte) /\ Len(pl) = len
    BY ONLY <2>1, BufferFacts
  <2>3. \A i \in 1..Len(pl) : pl[i] = buf[i]
    BY ONLY <2>1, BufferFacts
  <2>4. Len(FrontErase(buf, len)) = Len(buf) - len
    BY ONLY <2>1, BufferFacts
  <2>5. \A i \in 1..Len(FrontErase(buf, len)) : FrontErase(buf, len)[i] = buf[len + i]
    BY ONLY <2>1, BufferFacts
  <2> HIDE DEF pl
  <2> QED BY ONLY <2>2, <2>3, <2>4, <2>5
<1> HIDE DEF len, st, pl
<1>6. \A i \in 1..len : pl[i] = <<n + 1, HeaderLen + i>>
  <2> TAKE i \in 1..len
  <2>1. pl[i] = Stream(input)[(st + HeaderLen) + i]
    <3>1. pl[i] = buf[i]
      BY <1>5
    <3>2. i \in 1..Len(buf)
      BY <1>1, <1>2, <1>4
    <3>3. buf[i] = Stream(input)[(st + HeaderLen) + i]
      BY <1>4, <3>2 DEF Holds
    <3> QED BY ONLY <3>1, <3>3
  <2>2. HeaderLen + i \in 1..(HeaderLen + len) /\ (st + HeaderLen) + i = st + (HeaderLen + i)
    BY <1>1, <1>2
  <2> QED BY <1>3, <2>1, <2>2
<1>7. pl = Payload(n + 1, len)
  <2>1. pl = [i \in 1..len |-> pl[i]]
    BY <1>5, LenProperties
  <2> QED BY <1>6, <2>1 DEF Payload
<1>8. Holds(FrontErase(buf, len), st + HeaderLen + len, r)
  BY <1>1, <1>2, <1>4, <1>5 DEF Holds
<1> QED BY <1>3, <1>7, <1>8 DEF len, pl

-----------------------------------------------------------------------------
\* A step that leaves the receiver's data alone and moves the strand neither into
\* the read chain nor between header and body preserves FrameInv.
LEMMA FrameKept ==
  ASSUME FrameInv,
         UNCHANGED <<input, rcvd, recv_buffer, recv_header, delivered>>,
         Reading' => Reading, InBody' => InBody, Reading' /\ InBody => InBody',
         pc'["strand"] = "dispatch" => pc["strand"] = "dispatch"
  PROVE  FrameInv'
<1>1. DeliveredOK'
  BY DEF FrameInv, DeliveredOK, FramingCorrect, HeaderOK
<1>2. BufferOK'
  <2> SUFFICES ASSUME Reading' PROVE Holds(recv_buffer, Base(Len(delivered), InBody), rcvd)'
    BY DEF BufferOK
  <2>1. Holds(recv_buffer, Base(Len(delivered), InBody), rcvd) /\ (InBody' <=> InBody)
    BY DEF FrameInv, BufferOK
  <2> QED BY <2>1 DEF Holds, Base
<1>3. BodyOK'
  BY DEF FrameInv, BodyOK, HeaderOf, HeaderOK
<1> QED BY <1>1, <1>2, <1>3 DEF FrameInv

\* The receiver parses a header out of buf, which ends at byte r of the stream.
LEMMA FrameHeader ==
  ASSUME ControlInv, FrameInv, NEW buf \in Seq(Byte), NEW r \in 0..Len(Stream(input)),
         Holds(buf, StreamLen(input, Len(delivered)), r), Len(buf) >= HeaderLen,
         ParseHeader(buf), rcvd' = r, read_op'.kind = "none",
         UNCHANGED <<input, delivered, resume>>
  PROVE  FrameInv'
<1>1. Len(delivered) \in Nat /\ Len(delivered) <= Len(input) /\ RecvTypeOK
  BY LenProperties DEF FrameInv, DeliveredOK, FramingCorrect, ControlInv
<1>2. /\ Len(delivered) < Len(input)
      /\ recv_header' = HeaderOf(Len(delivered) + 1)
      /\ Holds(recv_buffer', StreamLen(input, Len(delivered)) + HeaderLen, r)
  BY <1>1, HeaderStep DEF ParseHeader
<1>3. \/ pc'["strand"] = "do_read_msg" /\ HeaderOK(recv_header')
      \/ pc'["strand"] = "close"
  BY DEF ParseHeader, Goto, ControlInv, ControlTypeOK, Threads
<1>4. DeliveredOK'
  BY <1>3 DEF FrameInv, DeliveredOK, FramingCorrect, HeaderOK
<1>5. BufferOK'
  <2>1. Reading' => InBody'
    BY <1>3 DEF Reading, InReadChain, InBody
  <2> QED BY <1>2, <2>1 DEF BufferOK, Holds, Base
<1>6. BodyOK'
  <2>1. InBody' => HeaderOK(recv_header')
    BY <1>3 DEF InBody
  <2> QED BY <1>2, <2>1 DEF BodyOK, HeaderOf, HeaderOK
<1> QED BY <1>4, <1>5, <1>6 DEF FrameInv

\* The receiver takes a body out of buf, which ends at byte r of the stream.
LEMMA FrameBody ==
  ASSUME ControlInv, FrameInv, InBody, NEW buf \in Seq(Byte),
         NEW r \in 0..Len(Stream(input)),
         Holds(buf, StreamLen(input, Len(delivered)) + HeaderLen, r),
         Len(buf) >= recv_header.len,
         ParseMsgBody(buf), rcvd' = r, read_op'.kind = "none",
         UNCHANGED <<input, resume>>
  PROVE  FrameInv'
<1> DEFINE d == Len(delivered)
<1>1. /\ d \in Nat /\ RecvTypeOK /\ delivered \in Seq(Seq(Byte)) /\ d < Len(input)
      /\ recv_header.len = input[d + 1].len /\ HeaderOK(input[d + 1])
  BY LenProperties DEF FrameInv, DeliveredOK, BodyOK, ControlInv, HeaderOf, HeaderOK
<1>2. /\ delivered' = Append(delivered, Payload(d + 1, input[d + 1].len))
      /\ Holds(recv_buffer', StreamLen(input, d + 1), r)
      /\ pc' = [pc EXCEPT !["strand"] = "dispatch"]
  BY <1>1, BodyStep DEF ParseMsgBody, Goto
<1>3. pc'["strand"] = "dispatch"
  BY <1>2 DEF ControlInv, ControlTypeOK, Threads
<1>4. Payload(d + 1, input[d + 1].len) \in Seq(Byte)
  <2>1. input[d + 1].len \in Nat /\ HeaderLen \in Nat
    BY <1>1, StreamFacts, HeaderLenAssumption
  <2>2. d + 1 \in Nat
    BY <1>1
  <2> QED BY <2>1, <2>2, MessageType
<1>5. /\ delivered' \in Seq(Seq(Byte)) /\ Len(delivered') = d + 1
      /\ \A m \in 1..d : delivered'[m] = delivered[m]
      /\ delivered'[d + 1] = Payload(d + 1, input[d + 1].len)
  BY <1>1, <1>2, <1>4, AppendProperties
<1> HIDE DEF d
<1>6. DeliveredOK'
  <2>1. \A m \in 1..d : delivered[m] = Payload(m, input[m].len) /\ HeaderOK(input[m])
    BY DEF FrameInv, DeliveredOK, FramingCorrect, d
  <2>2. \A m \in 1..(d + 1) : delivered'[m] = Payload(m, input[m].len) /\ HeaderOK(input[m])
    <3> TAKE m \in 1..(d + 1)
    <3>1. CASE m \in 1..d
      BY <1>5, <2>1, <3>1
    <3>2. CASE m = d + 1
      BY <1>1, <1>5, <3>2
    <3> QED BY <1>1, <3>1, <3>2
  <2> QED BY <1>1, <1>5, <2>2 DEF DeliveredOK, FramingCorrect, HeaderOK
<1>7. ~InBody'
  BY <1>3 DEF InBody
<1>8. BufferOK'
  <2>1. StreamLen(input, d + 1) \in Nat
    BY <1>1, StreamFacts
  <2> QED BY <1>2, <1>5, <1>7, <2>1 DEF BufferOK, Holds, Base
<1> QED BY <1>6, <1>7, <1>8 DEF FrameInv, BodyOK

-----------------------------------------------------------------------------
\* FrameInv holds at the start: nothing is read, nothing is delivered.
LEMMA FrameInit == Init => FrameInv
<1> SUFFICES ASSUME Init PROVE FrameInv
  OBVIOUS
<1>1. delivered = <<>> /\ recv_buffer = <<>> /\ rcvd = 0 /\ ~InBody
      /\ pc["strand"] = "start"
  BY DEF Init, InBody, NoRead, Threads
<1>2. StreamLen(input, 0) = 0 /\ Len(input) \in Nat
  BY StreamLayout, InputAssumption, LenProperties DEF Init
<1>3. DeliveredOK
  BY <1>1, <1>2 DEF DeliveredOK, FramingCorrect
<1>4. BufferOK
  BY <1>1, <1>2 DEF BufferOK, Holds, Base
<1> QED BY <1>1, <1>3, <1>4 DEF FrameInv, BodyOK

\* The bytes of a completed read continue the buffered part of the stream.
LEMMA FrameReceived ==
  ASSUME ControlInv, FrameInv, read_op.st = "ok"
  PROVE  /\ Received \in Seq(Byte)
         /\ rcvd + read_op.n \in 0..Len(Stream(input))
         /\ Holds(Received, Base(Len(delivered), InBody), rcvd + read_op.n)
<1>1. RecvTypeOK /\ ReadBounds /\ ReadOpShape
  BY DEF ControlInv
<1>2. /\ Received \in Seq(Byte)
      /\ Len(Received) = Len(recv_buffer) + read_op.n
      /\ \A i \in 1..Len(recv_buffer) : Received[i] = recv_buffer[i]
      /\ \A i \in 1..read_op.n : Received[Len(recv_buffer) + i] = Stream(input)[rcvd + i]
  BY <1>1, ReceivedFacts
<1>3. rcvd \in Nat /\ read_op.n \in Nat /\ Len(recv_buffer) \in Nat
      /\ Len(Stream(input)) \in Nat
  BY <1>1, StreamFacts, ConnAssumption, LenProperties DEF RecvTypeOK, ReadOp
<1>4. Base(Len(delivered), InBody) \in Nat
  <2>1. Len(delivered) \in 0..Len(input)
    BY <1>1, StreamFacts, LenProperties DEF FrameInv, DeliveredOK, FramingCorrect
  <2>2. StreamLen(input, Len(delivered)) \in Nat /\ HeaderLen \in Nat
    BY <1>1, <2>1, StreamFacts, HeaderLenAssumption
  <2> QED BY <2>2 DEF Base
<1>5. Holds(recv_buffer, Base(Len(delivered), InBody), rcvd)
  BY <1>1 DEF FrameInv, BufferOK, Reading, ReadOpShape
<1> DEFINE b == Base(Len(delivered), InBody)
<1> HIDE DEF b
<1>6. \A i \in 1..Len(Received) : Received[i] = Stream(input)[b + i]
  <2> TAKE i \in 1..Len(Received)
  <2>1. CASE i \in 1..Len(recv_buffer)
    BY <1>2, <1>5, <2>1 DEF Holds, b
  <2>2. CASE i \notin 1..Len(recv_buffer)
    <3> DEFINE j == i - Len(recv_buffer)
    <3>1. j \in 1..read_op.n /\ i = Len(recv_buffer) + j
      BY <1>2, <1>3, <2>2
    <3> HIDE DEF j
    <3>2. rcvd + j = b + i
      BY <1>3, <1>4, <1>5, <3>1 DEF Holds, b
    <3> QED BY <1>2, <3>1, <3>2
  <2> QED BY <2>1, <2>2
<1>7. rcvd + read_op.n = b + Len(Received)
  BY <1>2, <1>3, <1>4, <1>5 DEF Holds, b
<1>8. Holds(Received, b, rcvd + read_op.n)
  BY <1>6, <1>7 DEF Holds
<1>9. rcvd + read_op.n \in 0..Len(Stream(input))
  BY <1>1, <1>3 DEF ReadBounds
<1> QED BY <1>2, <1>8, <1>9 DEF b

\* do_read and read_handler: between two requests.
LEMMA Frame_do_read ==
  ASSUME ControlInv, FrameInv, do_read
  PROVE  FrameInv'
<1> USE DEF do_read, envVars, connVars, timerVars, rpcVars, sendVars
<1>1. /\ RecvTypeOK /\ ~InBody /\ Reading /\ read_op' = read_op
      /\ read_op.kind = "none" /\ ControlTypeOK /\ "strand" \in Threads
  BY DEF ControlInv, ControlTypeOK, Threads, OneReadChain, InReadChain, InBody, Reading
<1>2. CASE ~Usable \/ Len(recv_buffer) < HeaderLen
  <2>1. pc'["strand"] \in {"idle", "arm_head"} /\ UNCHANGED <<recv_buffer, recv_header>>
    BY <1>1, <1>2, HeaderLenAssumption, LenProperties DEF Goto, RecvTypeOK, ControlTypeOK
  <2>2. ~InBody' /\ pc'["strand"] # "dispatch"
    BY <1>1, <2>1 DEF InBody
  <2> QED BY <1>1, <2>1, <2>2, FrameKept
<1>3. CASE Usable /\ Len(recv_buffer) >= HeaderLen
  <2>1. ParseHeader(recv_buffer)
    BY <1>1, <1>3, HeaderLenAssumption, LenProperties DEF RecvTypeOK
  <2>2. Holds(recv_buffer, StreamLen(input, Len(delivered)), rcvd)
    <3>1. Holds(recv_buffer, StreamLen(input, Len(delivered)) + 0, rcvd)
      BY <1>1 DEF FrameInv, BufferOK, Base
    <3>2. StreamLen(input, Len(delivered)) + 0 = StreamLen(input, Len(delivered))
      BY <1>1, StreamFacts, LenProperties DEF FrameInv, DeliveredOK, FramingCorrect
    <3> QED BY <3>1, <3>2
  <2>3. recv_buffer \in Seq(Byte) /\ rcvd \in 0..Len(Stream(input))
    BY <1>1 DEF RecvTypeOK
  <2> QED BY <1>1, <1>3, <2>1, <2>2, <2>3, FrameHeader
<1> QED BY <1>1, <1>2, <1>3, HeaderLenAssumption, LenProperties DEF RecvTypeOK

\* do_read_msg: a buffered body is delivered.
LEMMA Frame_do_read_msg ==
  ASSUME ControlInv, FrameInv, do_read_msg
  PROVE  FrameInv'
<1> USE DEF do_read_msg, envVars, connVars, timerVars, rpcVars, sendVars
<1>1. /\ RecvTypeOK /\ ControlTypeOK /\ InBody /\ Reading /\ read_op' = read_op
      /\ read_op.kind = "none" /\ "strand" \in Threads /\ recv_header.len \in Nat
  BY DEF ControlInv, Threads, OneReadChain, InReadChain, InBody, Reading, RecvTypeOK
<1>2. CASE ~Usable \/ Len(recv_buffer) < recv_header.len
  <2>1. pc'["strand"] \in {"idle", "arm_body"} /\ UNCHANGED <<recv_buffer, delivered>>
    BY <1>1, <1>2, LenProperties DEF Goto, RecvTypeOK, ControlTypeOK
  <2>2. pc'["strand"] = "idle" => ~Reading' /\ ~InBody'
    BY <1>1 DEF Reading, InReadChain, InBody
  <2>3. pc'["strand"] = "arm_body" => InBody'
    BY DEF InBody
  <2> QED BY <1>1, <2>1, <2>2, <2>3, FrameKept
<1>3. CASE Usable /\ Len(recv_buffer) >= recv_header.len
  <2>1. ParseMsgBody(recv_buffer)
    BY <1>1, <1>3, LenProperties DEF RecvTypeOK
  <2>2. Holds(recv_buffer, StreamLen(input, Len(delivered)) + HeaderLen, rcvd)
    BY <1>1 DEF FrameInv, BufferOK, Base
  <2>3. recv_buffer \in Seq(Byte) /\ rcvd \in 0..Len(Stream(input))
    BY <1>1 DEF RecvTypeOK
  <2> QED BY <1>1, <1>3, <2>1, <2>2, <2>3, FrameBody
<1> QED BY <1>1, <1>2, <1>3, LenProperties DEF RecvTypeOK

\* read_handler: bytes of a header arrive.
LEMMA Frame_read_handler ==
  ASSUME ControlInv, FrameInv, read_handler
  PROVE  FrameInv'
<1> USE DEF read_handler, envVars, connVars, rpcVars, sendVars
<1>1. /\ RecvTypeOK /\ ControlTypeOK /\ ~InBody /\ Reading
      /\ read_op'.kind = "none" /\ "strand" \in Threads
  BY DEF ControlInv, Threads, InBody, Reading, NoRead
<1>2. /\ Received \in Seq(Byte) /\ rcvd + read_op.n \in 0..Len(Stream(input))
      /\ Holds(Received, Base(Len(delivered), InBody), rcvd + read_op.n)
  BY FrameReceived
<1>3. Base(Len(delivered), InBody) = StreamLen(input, Len(delivered))
  BY <1>1, StreamFacts, LenProperties DEF Base, FrameInv, DeliveredOK, FramingCorrect
<1>4. Len(Received) \in Nat /\ HeaderLen \in Nat
  BY <1>2, LenProperties, HeaderLenAssumption
<1>5. CASE Len(Received) < HeaderLen
  <2>1. /\ recv_buffer' = Received /\ rcvd' = rcvd + read_op.n
        /\ pc'["strand"] = "do_read"
        /\ UNCHANGED <<input, recv_header, delivered>>
    BY <1>1, <1>5 DEF Goto, ControlTypeOK
  <2>2. ~InBody'
    BY <1>1, <2>1 DEF InBody
  <2>3. DeliveredOK'
    BY <2>1 DEF FrameInv, DeliveredOK, FramingCorrect, HeaderOK
  <2>4. Base(Len(delivered), InBody)' = Base(Len(delivered), InBody)
    BY <1>1, <2>1, <2>2 DEF Base
  <2>5. BufferOK'
    BY <1>2, <2>1, <2>4 DEF BufferOK, Holds
  <2> QED BY <2>2, <2>3, <2>5 DEF FrameInv, BodyOK
<1>6. CASE Len(Received) >= HeaderLen
  <2>1. ParseHeader(Received) /\ rcvd' = rcvd + read_op.n
        /\ UNCHANGED <<input, delivered, resume>>
    BY <1>4, <1>6
  <2>2. Holds(Received, StreamLen(input, Len(delivered)), rcvd + read_op.n)
    BY <1>2, <1>3
  <2> QED BY <1>1, <1>2, <1>6, <2>1, <2>2, FrameHeader
<1> QED BY <1>4, <1>5, <1>6

\* read_msg_handler: bytes of a body arrive.
LEMMA Frame_read_msg_handler ==
  ASSUME ControlInv, FrameInv, read_msg_handler
  PROVE  FrameInv'
<1> USE DEF read_msg_handler, envVars, connVars, rpcVars, sendVars
<1>1. /\ RecvTypeOK /\ ControlTypeOK /\ InBody /\ Reading /\ recv_header.len \in Nat
      /\ read_op'.kind = "none" /\ "strand" \in Threads
  BY DEF ControlInv, Threads, InBody, Reading, NoRead, RecvTypeOK
<1>2. /\ Received \in Seq(Byte) /\ rcvd + read_op.n \in 0..Len(Stream(input))
      /\ Holds(Received, Base(Len(delivered), InBody), rcvd + read_op.n)
  BY FrameReceived
<1>3. Base(Len(delivered), InBody) = StreamLen(input, Len(delivered)) + HeaderLen
  BY <1>1 DEF Base
<1>4. Len(Received) \in Nat
  BY <1>2, LenProperties
<1>5. CASE Len(Received) < recv_header.len
  <2>1. /\ recv_buffer' = Received /\ rcvd' = rcvd + read_op.n
        /\ pc'["strand"] = "do_read_msg"
        /\ UNCHANGED <<input, recv_header, delivered>>
    BY <1>1, <1>5 DEF Goto, ControlTypeOK
  <2>2. InBody'
    BY <2>1 DEF InBody
  <2>3. DeliveredOK'
    BY <2>1 DEF FrameInv, DeliveredOK, FramingCorrect, HeaderOK
  <2>4. Base(Len(delivered), InBody)' = Base(Len(delivered), InBody)
    BY <1>1, <2>1, <2>2 DEF Base
  <2>5. BufferOK'
    BY <1>2, <2>1, <2>4 DEF BufferOK, Holds
  <2>6. BodyOK'
    BY <1>1, <2>1 DEF FrameInv, BodyOK, HeaderOf, HeaderOK
  <2> QED BY <2>3, <2>5, <2>6 DEF FrameInv
<1>6. CASE Len(Received) >= recv_header.len
  <2>1. ParseMsgBody(Received) /\ rcvd' = rcvd + read_op.n /\ UNCHANGED <<input, resume>>
    BY <1>1, <1>4, <1>6
  <2>2. Holds(Received, StreamLen(input, Len(delivered)) + HeaderLen, rcvd + read_op.n)
    BY <1>2, <1>3
  <2> QED BY <1>1, <1>2, <1>6, <2>1, <2>2, FrameBody
<1> QED BY <1>1, <1>4, <1>5, <1>6

\* What FrameKept asks of a step.
FrameFrame ==
  /\ UNCHANGED <<input, rcvd, recv_buffer, recv_header, delivered>>
  /\ Reading' => Reading
  /\ InBody' => InBody
  /\ Reading' /\ InBody => InBody'
  /\ pc'["strand"] = "dispatch" => pc["strand"] = "dispatch"

\* The other steps of the strand leave the place in the stream alone.
LEMMA Frame_strand ==
  ASSUME ControlInv,
         \/ start \/ ArmHead \/ ArmBody \/ ReadHandlerEc \/ Dispatch
         \/ write_handler \/ WriteHandlerEc
  PROVE  FrameFrame
<1> USE DEF ControlInv, ControlTypeOK, Threads, Goto, FrameFrame, Reading, InReadChain,
            InBody, envVars, connVars, timerVars, recvVars, rpcVars, sendVars
<1>1. CASE start
  BY <1>1 DEF start
<1>2. CASE ArmHead
  BY <1>2 DEF ArmHead, StartRead, SetOpsTimer, OneReadChain
<1>3. CASE ArmBody
  BY <1>3 DEF ArmBody, StartRead, SetOpsTimer, OneReadChain
<1>4. CASE ReadHandlerEc
  <2>1. NoRead \in ReadOp /\ NoRead.kind = "none"
    BY ConnAssumption DEF ReadOp, NoRead
  <2>2. \/ AbortOps(NoRead, write_done) \/ read_op' = NoRead
    BY <1>4 DEF ReadHandlerEc, handle_socket_ec, ops_cancel
  <2>3. read_op'.kind = "none"
    BY <2>1, <2>2, AbortFacts
  <2>4. pc'["strand"] \in {"idle", "close"}
    BY <1>4 DEF ReadHandlerEc, handle_socket_ec
  <2> QED BY <1>4, <2>3, <2>4 DEF ReadHandlerEc, ReadOpShape
<1>5. CASE Dispatch
  BY <1>5 DEF Dispatch, SendMessage, OneReadChain
<1>6. CASE write_handler
  BY <1>6 DEF write_handler
<1>7. CASE WriteHandlerEc
  <2>1. Tail(write_done) \in Seq(WriteEc)
    BY <1>7, HeadTailProperties DEF WriteHandlerEc
  <2>2. \/ AbortOps(read_op, Tail(write_done)) \/ read_op' = read_op
    BY <1>7 DEF WriteHandlerEc, handle_socket_ec, ops_cancel
  <2>3. read_op'.kind = read_op.kind
    BY <2>1, <2>2, AbortFacts DEF RecvTypeOK
  <2>4. pc'["strand"] \in {"idle", "close"}
    BY <1>7 DEF WriteHandlerEc, handle_socket_ec
  <2> QED BY <1>7, <2>3, <2>4 DEF WriteHandlerEc
<1> QED BY <1>1, <1>2, <1>3, <1>4, <1>5, <1>6, <1>7

\* So do the network, the timers, the workers, do_write and the closing.
LEMMA Frame_others ==
  ASSUME ControlInv,
         \/ Network
         \/ \E w \in Workers : Worker(w)
         \/ \E t \in Threads : DoWriteTest(t) \/ DoWriteLocked(t) \/ sock_shutdown_and_close(t)
         \/ ops_cancel_timeout_call \/ TimerExpire \/ UpdateTimeOut \/ PeerDown
  PROVE  FrameFrame
<1> USE ConnAssumption DEF ControlInv, ControlTypeOK, Threads, Goto, FrameFrame, Reading,
            InReadChain, InBody, envVars, connVars, timerVars, recvVars, rpcVars, sendVars
<1>a. AbortOps(read_op, write_done) => read_op'.kind = read_op.kind
  BY AbortFacts DEF RecvTypeOK
<1>1. CASE ReadComplete \/ ReadFail
  <2>1. read_op'.kind = read_op.kind
    BY <1>1 DEF ReadComplete, ReadFail, RecvTypeOK, ReadOp
  <2>2. UNCHANGED <<input, recvVars, pc, resume>>
    BY <1>1 DEF ReadComplete, ReadFail
  <2> QED BY <2>1, <2>2
<1>2. CASE Transmit \/ WriteFail
  BY <1>2 DEF Transmit, WriteFail
<1>3. ASSUME NEW w \in Workers, Pop(w) \/ reply_rpc_message(w)
      PROVE  FrameFrame
  <2>1. UNCHANGED <<input, recvVars, resume, read_op>> /\ pc'["strand"] = pc["strand"]
    BY <1>3 DEF Pop, reply_rpc_message, SendMessage
  <2> QED BY <2>1
<1>4. ASSUME NEW t \in Threads, DoWriteTest(t) \/ DoWriteLocked(t)
      PROVE  FrameFrame
  <2>1. UNCHANGED <<input, recvVars, resume, read_op>>
    BY <1>4 DEF DoWriteTest, DoWriteLocked
  <2>2. \/ pc'["strand"] = pc["strand"]
        \/ /\ pc["strand"] \in {"do_write", "write_lock"}
           /\ pc'["strand"] \in {"write_lock", resume}
    BY <1>4 DEF DoWriteTest, DoWriteLocked, Return
  <2> QED BY <2>1, <2>2
<1>5. ASSUME NEW t \in Threads, sock_shutdown_and_close(t)
      PROVE  FrameFrame
  <2>1. UNCHANGED <<input, recvVars, resume>> /\ read_op'.kind = read_op.kind
    BY <1>a, <1>5 DEF sock_shutdown_and_close
  <2>2. \/ pc'["strand"] = pc["strand"]
        \/ pc["strand"] = "close" /\ pc'["strand"] = "idle"
    BY <1>5 DEF sock_shutdown_and_close
  <2> QED BY <2>1, <2>2
<1>6. CASE ops_cancel_timeout_call
  BY <1>a, <1>6 DEF ops_cancel_timeout_call, ops_cancel
<1>7. CASE TimerExpire \/ UpdateTimeOut \/ PeerDown
  BY <1>7 DEF TimerExpire, UpdateTimeOut, PeerDown
<1> QED BY <1>1, <1>2, <1>3, <1>4, <1>5, <1>6, <1>7 DEF Network, Worker

\* Every step preserves FrameInv.
LEMMA FrameStep == ControlInv /\ FrameInv /\ [Next]_vars => FrameInv'
<1> SUFFICES ASSUME ControlInv, FrameInv, [Next]_vars PROVE FrameInv'
  OBVIOUS
<1>1. CASE FrameFrame
  BY <1>1, FrameKept DEF FrameFrame
<1>2. CASE do_read \/ do_read_msg \/ read_handler \/ read_msg_handler
  BY <1>2, Frame_do_read, Frame_do_read_msg, Frame_read_handler, Frame_read_msg_handler
<1>3. CASE UNCHANGED vars
  <2>1. FrameFrame
    BY <1>3 DEF vars, envVars, recvVars, FrameFrame, Reading, InReadChain, InBody
  <2> QED BY <1>1, <2>1
<1> QED BY <1>1, <1>2, <1>3, Frame_strand, Frame_others DEF Next, Strand

\* FrameInv holds throughout.
THEOREM FrameSafe == Spec => []FrameInv
<1>1. Init => FrameInv
  BY FrameInit
<1>2. ControlInv /\ FrameInv /\ [Next]_vars => FrameInv'
  BY FrameStep
<1> QED BY <1>1, <1>2, ControlSafe, PTL DEF Spec

\* Whatever the requests and however their bytes are cut into reads, exactly the
\* payloads of the requests reach the Dispatcher, in order and byte for byte.
THEOREM FramingSafe == Spec => []FramingCorrect
<1>1. FrameInv => FramingCorrect
  BY DEF FrameInv, DeliveredOK
<1> QED BY <1>1, FrameSafe, PTL
-----------------------------------------------------------------------------
\* The sending half of TypeOK, and a worker that replies has a request.
SendInv ==
  /\ SendTypeOK
  /\ \A w \in Workers : pc[w] = "reply" => job[w] \in 1..Len(input)

\* A response is a sequence of bytes.
LEMMA ReplyType ==
  ASSUME RecvTypeOK, NEW m \in 1..Len(input)
  PROVE  ReplyLen(m) \in Nat /\ NetStr(m, ReplyLen(m)) \in Seq(Byte)
<1>1. input[m] \in Request /\ m \in Nat
  BY StreamFacts
<1>2. ReplyLen(m) \in Nat
  BY <1>1, ConnAssumption DEF ReplyLen, Request
<1> QED BY <1>1, <1>2, MessageType

\* async_send_message appends a whole response, or nothing.
LEMMA SendMessageType ==
  ASSUME RecvTypeOK, send_buffer \in Seq(Byte), appended \in Seq(Byte),
         NEW m \in 1..Len(input), NEW t, NEW back,
         SendMessage(m, ReplyLen(m), t, back)
  PROVE  send_buffer' \in Seq(Byte) /\ appended' \in Seq(Byte)
<1>1. NetStr(m, ReplyLen(m)) \in Seq(Byte)
  BY ReplyType
<1>2. \/ UNCHANGED <<send_buffer, appended>>
      \/ /\ send_buffer' = send_buffer \o NetStr(m, ReplyLen(m))
         /\ appended' = appended \o NetStr(m, ReplyLen(m))
  BY DEF SendMessage, BufferAppend
<1> QED BY <1>1, <1>2, ConcatProperties

\* A step that only takes writes away from the queue preserves SendInv.
LEMMA SendKept ==
  ASSUME ControlInv, SendInv, input' = input,
         UNCHANGED <<delivered, queue, job, send_buffer, io_block, appended, wire>>,
         write_ops' \in {write_ops, <<>>} \/ (write_ops # <<>> /\ write_ops' = Tail(write_ops)),
         \A w \in Workers : pc'[w] = "reply" => pc[w] = "reply"
  PROVE  SendInv'
<1>1. WithinBlock(write_ops', Len(io_block))
  <2>1. WithinBlock(write_ops, Len(io_block))
    BY DEF SendInv, SendTypeOK, WithinBlock
  <2>2. CASE write_ops' = write_ops
    BY <2>1, <2>2 DEF WithinBlock
  <2>3. CASE write_ops' = <<>>
    BY <2>3 DEF WithinBlock
  <2>4. CASE write_ops # <<>> /\ write_ops' = Tail(write_ops)
    <3>1. write_ops \in Seq(WriteOp)
      BY DEF ControlInv, ControlTypeOK
    <3>2. /\ Len(Tail(write_ops)) = Len(write_ops) - 1 /\ Len(write_ops) \in Nat
          /\ \A i \in 1..Len(Tail(write_ops)) : Tail(write_ops)[i] = write_ops[i + 1]
      BY <2>4, <3>1, HeadTailProperties, LenProperties
    <3>3. \A i \in 1..Len(Tail(write_ops)) : i + 1 \in 1..Len(write_ops)
      BY <3>2
    <3>4. WithinBlock(Tail(write_ops), Len(io_block))
      BY <2>1, <3>2, <3>3 DEF WithinBlock
    <3> QED BY <2>4, <3>4
  <2> QED BY <2>2, <2>3, <2>4
<1> QED BY <1>1 DEF SendInv, SendTypeOK, WithinBlock

\* Queueing a request, and rejecting one from the strand.
LEMMA Send_Dispatch ==
  ASSUME ControlInv, FrameInv, SendInv, Dispatch
  PROVE  SendInv'
<1> USE DEF Dispatch, envVars, connVars, timerVars, recvVars, Goto
<1> DEFINE m == Len(delivered)
<1>1. m \in 1..Len(input) /\ RecvTypeOK
  BY StreamFacts, LenProperties DEF FrameInv, DeliveredOK, FramingCorrect, ControlInv
<1> HIDE DEF m
<1>2. \/ UNCHANGED <<send_buffer, appended>>
      \/ SendMessage(m, ReplyLen(m), "strand", "do_read")
  BY DEF m
<1>3. send_buffer' \in Seq(Byte) /\ appended' \in Seq(Byte)
  BY <1>1, <1>2, SendMessageType DEF SendInv, SendTypeOK
<1>4. queue' \in Seq(1..Len(input))
  <2>1. queue' = queue \/ queue' = Append(queue, m)
    BY DEF m
  <2>2. queue \in Seq(1..Len(input)) /\ m \in 1..Len(input)
    BY <1>1 DEF SendInv, SendTypeOK
  <2>3. Append(queue, m) \in Seq(1..Len(input))
    BY ONLY <2>2, AppendProperties
  <2> QED BY ONLY <2>1, <2>2, <2>3
<1>5. \A w \in Workers : pc'[w] = pc[w]
  BY ConnAssumption DEF SendMessage, ControlInv, ControlTypeOK, Threads
<1> QED BY <1>3, <1>4, <1>5 DEF SendInv, SendTypeOK

\* A worker takes a request of the queue.
LEMMA Send_Pop ==
  ASSUME ControlInv, SendInv, NEW w \in Workers, Pop(w)
  PROVE  SendInv'
<1> USE DEF Pop, envVars, connVars, timerVars, recvVars, sendVars, Goto
<1>1. /\ queue \in Seq(1..Len(input)) /\ job \in [Workers -> 0..Len(input)]
      /\ queue # <<>> /\ Len(input) \in Nat
  BY StreamFacts DEF SendInv, SendTypeOK, ControlInv
<1>2. Head(queue) \in 1..Len(input) /\ Tail(queue) \in Seq(1..Len(input))
  BY <1>1, HeadTailProperties
<1>3. job' \in [Workers -> 0..Len(input)] /\ job'[w] = Head(queue)
      /\ \A v \in Workers \ {w} : job'[v] = job[v]
  BY <1>1, <1>2
<1>4. \A v \in Workers : pc'[v] = "reply" => v = w \/ pc[v] = "reply"
  BY DEF ControlInv, ControlTypeOK, Threads
<1>5. \A v \in Workers : pc'[v] = "reply" => job'[v] \in 1..Len(input)
  BY <1>2, <1>3, <1>4 DEF SendInv
<1> QED BY <1>2, <1>3, <1>5 DEF SendInv, SendTypeOK

\* A worker appends its response.
LEMMA Send_reply ==
  ASSUME ControlInv, SendInv, NEW w \in Workers, reply_rpc_message(w)
  PROVE  SendInv'
<1> USE DEF reply_rpc_message, envVars, connVars, timerVars, recvVars, rpcVars, Goto
<1>1. job[w] \in 1..Len(input) /\ RecvTypeOK
  BY DEF SendInv, ControlInv
<1>2. \/ UNCHANGED <<send_buffer, appended>>
      \/ SendMessage(job[w], ReplyLen(job[w]), w, "idle")
  OBVIOUS
<1>3. send_buffer' \in Seq(Byte) /\ appended' \in Seq(Byte)
  BY <1>1, <1>2, SendMessageType DEF SendInv, SendTypeOK
<1>4. \A v \in Workers : pc'[v] = "reply" => pc[v] = "reply"
  BY DEF SendMessage, ControlInv, ControlTypeOK, Threads
<1> QED BY <1>3, <1>4 DEF SendInv, SendTypeOK

\* do_write under the lock fills the block and queues a write of it.
LEMMA Send_DoWriteLocked ==
  ASSUME ControlInv, SendInv, NEW t \in Threads, DoWriteLocked(t)
  PROVE  SendInv'
<1> USE DEF DoWriteLocked, envVars, connVars, recvVars, rpcVars, Goto
<1>1. \A v \in Workers : pc'[v] = "reply" => pc[v] = "reply"
  BY DEF Return, ControlInv, ControlTypeOK, Threads
<1>2. CASE send_buffer = <<>>
  BY <1>1, <1>2, SendKept
<1>3. CASE send_buffer # <<>>
  <2> DEFINE tw == Smaller(Len(send_buffer), BlockLen)
             op == [len |-> tw, pos |-> 0]
  <2>1. /\ io_block \in Seq(Byte) /\ Len(io_block) <= BlockLen
        /\ send_buffer \in Seq(Byte) /\ WithinBlock(write_ops, Len(io_block))
        /\ write_ops \in Seq(WriteOp)
    BY DEF SendInv, SendTypeOK, WithinBlock, ControlInv, ControlTypeOK
  <2>2. /\ io_block' = ConsumeBlock(io_block, send_buffer, tw)
        /\ send_buffer' = FrontErase(send_buffer, tw)
        /\ write_ops' = Append(write_ops, op) \/ write_ops' = write_ops
    BY <1>3
  <2>3. /\ tw \in Nat \ {0} /\ tw <= Len(io_block') /\ io_block' \in Seq(Byte)
        /\ Len(io_block) <= Len(io_block') /\ Len(io_block') <= BlockLen
        /\ send_buffer' \in Seq(Byte)
    <3>1. BlockLen \in Nat \ {0}
      BY ConnAssumption, HeaderLenAssumption
    <3> QED BY <1>3, <2>1, <2>2, <3>1, BlockStep
  <2> HIDE DEF tw
  <2>4. WithinBlock(write_ops, Len(io_block')) /\ WithinBlock(Append(write_ops, op), Len(io_block'))
    BY <2>1, <2>3, AddPart, LenProperties DEF WriteOp, WritePart
  <2>5. WithinBlock(write_ops', Len(io_block'))
    BY <2>2, <2>4
  <2> QED BY <1>1, <2>3, <2>5 DEF SendInv, SendTypeOK, WithinBlock
<1> QED BY <1>2, <1>3

\* Bytes of the block go out.
LEMMA Send_Transmit ==
  ASSUME ControlInv, SendInv, Transmit
  PROVE  SendInv'
<1> USE DEF Transmit, envVars, connVars, timerVars, recvVars, rpcVars, sendVars
<1>1. /\ io_block \in Seq(Byte) /\ wire \in Seq(Byte) /\ Len(io_block) \in Nat
      /\ WithinBlock(write_ops, Len(io_block))
      /\ write_ops \in Seq(WriteOp) /\ write_ops # <<>>
  BY LenProperties DEF SendInv, SendTypeOK, WithinBlock, ControlInv, ControlTypeOK
<1> DEFINE op == Head(write_ops)
<1>2. PICK k \in 1..(op.len - op.pos) :
        /\ wire' = wire \o SubSeq(io_block, op.pos + 1, op.pos + k)
        /\ IF op.pos + k = op.len
           THEN write_ops' = Tail(write_ops)
           ELSE write_ops' = Append(Tail(write_ops), [op EXCEPT !.pos = @ + k])
  OBVIOUS
<1>3. /\ op.pos \in Nat /\ op.pos + k <= Len(io_block)
      /\ WithinBlock(write_ops', Len(io_block))
  BY <1>1, <1>2, PartStep DEF WriteOp, WritePart
<1>4. k \in Nat
  BY <1>1, SendPart DEF WriteOp
<1> HIDE DEF op
<1>5. SubSeq(io_block, op.pos + 1, op.pos + k) \in Seq(Byte)
  <2>1. \A i \in (op.pos + 1)..(op.pos + k) : i \in 1..Len(io_block)
    BY <1>1, <1>3, <1>4
  <2>2. \A i \in (op.pos + 1)..(op.pos + k) : io_block[i] \in Byte
    BY <1>1, <2>1, ElementOfSeq
  <2>3. op.pos + 1 \in Int /\ op.pos + k \in Int
    BY <1>3, <1>4
  <2> QED BY <2>2, <2>3, SubSeqProperties
<1>6. wire' \in Seq(Byte)
  BY <1>1, <1>2, <1>5, ConcatProperties
<1> QED BY <1>3, <1>6 DEF SendInv, SendTypeOK, WithinBlock

\* Every step preserves SendInv.
LEMMA SendStep == ControlInv /\ FrameInv /\ FrameInv' /\ SendInv /\ [Next]_vars => SendInv'
<1> SUFFICES ASSUME ControlInv, FrameInv, FrameInv', SendInv, [Next]_vars PROVE SendInv'
  OBVIOUS
<1> USE ConnAssumption DEF ControlInv, ControlTypeOK, Threads, Goto
<1> USE DEF envVars, connVars, timerVars, recvVars, rpcVars, sendVars
<1> DEFINE WorkersKept == \A w \in Workers : pc'[w] = "reply" => pc[w] = "reply"
           WritesKept == \/ write_ops' \in {write_ops, <<>>}
                         \/ write_ops # <<>> /\ write_ops' = Tail(write_ops)
           DataKept == UNCHANGED <<input, queue, job, send_buffer, io_block, appended, wire>>
<1>a. ASSUME WorkersKept, WritesKept, DataKept, delivered' = delivered PROVE SendInv'
  BY <1>a, SendKept
<1>1. CASE start \/ ArmHead \/ ArmBody \/ do_read
  BY <1>1, <1>a DEF start, ArmHead, ArmBody, StartRead, do_read, ParseHeader
<1>2. CASE read_handler
  BY <1>2, <1>a DEF read_handler, ParseHeader
<1>3. CASE do_read_msg \/ read_msg_handler
  <2>1. WorkersKept /\ WritesKept /\ DataKept
    BY <1>3 DEF do_read_msg, read_msg_handler, ParseMsgBody
  <2>2. delivered' \in Seq(Seq(Byte)) /\ write_ops' = write_ops
    BY <1>3 DEF do_read_msg, read_msg_handler, FrameInv, DeliveredOK
  <2> QED BY <2>1, <2>2 DEF SendInv, SendTypeOK
<1>4. CASE ReadHandlerEc \/ WriteHandlerEc
  BY <1>4, <1>a DEF ReadHandlerEc, WriteHandlerEc, handle_socket_ec, ops_cancel, AbortOps
<1>5. CASE Dispatch
  BY <1>5, Send_Dispatch
<1>6. CASE write_handler
  BY <1>6, <1>a DEF write_handler
<1>7. CASE ReadComplete \/ ReadFail \/ WriteFail
  BY <1>7, <1>a DEF ReadComplete, ReadFail, WriteFail
<1>8. CASE Transmit
  BY <1>8, Send_Transmit
<1>9. CASE \E w \in Workers : Worker(w)
  BY <1>9, Send_Pop, Send_reply DEF Worker
<1>10. ASSUME NEW t \in Threads, DoWriteTest(t) PROVE SendInv'
  <2>1. WorkersKept
    BY <1>10 DEF DoWriteTest, Return
  <2> QED BY <1>10, <1>a, <2>1 DEF DoWriteTest
<1>11. ASSUME NEW t \in Threads, sock_shutdown_and_close(t) PROVE SendInv'
  BY <1>11, <1>a DEF sock_shutdown_and_close, AbortOps
<1>12. CASE ops_cancel_timeout_call
  BY <1>12, <1>a DEF ops_cancel_timeout_call, ops_cancel, AbortOps
<1>13. CASE TimerExpire \/ UpdateTimeOut \/ PeerDown
  BY <1>13, <1>a DEF TimerExpire, UpdateTimeOut, PeerDown
<1>14. CASE UNCHANGED vars
  BY <1>14, <1>a DEF vars
<1> QED BY <1>1, <1>2, <1>3, <1>4, <1>5, <1>6, <1>7, <1>8, <1>9, <1>10, <1>11, <1>12,
           <1>13, <1>14, Send_DoWriteLocked DEF Next, Strand, Network

\* SendInv holds at the start: nothing is queued, buffered or sent.
LEMMA SendInit == Init => SendInv
<1> SUFFICES ASSUME Init PROVE SendInv
  OBVIOUS
<1>1. Len(input) \in Nat
  BY InputAssumption, LenProperties DEF Init
<1>2. BlockLen \in Nat
  BY ConnAssumption
<1> QED BY <1>1, <1>2, ConnAssumption, EmptySeq DEF Init, SendInv, SendTypeOK, Threads

\* Every variable keeps its type; in particular no read asks for more than a
\* block or for a negative number of bytes (do_read_msg's unsigned subtraction),
\* and no write reaches beyond what do_write copied into io_block_.
THEOREM TypeSafe == Spec => []TypeOK
<1>1. Init => SendInv
  BY SendInit
<1>2. ControlInv /\ FrameInv /\ FrameInv' /\ SendInv /\ [Next]_vars => SendInv'
  BY SendStep
<1>3. ControlInv /\ SendInv => TypeOK
  BY DEF ControlInv, SendInv, TypeOK
<1> QED BY <1>1, <1>2, <1>3, ControlSafe, FrameSafe, PTL DEF Spec
=============================================================================
