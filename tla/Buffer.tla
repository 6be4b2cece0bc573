------------------------------- MODULE Buffer -------------------------------
(***************************************************************************)
(* The byte container of Core/Buffer.h and the framing of Core/Message.h.  *)
(*                                                                         *)
(* A byte is identified by the message it belongs to and by its position   *)
(* in that message: <<m, i>> is byte i of message m as it lies on the      *)
(* network, its first HeaderLen bytes being the Header.  Two bytes are     *)
(* never equal by accident, so a lost, duplicated, reordered or overwritten*)
(* byte always shows.                                                      *)
(***************************************************************************)
EXTENDS Integers, Sequences

CONSTANT HeaderLen      \* sizeof(Header)

ASSUME HeaderLenAssumption == HeaderLen \in Nat \ {0}

Byte == Nat \X Nat

\* Message::net_str, Buffer(const Message&): the Header, then the payload.
NetStr(m, len) == [i \in 1..(HeaderLen + len) |-> <<m, i>>]

\* The payload alone: what a receiver must hand on for message m.
Payload(m, len) == [i \in 1..len |-> <<m, HeaderLen + i>>]

\* uint32_t append(const Message&)
BufferAppend(data, m, len) == data \o NetStr(m, len)

Smaller(a, b) == IF a < b THEN a ELSE b

\* bool consume(std::string& store, uint32_t sz): nothing is stored when sz is
\* zero or the buffer is empty, everything when it holds no more than sz bytes.
ConsumeStore(data, sz) == SubSeq(data, 1, Smaller(sz, Len(data)))

\* What consume(..., sz) and front_erase(sz) leave in the buffer.
FrontErase(data, sz) == SubSeq(data, sz + 1, Len(data))

\* Faulty variant: the bytes go behind those of the last write.
ConsumeBlockBehind(block, data, sz) == block \o SubSeq(data, 1, sz)

\* bool consume(char* store, uint32_t sz): memcpy over the front of the block;
\* the bytes of the block behind the first sz keep their old values.
ConsumeBlock(block, data, sz) ==
  SubSeq(data, 1, sz) \o SubSeq(block, sz + 1, Len(block))
=============================================================================
