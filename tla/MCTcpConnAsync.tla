--------------------------- MODULE MCTcpConnAsync ---------------------------
(***************************************************************************)
(* Instances of TcpConnAsync for TLC: what the peer sends in each run.     *)
(***************************************************************************)
EXTENDS TcpConnAsync, TLC

Exec(l, r) == [magic |-> TRUE, len |-> l, route |-> "execute", reply |-> r]
Rej(l)     == [magic |-> TRUE, len |-> l, route |-> "reject", reply |-> 0]
Bad        == [magic |-> FALSE, len |-> 0, route |-> "reject", reply |-> 0]

\* Framing: bodies empty, shorter than, equal to and longer than a block, one
\* above RecvMax, one without magic, in every order, one behind the other.
FramingMsgs == {Rej(0), Rej(1), Rej(3), Rej(5), Rej(7), Bad}
FramingInputs == UNION {[1..n -> FramingMsgs] : n \in 1..3}

\* Responses of at most one block, by workers and by the strand, to a peer that
\* waits for each.
OneBlockInputs ==
  {<<Exec(1, 0), Rej(1), Exec(1, 1)>>, <<Rej(1), Exec(1, 1), Exec(1, 0)>>,
   <<Exec(1, 1), Exec(1, 1), Rej(1)>>}

ServingInputs == FramingInputs \cup OneBlockInputs

\* A response of two blocks.
TwoBlockInputs == {<<Exec(1, 1), Exec(1, 4)>>}

\* Requests that race on the one timer and on the closing of the socket, with a
\* response of two blocks and one above SendMax.
ClosingInputs ==
  {<<Exec(1, 0), Rej(0)>>, <<Exec(1, 2), Bad>>, <<Exec(1, 3), Bad>>}
=============================================================================
