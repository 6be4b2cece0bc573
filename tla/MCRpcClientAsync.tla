-------------------------- MODULE MCRpcClientAsync --------------------------
(* Calls for TLC.                                                           *)
EXTENDS RpcClientAsync

Small(kind, timed, reply) == [kind |-> kind, timed |-> timed, len |-> 1, reply |-> reply]

Served == Small("served", FALSE, 1)
Silent == Small("silent", TRUE, 1)
TooLong == [Served EXCEPT !.len = 2]

\* A response longer than a block, one that is refused, a rejection, no answer
\* within the time-out, and a request too long to send.
MixedCalls ==
  {Small("served", FALSE, 3), Small("served", TRUE, 4),
   Small("INVALID_REQUEST", FALSE, 1), Silent, TooLong}

\* Two of these; and three, so that the timer of the first may strike the
\* connection of the third, after a failure of the second.
AsyncScripts ==
  {<<a, b>> : a \in MixedCalls, b \in MixedCalls \ {Silent}}
    \cup {<<Silent, Served, Served>>, <<Silent, TooLong, Served>>}

SilentScripts == {<<Silent>>}
=============================================================================
