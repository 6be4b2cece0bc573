----------------------------- MODULE RpcService -----------------------------
(***************************************************************************)
(* What a server promises those who send it requests, whatever queues,     *)
(* threads and configurations it uses: a request is answered at most once, *)
(* with the answer it calls for.                                           *)
(***************************************************************************)
EXTENDS Naturals, Sequences

CONSTANT MaxRequests  \* bound: requests received in all

Ids == 1..MaxRequests

Reads == {"ping", "gets", "echo", "timeout"}

\* size: how the request compares with an RpcRequestHeader ("whole": header and
\* payload); marked: magic and version are right; ours: service_id is the service's;
\* op: the sub-operation of a CMD_READ, or none that the service knows, or a payload
\* that cannot be parsed.
Requests ==
  [size : {"short", "header", "whole"}, marked : BOOLEAN, ours : BOOLEAN,
   opcode : {"CMD_READ", "CMD_WRITE", "other"},
   op : Reads \cup {"unknown", "malformed"}]

Reject(status) == [status |-> status, body |-> "none"]
Reply(body) == [status |-> "OK", body |-> body]

Answers ==
  [status : {"OK", "INVALID_REQUEST", "INVALID_SERVICE"},
   body : Reads \cup {"none", "error", "written"}]

\* The answer that request r calls for, from a server that does or does not have
\* the service.
Due(r, available) ==
  CASE r.size # "whole" \/ ~r.marked -> Reject("INVALID_REQUEST")
    [] r.size = "whole" /\ r.marked /\ ~(r.ours /\ available) -> Reject("INVALID_SERVICE")
    [] r.size = "whole" /\ r.marked /\ r.ours /\ available ->
         CASE r.opcode = "CMD_READ" /\ r.op \in Reads -> Reply(r.op)
           [] r.opcode = "CMD_READ" /\ r.op = "malformed" -> Reply("error")
           [] r.opcode = "CMD_WRITE" -> Reply("written")
           [] OTHER -> Reject("INVALID_REQUEST")

VARIABLES
  available,  \* the service is there
  requests,   \* the requests received, in the order they were
  answers     \* for each of them, the answers given

vars == <<available, requests, answers>>

Init ==
  /\ available = FALSE
  /\ requests = <<>>
  /\ answers = [n \in Ids |-> <<>>]

\* The service comes up before there is any request.
Start ==
  /\ requests = <<>>
  /\ available' \in BOOLEAN
  /\ UNCHANGED <<requests, answers>>

\* A request comes in, and may be answered at once.
Submit(r) ==
  /\ Len(requests) < MaxRequests
  /\ requests' = Append(requests, r)
  /\ \/ UNCHANGED answers
     \/ answers' = [answers EXCEPT ![Len(requests) + 1] = <<Due(r, available)>>]
  /\ UNCHANGED available

Answer(n) ==
  /\ n <= Len(requests) /\ answers[n] = <<>>
  /\ answers' = [answers EXCEPT ![n] = <<Due(requests[n], available)>>]
  /\ UNCHANGED <<available, requests>>

Next ==
  \/ Start
  \/ \E r \in Requests : Submit(r)
  \/ \E n \in Ids : Answer(n)

Spec == Init /\ [][Next]_vars
=============================================================================
