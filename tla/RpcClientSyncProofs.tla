------------------------ MODULE RpcClientSyncProofs ------------------------
(***************************************************************************)
(* No cross-talk between the calls of a client, for any number of callers  *)
(* and of calls, whatever the timer and the server do.                     *)
(***************************************************************************)
EXTENDS RpcClientSync, SequenceTheorems, TLAPS

\* The caller is inside call_RPC, behind the lock_guard.
Inside(c) == pc[c] \notin {"idle", "lock"}

\* call_mutex_ lets one caller in.
MutexInv ==
  \A c \in Callers : Inside(c) =>
    /\ mutex
    /\ \A d \in Callers : Inside(d) => d = c

\* A caller makes a call that was made; a response read belongs to one.
CallInv ==
  /\ \A c \in Callers : pc[c] # "idle" => cur[c] \in 1..Len(calls)
  /\ \A n \in Ids : got[n] # 0 => n \in 1..Len(calls)

\* A connection that works carries the request or the response of the caller
\* that is receiving, once, and nothing when nobody is: what an earlier call left
\* is gone with its connection.
ConnInv ==
  conn = "kWorking" =>
    /\ \A c \in Callers : pc[c] = "recv" =>
         \/ pending = {cur[c]} /\ inbox = <<>>
         \/ pending = {} /\ inbox = <<cur[c]>>
    /\ (\A c \in Callers : pc[c] # "recv") => pending = {} /\ inbox = <<>>

Inv == TypeOK /\ MutexInv /\ CallInv /\ ConnInv /\ NoCrossTalk

\* The client starts in the invariant.
LEMMA InitInv == Init => Inv
<1> SUFFICES ASSUME Init PROVE Inv
  OBVIOUS
<1> USE CallAssumption DEF Init
<1>1. CallTypeOK
  <2>1. <<>> \in Seq(Calls) /\ Len(<<>>) = 0
    BY EmptySeq
  <2> QED
    BY <2>1 DEF CallTypeOK
<1>2. FlagTypeOK
  BY Zenon DEF FlagTypeOK
<1>3. NetTypeOK /\ TimerTypeOK
  <2>1. inbox \in Seq(Ids)
    BY EmptySeq
  <2> QED
    BY <2>1 DEF NetTypeOK, TimerTypeOK
<1>4. ResultTypeOK
  BY DEF ResultTypeOK, Status, Ids
<1>5. MutexInv /\ CallInv /\ ConnInv /\ NoCrossTalk
  BY DEF MutexInv, Inside, CallInv, ConnInv, NoCrossTalk
<1> QED
  BY <1>1, <1>2, <1>3, <1>4, <1>5 DEF Inv, TypeOK

\* Call keeps the invariant.
LEMMA NewCallStep ==
  ASSUME Inv, NEW c \in Callers, NEW k \in CallSet, Call(c, k)
  PROVE  Inv'
<1> USE DEF Call, Goto, callVars, netVars, timerVars
<1>0. /\ calls' \in Seq(Calls) /\ Len(calls) \in Nat
      /\ Len(calls') = Len(calls) + 1
      /\ \A i \in 1..Len(calls) : calls'[i] = calls[i]
  <2>1. calls \in Seq(Calls) /\ k \in Calls
    BY CallAssumption DEF Inv, TypeOK, CallTypeOK
  <2>2. calls' = Append(calls, k)
    BY Zenon
  <2> QED
    BY ONLY <2>1, <2>2, AppendProperties, LenProperties
<1>1. CallTypeOK'
  <2>1. Len(calls) < MaxCalls /\ cur' = [cur EXCEPT ![c] = Len(calls')]
        /\ pc' = [pc EXCEPT ![c] = "lock"]
    BY Zenon
  <2> QED
    BY ONLY <1>0, <2>1, CallAssumption, Inv DEF Inv, TypeOK, CallTypeOK
<1>2. MutexInv'
  BY DEF Inv, TypeOK, CallTypeOK, MutexInv, Inside
<1>3. CallInv'
  BY <1>0 DEF Inv, TypeOK, CallTypeOK, CallInv
<1>4. ConnInv'
  BY DEF Inv, TypeOK, CallTypeOK, ConnInv
<1>5. NoCrossTalk'
  <2>1. \A n \in Ids : got[n] # 0 => calls'[n] = calls[n]
    BY <1>0 DEF Inv, CallInv
  <2>2. \A n \in Ids : result[n] = "OK" => got[n] = n /\ n # 0
    BY CallAssumption DEF Inv, NoCrossTalk, Ids
  <2>3. got' = got /\ result' = result
    BY Zenon
  <2> QED
    BY ONLY <2>1, <2>2, <2>3, Inv DEF Inv, NoCrossTalk
<1>6. FlagTypeOK' /\ NetTypeOK' /\ TimerTypeOK' /\ ResultTypeOK'
  BY Zenon DEF Inv, TypeOK, FlagTypeOK, NetTypeOK, TimerTypeOK, ResultTypeOK
<1> QED
  BY <1>1, <1>2, <1>3, <1>4, <1>5, <1>6 DEF Inv, TypeOK

\* Lock keeps the invariant.
LEMMA LockStep ==
  ASSUME Inv, NEW c \in Callers, Lock(c)
  PROVE  Inv'
<1> USE DEF Lock, Goto, callVars, netVars, timerVars
<1>1. CallTypeOK'
  BY DEF Inv, TypeOK, CallTypeOK
<1>2. FlagTypeOK'
  BY Zenon DEF Inv, TypeOK, FlagTypeOK
<1>3. MutexInv'
  BY DEF Inv, TypeOK, CallTypeOK, MutexInv, Inside
<1>4. CallInv'
  BY DEF Inv, TypeOK, CallTypeOK, CallInv
<1>5. ConnInv'
  BY DEF Inv, TypeOK, CallTypeOK, ConnInv
<1>6. NetTypeOK' /\ TimerTypeOK' /\ ResultTypeOK' /\ NoCrossTalk'
  BY Zenon DEF Inv, TypeOK, NetTypeOK, TimerTypeOK, ResultTypeOK, NoCrossTalk
<1> QED
  BY <1>1, <1>2, <1>3, <1>4, <1>5, <1>6 DEF Inv, TypeOK

\* Connect keeps the invariant.
LEMMA ConnectStep ==
  ASSUME Inv, NEW c \in Callers, Connect(c)
  PROVE  Inv'
<1> USE DEF Connect, Goto, callVars, netVars, timerVars
<1>a. \A d \in Callers : d # c => pc[d] \in {"idle", "lock"}
  BY DEF Inv, MutexInv, Inside
<1>1. CallTypeOK'
  BY DEF Inv, TypeOK, CallTypeOK
<1>2. FlagTypeOK'
  BY Zenon DEF Inv, TypeOK, FlagTypeOK
<1>3. NetTypeOK'
  <2>1. <<>> \in Seq(Ids)
    BY EmptySeq
  <2> QED
    BY <2>1 DEF Inv, TypeOK, NetTypeOK
<1>4. MutexInv'
  BY DEF Inv, TypeOK, CallTypeOK, MutexInv, Inside
<1>5. CallInv'
  BY DEF Inv, TypeOK, CallTypeOK, CallInv
<1>6. ConnInv'
  <2>1. \A d \in Callers : pc'[d] # "recv"
    BY <1>a DEF Inv, TypeOK, CallTypeOK
  <2>2. \A d \in Callers : pc[d] # "recv"
    BY <1>a
  <2> QED
    BY <2>1, <2>2 DEF Inv, ConnInv
<1>7. TimerTypeOK' /\ ResultTypeOK' /\ NoCrossTalk'
  BY Zenon DEF Inv, TypeOK, TimerTypeOK, ResultTypeOK, NoCrossTalk
<1> QED
  BY <1>1, <1>2, <1>3, <1>4, <1>5, <1>6, <1>7 DEF Inv, TypeOK

\* ConnectFails keeps the invariant.
LEMMA ConnectFailsStep ==
  ASSUME Inv, NEW c \in Callers, ConnectFails(c)
  PROVE  Inv'
<1> USE DEF ConnectFails, Goto, Return, callVars, netVars, timerVars
<1>1. CallTypeOK'
  BY DEF Inv, TypeOK, CallTypeOK
<1>2. FlagTypeOK'
  BY Zenon DEF Inv, TypeOK, FlagTypeOK
<1>3. ResultTypeOK'
  BY DEF Inv, TypeOK, ResultTypeOK, Status
<1>4. MutexInv'
  BY DEF Inv, TypeOK, CallTypeOK, MutexInv, Inside
<1>5. CallInv'
  BY DEF Inv, TypeOK, CallTypeOK, CallInv
<1>6. ConnInv'
  BY DEF Inv, TypeOK, CallTypeOK, ConnInv
<1>7. NoCrossTalk'
  BY DEF Inv, TypeOK, NoCrossTalk
<1>8. NetTypeOK' /\ TimerTypeOK'
  BY Zenon DEF Inv, TypeOK, NetTypeOK, TimerTypeOK
<1> QED
  BY <1>1, <1>2, <1>3, <1>4, <1>5, <1>6, <1>7, <1>8 DEF Inv, TypeOK

\* set_rpc_call_timeout keeps the invariant.
LEMMA Set_rpc_call_timeoutStep ==
  ASSUME Inv, NEW c \in Callers, set_rpc_call_timeout(c)
  PROVE  Inv'
<1> USE DEF set_rpc_call_timeout, Goto, callVars, netVars, timerVars
<1>1. CallTypeOK'
  BY DEF Inv, TypeOK, CallTypeOK
<1>2. FlagTypeOK'
  BY Zenon DEF Inv, TypeOK, FlagTypeOK
<1>3. TimerTypeOK'
  BY DEF Inv, TypeOK, TimerTypeOK, CallTypeOK
<1>4. MutexInv'
  BY DEF Inv, TypeOK, CallTypeOK, MutexInv, Inside
<1>5. CallInv'
  BY DEF Inv, TypeOK, CallTypeOK, CallInv
<1>6. ConnInv'
  BY DEF Inv, TypeOK, CallTypeOK, ConnInv
<1>7. NetTypeOK' /\ ResultTypeOK' /\ NoCrossTalk'
  BY Zenon DEF Inv, TypeOK, NetTypeOK, ResultTypeOK, NoCrossTalk
<1> QED
  BY <1>1, <1>2, <1>3, <1>4, <1>5, <1>6, <1>7 DEF Inv, TypeOK

\* Send keeps the invariant.
LEMMA SendStep ==
  ASSUME Inv, NEW c \in Callers, Send(c)
  PROVE  Inv'
<1> USE DEF Send, Goto, callVars, netVars, timerVars
<1>0. cur[c] \in 1..Len(calls) /\ cur[c] \in Ids /\ Len(calls) \in Nat
  <2>1. Len(calls) \in Nat /\ Len(calls) <= MaxCalls /\ cur[c] \in 1..Len(calls)
    BY LenProperties DEF Inv, TypeOK, CallTypeOK, CallInv
  <2> QED
    BY <2>1, CallAssumption DEF Ids
<1>a. \A d \in Callers : d # c => pc[d] \in {"idle", "lock"}
  BY DEF Inv, MutexInv, Inside
<1>1. CallTypeOK'
  BY DEF Inv, TypeOK, CallTypeOK
<1>2. NetTypeOK'
  BY <1>0 DEF Inv, TypeOK, NetTypeOK
<1>3. MutexInv'
  BY DEF Inv, TypeOK, CallTypeOK, MutexInv, Inside
<1>4. CallInv'
  BY DEF Inv, TypeOK, CallTypeOK, CallInv
<1>5. ConnInv'
  <2>1. pc'[c] = "recv" /\ \A d \in Callers : d # c => pc'[d] # "recv"
    BY <1>a DEF Inv, TypeOK, CallTypeOK
  <2>2. \A d \in Callers : pc[d] # "recv"
    BY <1>a
  <2>3. pending' = {cur[c]} /\ inbox' = <<>> /\ cur' = cur
    BY <2>2 DEF Inv, ConnInv
  <2> QED
    BY <2>1, <2>3 DEF ConnInv
<1>6. FlagTypeOK' /\ TimerTypeOK' /\ ResultTypeOK' /\ NoCrossTalk'
  BY Zenon DEF Inv, TypeOK, FlagTypeOK, TimerTypeOK, ResultTypeOK, NoCrossTalk
<1> QED
  BY <1>1, <1>2, <1>3, <1>4, <1>5, <1>6 DEF Inv, TypeOK

\* SendFails keeps the invariant.
LEMMA SendFailsStep ==
  ASSUME Inv, NEW c \in Callers, SendFails(c)
  PROVE  Inv'
<1> USE DEF SendFails, Goto, callVars, netVars, timerVars
<1>1. CallTypeOK'
  BY DEF Inv, TypeOK, CallTypeOK
<1>2. NetTypeOK'
  BY DEF Inv, TypeOK, NetTypeOK
<1>3. MutexInv'
  BY DEF Inv, TypeOK, CallTypeOK, MutexInv, Inside
<1>4. CallInv'
  BY DEF Inv, TypeOK, CallTypeOK, CallInv
<1>5. ConnInv'
  BY DEF Inv, TypeOK, CallTypeOK, ConnInv
<1>6. FlagTypeOK' /\ TimerTypeOK' /\ ResultTypeOK' /\ NoCrossTalk'
  BY Zenon DEF Inv, TypeOK, FlagTypeOK, TimerTypeOK, ResultTypeOK, NoCrossTalk
<1> QED
  BY <1>1, <1>2, <1>3, <1>4, <1>5, <1>6 DEF Inv, TypeOK

\* Recv keeps the invariant.
LEMMA RecvStep ==
  ASSUME Inv, NEW c \in Callers, Recv(c)
  PROVE  Inv'
<1> USE DEF Recv, Goto, Return, callVars, netVars, timerVars
<1>0. cur[c] \in 1..Len(calls) /\ cur[c] \in Ids /\ Len(calls) \in Nat
  <2>1. Len(calls) \in Nat /\ Len(calls) <= MaxCalls /\ cur[c] \in 1..Len(calls)
    BY LenProperties DEF Inv, TypeOK, CallTypeOK, CallInv
  <2> QED
    BY <2>1, CallAssumption DEF Ids
<1>a. \A d \in Callers : d # c => pc[d] \in {"idle", "lock"}
  BY DEF Inv, MutexInv, Inside
<1>b. pending = {} /\ inbox = <<cur[c]>>
  BY DEF Inv, ConnInv
<1>c. Head(inbox) = cur[c] /\ Tail(inbox) = <<>>
  <2>1. Head(<<cur[c]>>) = cur[c] /\ Tail(<<cur[c]>>) = <<>>
    OBVIOUS
  <2> QED
    BY <1>b, <2>1
<1>d. /\ result' = [result EXCEPT ![cur[c]] = StatusOf(Header(cur[c]))]
      /\ got' = [got EXCEPT ![cur[c]] = cur[c]] /\ calls' = calls /\ cur' = cur
      /\ pending' = {} /\ inbox' = <<>>
  BY <1>b, <1>c
<1>e. /\ StatusOf(Header(cur[c])) \in Status
      /\ StatusOf(Header(cur[c])) = "OK" => calls[cur[c]].kind = "served"
  BY DEF StatusOf, Header, Status
<1>1. CallTypeOK'
  BY DEF Inv, TypeOK, CallTypeOK
<1>2. FlagTypeOK'
  BY Zenon DEF Inv, TypeOK, FlagTypeOK
<1>3. NetTypeOK'
  <2>1. <<>> \in Seq(Ids)
    BY EmptySeq
  <2> QED
    BY <1>d, <2>1 DEF Inv, TypeOK, NetTypeOK
<1>4. ResultTypeOK'
  BY ONLY <1>0, <1>d, <1>e, CallAssumption, Inv DEF Inv, TypeOK, ResultTypeOK, Ids
<1>5. MutexInv'
  BY DEF Inv, TypeOK, CallTypeOK, MutexInv, Inside
<1>6. CallInv'
  BY <1>0, <1>d DEF Inv, TypeOK, CallTypeOK, ResultTypeOK, CallInv
<1>7. ConnInv'
  <2>1. \A d \in Callers : pc'[d] # "recv"
    BY <1>a DEF Inv, TypeOK, CallTypeOK
  <2> QED
    BY <1>d, <2>1 DEF ConnInv
<1>8. NoCrossTalk'
  BY ONLY <1>0, <1>d, <1>e, Inv DEF Inv, TypeOK, ResultTypeOK, NoCrossTalk
<1>9. TimerTypeOK'
  BY Zenon DEF Inv, TypeOK, TimerTypeOK
<1> QED
  BY <1>1, <1>2, <1>3, <1>4, <1>5, <1>6, <1>7, <1>8, <1>9 DEF Inv, TypeOK

\* RecvFails keeps the invariant.
LEMMA RecvFailsStep ==
  ASSUME Inv, NEW c \in Callers, RecvFails(c)
  PROVE  Inv'
<1> USE DEF RecvFails, Goto, callVars, netVars, timerVars
<1>1. CallTypeOK'
  BY DEF Inv, TypeOK, CallTypeOK
<1>2. NetTypeOK'
  BY DEF Inv, TypeOK, NetTypeOK
<1>3. MutexInv'
  BY DEF Inv, TypeOK, CallTypeOK, MutexInv, Inside
<1>4. CallInv'
  BY DEF Inv, TypeOK, CallTypeOK, CallInv
<1>5. ConnInv'
  BY DEF Inv, TypeOK, CallTypeOK, ConnInv
<1>6. FlagTypeOK' /\ TimerTypeOK' /\ ResultTypeOK' /\ NoCrossTalk'
  BY Zenon DEF Inv, TypeOK, FlagTypeOK, TimerTypeOK, ResultTypeOK, NoCrossTalk
<1> QED
  BY <1>1, <1>2, <1>3, <1>4, <1>5, <1>6 DEF Inv, TypeOK

\* Reset keeps the invariant.
LEMMA ResetStep ==
  ASSUME Inv, NEW c \in Callers, Reset(c)
  PROVE  Inv'
<1> USE DEF Reset, Goto, callVars, netVars, timerVars
<1>1. CallTypeOK'
  BY DEF Inv, TypeOK, CallTypeOK
<1>2. NetTypeOK'
  BY DEF Inv, TypeOK, NetTypeOK
<1>3. MutexInv'
  BY DEF Inv, TypeOK, CallTypeOK, MutexInv, Inside
<1>4. CallInv'
  BY DEF Inv, TypeOK, CallTypeOK, CallInv
<1>5. ConnInv'
  BY DEF Inv, TypeOK, CallTypeOK, ConnInv
<1>6. FlagTypeOK' /\ TimerTypeOK' /\ ResultTypeOK' /\ NoCrossTalk'
  BY Zenon DEF Inv, TypeOK, FlagTypeOK, TimerTypeOK, ResultTypeOK, NoCrossTalk
<1> QED
  BY <1>1, <1>2, <1>3, <1>4, <1>5, <1>6 DEF Inv, TypeOK

\* ReturnError keeps the invariant.
LEMMA ReturnErrorStep ==
  ASSUME Inv, NEW c \in Callers, ReturnError(c)
  PROVE  Inv'
<1> USE DEF ReturnError, Goto, Return, callVars, netVars, timerVars
<1>1. CallTypeOK'
  BY DEF Inv, TypeOK, CallTypeOK
<1>2. FlagTypeOK'
  BY Zenon DEF Inv, TypeOK, FlagTypeOK
<1>3. ResultTypeOK'
  BY DEF Inv, TypeOK, ResultTypeOK, Status
<1>4. MutexInv'
  BY DEF Inv, TypeOK, CallTypeOK, MutexInv, Inside
<1>5. CallInv'
  BY DEF Inv, TypeOK, CallTypeOK, CallInv
<1>6. ConnInv'
  BY DEF Inv, TypeOK, CallTypeOK, ConnInv
<1>7. NoCrossTalk'
  BY DEF Inv, TypeOK, NoCrossTalk
<1>8. NetTypeOK' /\ TimerTypeOK'
  BY Zenon DEF Inv, TypeOK, NetTypeOK, TimerTypeOK
<1> QED
  BY <1>1, <1>2, <1>3, <1>4, <1>5, <1>6, <1>7, <1>8 DEF Inv, TypeOK

\* TimerExpire keeps the invariant.
LEMMA TimerExpireStep ==
  ASSUME Inv, TimerExpire
  PROVE  Inv'
<1> USE DEF TimerExpire, callVars, netVars, timerVars
<1>1. TimerTypeOK'
  BY CallAssumption DEF Inv, TypeOK, TimerTypeOK, Ids
<1>2. /\ CallTypeOK' /\ FlagTypeOK' /\ NetTypeOK' /\ ResultTypeOK'
      /\ MutexInv' /\ CallInv' /\ ConnInv' /\ NoCrossTalk'
  BY Zenon DEF Inv, TypeOK, CallTypeOK, FlagTypeOK, NetTypeOK, ResultTypeOK, MutexInv, CallInv, ConnInv, NoCrossTalk, Inside
<1> QED
  BY <1>1, <1>2 DEF Inv, TypeOK

\* rpc_call_timeout keeps the invariant.
LEMMA Rpc_call_timeoutStep ==
  ASSUME Inv, rpc_call_timeout
  PROVE  Inv'
<1> USE DEF rpc_call_timeout, callVars, netVars, timerVars
<1>1. FlagTypeOK'
  BY Zenon DEF Inv, TypeOK, FlagTypeOK
<1>2. TimerTypeOK'
  BY DEF Inv, TypeOK, TimerTypeOK
<1>3. /\ CallTypeOK' /\ NetTypeOK' /\ ResultTypeOK' /\ MutexInv'
      /\ CallInv' /\ ConnInv' /\ NoCrossTalk'
  BY Zenon DEF Inv, TypeOK, CallTypeOK, NetTypeOK, ResultTypeOK, MutexInv, CallInv, ConnInv, NoCrossTalk, Inside
<1> QED
  BY <1>1, <1>2, <1>3 DEF Inv, TypeOK

\* shutdown_and_close_socket keeps the invariant.
LEMMA Shutdown_and_close_socketStep ==
  ASSUME Inv, shutdown_and_close_socket
  PROVE  Inv'
<1> USE DEF shutdown_and_close_socket, callVars, netVars, timerVars
<1>1. FlagTypeOK'
  BY Zenon DEF Inv, TypeOK, FlagTypeOK
<1>2. NetTypeOK'
  BY DEF Inv, TypeOK, NetTypeOK
<1>3. ConnInv'
  BY DEF Inv, TypeOK, CallTypeOK, ConnInv
<1>4. /\ CallTypeOK' /\ TimerTypeOK' /\ ResultTypeOK' /\ MutexInv'
      /\ CallInv' /\ NoCrossTalk'
  BY Zenon DEF Inv, TypeOK, CallTypeOK, TimerTypeOK, ResultTypeOK, MutexInv, CallInv, NoCrossTalk, Inside
<1> QED
  BY <1>1, <1>2, <1>3, <1>4 DEF Inv, TypeOK

\* Answer keeps the invariant.
LEMMA AnswerStep ==
  ASSUME Inv, Answer
  PROVE  Inv'
<1> USE DEF Answer, callVars, netVars, timerVars
<1>1. NetTypeOK'
  <2>1. PICK n \in pending : pending' = pending \ {n} /\ inbox' = Append(inbox, n)
    OBVIOUS
  <2>2. n \in Ids /\ inbox \in Seq(Ids)
    BY DEF Inv, TypeOK, NetTypeOK
  <2>3. inbox' \in Seq(Ids)
    BY ONLY <2>1, <2>2, AppendProperties
  <2> QED
    BY <2>1, <2>3 DEF Inv, TypeOK, NetTypeOK
<1>2. ConnInv'
  <2>1. PICK n \in pending : pending' = pending \ {n} /\ inbox' = Append(inbox, n)
    OBVIOUS
  <2>2. conn' = conn /\ pc' = pc /\ cur' = cur
    BY Zenon
  <2> SUFFICES ASSUME conn = "kWorking" PROVE ConnInv'
    BY <2>2 DEF ConnInv
  <2>3. PICK c \in Callers : pc[c] = "recv"
    BY <2>1 DEF Inv, ConnInv
  <2>4. pending = {cur[c]} /\ inbox = <<>> /\ n = cur[c]
    BY <2>1, <2>3 DEF Inv, ConnInv
  <2>5. inbox' = <<cur[c]>> /\ pending' = {}
    <3>1. Append(<<>>, cur[c]) = <<cur[c]>>
      OBVIOUS
    <3> QED
      BY <2>1, <2>4, <3>1
  <2>6. \A d \in Callers : pc[d] = "recv" => d = c
    BY <2>3 DEF Inv, MutexInv, Inside
  <2> QED
    BY ONLY <2>2, <2>3, <2>5, <2>6 DEF ConnInv
<1>3. /\ CallTypeOK' /\ FlagTypeOK' /\ TimerTypeOK' /\ ResultTypeOK'
      /\ MutexInv' /\ CallInv' /\ NoCrossTalk'
  BY Zenon DEF Inv, TypeOK, CallTypeOK, FlagTypeOK, TimerTypeOK, ResultTypeOK, MutexInv, CallInv, NoCrossTalk, Inside
<1> QED
  BY <1>1, <1>2, <1>3 DEF Inv, TypeOK

\* ServerClose keeps the invariant.
LEMMA ServerCloseStep ==
  ASSUME Inv, ServerClose
  PROVE  Inv'
<1> USE DEF ServerClose, callVars, netVars, timerVars
<1>1. FlagTypeOK'
  BY Zenon DEF Inv, TypeOK, FlagTypeOK
<1>2. /\ CallTypeOK' /\ NetTypeOK' /\ TimerTypeOK' /\ ResultTypeOK'
      /\ MutexInv' /\ CallInv' /\ ConnInv' /\ NoCrossTalk'
  BY Zenon DEF Inv, TypeOK, CallTypeOK, NetTypeOK, TimerTypeOK, ResultTypeOK, MutexInv, CallInv, ConnInv, NoCrossTalk, Inside
<1> QED
  BY <1>1, <1>2 DEF Inv, TypeOK

\* Every step of the client, its timer and the server keeps the invariant.
LEMMA NextInv == Inv /\ [Next]_vars => Inv'
<1> SUFFICES ASSUME Inv, [Next]_vars PROVE Inv'
  OBVIOUS
<1>1. CASE UNCHANGED vars
  <2> USE <1>1 DEF vars, callVars, netVars, timerVars
  <2>1. CallTypeOK' /\ FlagTypeOK' /\ NetTypeOK' /\ TimerTypeOK' /\ ResultTypeOK'
    BY Zenon DEF Inv, TypeOK, CallTypeOK, FlagTypeOK, NetTypeOK, TimerTypeOK,
       ResultTypeOK
  <2>2. MutexInv' /\ CallInv' /\ ConnInv' /\ NoCrossTalk'
    BY Zenon DEF Inv, MutexInv, Inside, CallInv, ConnInv, NoCrossTalk
  <2> QED
    BY <2>1, <2>2 DEF Inv, TypeOK
<1>2. CASE \E c \in Callers : CallStep(c)
  BY <1>2, LockStep, ConnectStep, ConnectFailsStep, Set_rpc_call_timeoutStep,
     SendStep, SendFailsStep, RecvStep, RecvFailsStep, ResetStep, ReturnErrorStep
     DEF CallStep
<1>3. CASE \E c \in Callers, k \in CallSet : Call(c, k)
  BY <1>3, NewCallStep
<1>4. CASE TimerExpire \/ TimerStep \/ Answer \/ ServerClose
  BY <1>4, TimerExpireStep, Rpc_call_timeoutStep, Shutdown_and_close_socketStep,
     AnswerStep, ServerCloseStep DEF TimerStep
<1> QED
  BY <1>1, <1>2, <1>3, <1>4 DEF Next

\* The types, of the statuses returned among others.
THEOREM TypeSafe == Spec => []TypeOK
<1>1. Inv => TypeOK
  BY DEF Inv
<1> QED
  BY <1>1, InitInv, NextInv, PTL DEF Spec

\* call_RPC never hands a caller the response to another call, for any number of
\* callers and calls, with time-outs that strike at any moment.
THEOREM CrossTalkSafe == Spec => []NoCrossTalk
<1>1. Inv => NoCrossTalk
  BY DEF Inv
<1> QED
  BY <1>1, InitInv, NextInv, PTL DEF Spec
=============================================================================
