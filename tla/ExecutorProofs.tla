--------------------------- MODULE ExecutorProofs ---------------------------
(***************************************************************************)
(* Proofs about Executor, for every number of requests and threads and all *)
(* configurations: ConfInv says where each copy of the configuration comes *)
(* from, WorkInv where each request is, PoolInv how many threads there are. *)
(***************************************************************************)
EXTENDS Executor, FiniteSetTheorems, TLAPS

Started == phase \in {"dispatcher", "serving"}

ConfTypes ==
  /\ phase \in {"service", "register", "dispatcher", "serving", "exited"}
  /\ registered \in BOOLEAN /\ attached \in BOOLEAN /\ updating \in BOOLEAN
  /\ service_conf \in ExecutorConf /\ conf \in ExecutorConf
  /\ adjusting \in Seq(ExecutorConf) /\ Len(adjusting) <= 1
  /\ updates \in 0..MaxUpdates
  /\ assert_ok \in BOOLEAN /\ crashed \in BOOLEAN
  /\ offered \in Seq(ExecutorConf)

\* The service has the last correct configuration, and the Executor one of those
\* offered, which is the same unless an update is under way.
ConfSource ==
  /\ phase \in {"service", "exited"} =>
       ~registered /\ ~attached /\ ~updating /\ assert_ok /\ adjusting = <<>>
  /\ phase = "register" \/ Started =>
       /\ offered # <<>> /\ service_conf = offered[Len(offered)]
       /\ Correct(service_conf) \/ service_conf = ZeroConf
  /\ phase = "register" => ~registered /\ ~attached /\ ~updating /\ assert_ok
                           /\ adjusting = <<>> /\ Len(offered) = 1
  /\ Started => /\ ~updating => conf = service_conf
                /\ \E i \in 1..Len(offered) : conf = offered[i]
                /\ Correct(conf) \/ conf = ZeroConf
  /\ updating => Correct(service_conf)
  /\ attached => Started /\ Correct(conf) /\ offered[1].step > 0
  /\ adjusting # <<>> => Correct(adjusting[1])

ConfInv == ConfTypes /\ ConfSource /\ AssertJustified

WorkTypes ==
  /\ registered \in BOOLEAN
  /\ requests \in Seq(Requests) /\ Len(requests) <= MaxRequests
  /\ rpc_queue \in Seq(Ids)
  /\ threads \in [Tids -> Threads]
  /\ answers \in [Ids -> Seq(Abstract!Answers)]

\* Threads that have ended or not begun hold nothing.
ThreadsInv ==
  \A t \in Tids :
    /\ threads[t].pc = "handle" <=> threads[t].req # 0
    /\ threads[t].status = "kDead" => threads[t] = NoThread
    /\ threads[t].status = "kSuspend" => threads[t].pc = "loop"

\* The request was put into the queue of the service.
Taken(n) == n <= Len(requests) /\ validate_request(requests[n]) /\ requests[n].ours
            /\ registered

TakenNext(n) == n <= Len(requests') /\ validate_request(requests'[n]) /\ requests'[n].ours
                /\ registered'

PlaceInv ==
  /\ \A i \in 1..Len(rpc_queue) : Taken(rpc_queue[i]) /\ answers[rpc_queue[i]] = <<>>
  /\ \A i, j \in 1..Len(rpc_queue) : rpc_queue[i] = rpc_queue[j] => i = j
  /\ \A t \in Tids : threads[t].req # 0 =>
       /\ Taken(threads[t].req) /\ answers[threads[t].req] = <<>>
       /\ \A i \in 1..Len(rpc_queue) : rpc_queue[i] # threads[t].req
       /\ \A u \in Tids : threads[u].req = threads[t].req => u = t
  /\ \A n \in Ids : n <= Len(requests) /\ answers[n] = <<>> =>
       \/ \E i \in 1..Len(rpc_queue) : rpc_queue[i] = n
       \/ \E t \in Tids : threads[t].req = n

AnswerInv ==
  \A n \in Ids : answers[n] # <<>> =>
    n <= Len(requests) /\ answers[n] = <<Abstract!Due(requests[n], registered)>>

IdleInv ==
  /\ phase # "serving" =>
       requests = <<>> /\ rpc_queue = <<>> /\ \A t \in Tids : threads[t].req = 0
  /\ phase \in {"service", "register", "exited"} => ~registered

WorkInv == WorkTypes /\ ThreadsInv /\ PlaceInv /\ AnswerInv /\ IdleInv

-----------------------------------------------------------------------------
(* Configurations.                                                          *)

\* What is read from an entry is a configuration, whatever was in memory.
LEMMA ReadConfType ==
  ASSUME NEW s \in StartSettings \cup RuntimeSettings, NEW c \in ReadConf(s)
  PROVE  c \in ExecutorConf
<1>1. PICK g \in [Fields -> Garbage] : c = Normalised(lookupValue(s, g))
  BY DEF ReadConf
<1>2. lookupValue(s, g) \in ExecutorConf
  BY ExecutorAssumption DEF lookupValue, ExecutorConf
<1> QED
  BY <1>1, <1>2 DEF Normalised, ExecutorConf, Fields

\* RpcServiceBase::handle_rpc_service_conf accepts the correct configurations.
LEMMA AcceptedIsCorrect ==
  ASSUME NEW c \in ExecutorConf
  PROVE  /\ handle_rpc_service_conf(c) = 0 <=> Correct(c)
         /\ RuntimeReturn(c) = 0 <=> Correct(c)
<1>1. c.number \in Int /\ c.hard \in Int /\ c.step \in Int
  BY DEF ExecutorConf, Fields
<1>2. Accepted(c) <=> Correct(c)
  BY <1>1, ExecutorAssumption DEF Accepted, Correct
<1> QED
  BY <1>2 DEF handle_rpc_service_conf, RuntimeReturn

\* Zeroes are a configuration, and no correct one.
LEMMA ZeroConfFacts == ZeroConf \in ExecutorConf /\ ~Correct(ZeroConf) /\ ZeroConf.step = 0
BY DEF ZeroConf, ExecutorConf, Correct, Fields

\* The process starts in ConfInv.
LEMMA ConfInit == Init => ConfInv
<1> SUFFICES ASSUME Init PROVE ConfInv
  OBVIOUS
<1>1. ConfTypes
  <2>1. service_conf \in ExecutorConf /\ conf \in ExecutorConf
    BY ZeroConfFacts DEF Init
  <2>2. 0 \in 0..MaxUpdates
    BY ExecutorAssumption
  <2>3. <<>> \in Seq(ExecutorConf) /\ Len(<<>>) <= 1
    OBVIOUS
  <2> QED
    BY <2>1, <2>2, <2>3 DEF Init, ConfTypes
<1>2. ConfSource
  BY DEF Init, ConfSource, Started
<1>3. AssertJustified
  BY DEF Init, AssertJustified
<1> QED
  BY <1>1, <1>2, <1>3 DEF ConfInv

\* The steps that leave the configuration alone.
ConfUnchanged == UNCHANGED <<phase, registered, confVars, assert_ok, crashed>>

\* A step that leaves the configuration alone keeps ConfInv.
LEMMA ConfStepUnchanged == ConfInv /\ ConfUnchanged => ConfInv'
BY DEF ConfInv, ConfTypes, ConfSource, AssertJustified, Started, ConfUnchanged, confVars,
       Correct

\* XtraTaskService::init: a refused configuration leaves zeroes.
LEMMA ConfXtraTaskInit == ConfInv /\ XtraTaskInit => ConfInv'
<1> SUFFICES ASSUME ConfInv, XtraTaskInit PROVE ConfInv'
  OBVIOUS
<1>1. CASE phase' = "exited" /\ UNCHANGED <<service_conf, offered>>
  BY <1>1 DEF XtraTaskInit, ConfInv, ConfTypes, ConfSource, AssertJustified, Started
<1>2. CASE phase' = "register" /\ \E s \in StartSettings : \E c \in ReadConf(s) :
             /\ service_conf' = IF handle_rpc_service_conf(c) = 0 THEN c ELSE ZeroConf
             /\ offered' = <<IF Correct(c) THEN c ELSE ZeroConf>>
  <2>0. PICK s \in StartSettings : \E c \in ReadConf(s) :
             /\ service_conf' = IF handle_rpc_service_conf(c) = 0 THEN c ELSE ZeroConf
             /\ offered' = <<IF Correct(c) THEN c ELSE ZeroConf>>
    BY <1>2
  <2>1. PICK c \in ReadConf(s) :
             /\ service_conf' = IF handle_rpc_service_conf(c) = 0 THEN c ELSE ZeroConf
             /\ offered' = <<IF Correct(c) THEN c ELSE ZeroConf>>
    BY <2>0
  <2>2. c \in ExecutorConf
    BY ReadConfType
  <2> DEFINE d == IF Correct(c) THEN c ELSE ZeroConf
  <2>3. d \in ExecutorConf /\ service_conf' = d /\ offered' = <<d>>
        /\ (Correct(d) \/ d = ZeroConf)
    BY <2>1, <2>2, AcceptedIsCorrect, ZeroConfFacts
  <2>4. ConfTypes'
    BY <1>2, <2>3 DEF XtraTaskInit, ConfInv, ConfTypes
  <2> HIDE DEF d
  <2>5. ConfSource'
    BY <1>2, <2>3 DEF XtraTaskInit, ConfInv, ConfSource, Started, Correct
  <2>6. AssertJustified'
    BY DEF XtraTaskInit, ConfInv, ConfSource, AssertJustified
  <2> QED
    BY <2>4, <2>5, <2>6 DEF ConfInv
<1> QED
  BY <1>1, <1>2 DEF XtraTaskInit

\* Dispatcher::register_service: the Executor copies what the service has; zeroes
\* fail the assertion and attach no timer.
LEMMA ConfRegister == ConfInv /\ register_service => ConfInv'
<1> SUFFICES ASSUME ConfInv, register_service PROVE ConfInv'
  OBVIOUS
<1>1. /\ phase = "register" /\ phase' = "dispatcher"
      /\ conf' = service_conf /\ service_conf' = service_conf
      /\ UNCHANGED <<adjusting, updating, updates, offered, crashed>>
      /\ assert_ok' = (assert_ok /\ service_conf.number > 0)
      /\ \/ registered' = TRUE /\ attached' = Adjustable(service_conf)
         \/ UNCHANGED <<registered, attached>>
  BY DEF register_service, ExecutorInit
<1>2. service_conf \in ExecutorConf /\ offered # <<>> /\ offered \in Seq(ExecutorConf)
      /\ offered[1] = service_conf /\ Len(offered) = 1 /\ assert_ok
      /\ (Correct(service_conf) \/ service_conf = ZeroConf)
      /\ adjusting = <<>> /\ ~updating /\ ~attached /\ ~registered
  BY <1>1 DEF ConfInv, ConfTypes, ConfSource
<1>3. ConfTypes'
  BY <1>1, <1>2 DEF ConfInv, ConfTypes, Adjustable
<1>4. Adjustable(service_conf) => Correct(service_conf) /\ service_conf.step > 0
  BY <1>2, ZeroConfFacts DEF Adjustable
<1>5. ConfSource'
  BY <1>1, <1>2, <1>4 DEF ConfSource, Started, Correct
<1>6. AssertJustified'
  <2>1. Correct(service_conf) => service_conf.number > 0
    BY ExecutorAssumption DEF Correct
  <2>2. service_conf.number > 0 => assert_ok'
    BY <1>1, <1>2
  <2>3. service_conf = ZeroConf => (offered[1] = ZeroConf)'
    BY <1>1, <1>2
  <2> QED
    BY <1>2, <2>1, <2>2, <2>3 DEF AssertJustified
<1> QED
  BY <1>3, <1>5, <1>6 DEF ConfInv

\* Dispatcher::init starts threads only.
LEMMA ConfDispatcherInit == ConfInv /\ DispatcherInit => ConfInv'
BY DEF ConfInv, ConfTypes, ConfSource, AssertJustified, Started, DispatcherInit, confVars,
       Correct

\* The timer copies the configuration in force; its assertion fails for a step of 0
\* that was offered at run time.
LEMMA ConfAdjustBegin == ConfInv /\ AdjustBegin => ConfInv'
<1> SUFFICES ASSUME ConfInv, AdjustBegin PROVE ConfInv'
  OBVIOUS
<1>1. attached /\ Started /\ Correct(conf) /\ offered[1].step > 0 /\ conf \in ExecutorConf
  BY DEF AdjustBegin, ConfInv, ConfSource, ConfTypes
<1>2. ConfTypes'
  BY <1>1 DEF AdjustBegin, ConfInv, ConfTypes
<1>3. ConfSource'
  BY <1>1 DEF AdjustBegin, ConfInv, ConfSource, Started, Correct
<1>4. AssertJustified'
  <2>1. PICK i \in 1..Len(offered) : conf = offered[i]
    BY <1>1 DEF ConfInv, ConfSource
  <2>2. CASE conf.step > 0
    BY <2>2 DEF AdjustBegin, ConfInv, AssertJustified
  <2>3. CASE conf.step = 0
    <3>1. i \in 2..Len(offered)
      BY <1>1, <2>1, <2>3 DEF ConfInv, ConfTypes
    <3> QED
      BY <1>1, <2>1, <2>3, <3>1 DEF AdjustBegin, AssertJustified
  <2> QED
    BY <1>1, <2>2, <2>3 DEF Correct
<1> QED
  BY <1>2, <1>3, <1>4 DEF ConfInv

\* The timer lets go of its copy.
LEMMA ConfAdjustEnd == ConfInv /\ AdjustEnd => ConfInv'
<1> SUFFICES ASSUME ConfInv, AdjustEnd PROVE ConfInv'
  OBVIOUS
<1>1. /\ adjusting' = <<>> /\ crashed' \in BOOLEAN
      /\ UNCHANGED <<phase, registered, service_conf, conf, attached, updating, updates,
                     offered, assert_ok>>
  BY DEF AdjustEnd, ConfInv, ConfTypes
<1>2. ConfTypes'
  BY <1>1 DEF ConfInv, ConfTypes
<1>3. ConfSource'
  BY <1>1 DEF ConfInv, ConfSource, Started, Correct
<1>4. AssertJustified'
  BY <1>1 DEF ConfInv, AssertJustified
<1> QED
  BY <1>2, <1>3, <1>4 DEF ConfInv

\* XtraTaskService::module_runtime: a refused configuration changes nothing, and its
\* return value says so to Executor::module_runtime.
LEMMA ConfRuntimeConf == ConfInv /\ RuntimeConf => ConfInv'
<1> SUFFICES ASSUME ConfInv, RuntimeConf PROVE ConfInv'
  OBVIOUS
<1>0. PICK s \in RuntimeSettings : \E c \in ReadConf(s) :
       /\ service_conf' = IF handle_rpc_service_conf(c) = 0 THEN c ELSE service_conf
       /\ updating' = (RuntimeReturn(c) = 0)
       /\ offered' = IF Correct(c) THEN Append(offered, c) ELSE offered
  BY DEF RuntimeConf
<1>1. PICK c \in ReadConf(s) :
       /\ service_conf' = IF handle_rpc_service_conf(c) = 0 THEN c ELSE service_conf
       /\ updating' = (RuntimeReturn(c) = 0)
       /\ offered' = IF Correct(c) THEN Append(offered, c) ELSE offered
  BY <1>0
<1>2. c \in ExecutorConf
  BY ReadConfType
<1>3. /\ service_conf' = IF Correct(c) THEN c ELSE service_conf
      /\ updating' \in BOOLEAN /\ (updating' <=> Correct(c))
  BY <1>1, <1>2, AcceptedIsCorrect
<1>4. /\ phase = "serving" /\ ~updating /\ updates' = updates + 1 /\ updates < MaxUpdates
      /\ UNCHANGED <<phase, registered, conf, attached, adjusting, assert_ok, crashed>>
  BY DEF RuntimeConf
<1>5. Started /\ offered \in Seq(ExecutorConf) /\ offered # <<>> /\ Len(offered) \in Nat \ {0}
  BY <1>4 DEF Started, ConfInv, ConfSource, ConfTypes
<1>6. CASE ~Correct(c)
  <2>0. ~updating' /\ ~updating /\ updating' \in BOOLEAN /\ updating \in BOOLEAN
    BY <1>3, <1>4, <1>6 DEF ConfInv, ConfTypes
  <2>1. UNCHANGED <<service_conf, offered, updating>>
    BY <2>0, <1>1, <1>3, <1>4, <1>6 DEF ConfInv, ConfTypes
  <2>2. ConfTypes'
    BY <1>4, <2>1, ExecutorAssumption DEF ConfInv, ConfTypes
  <2>3. ConfSource' /\ AssertJustified'
    BY <1>4, <2>1 DEF ConfInv, ConfSource, AssertJustified, Started, Correct
  <2> QED
    BY <2>2, <2>3 DEF ConfInv
<1>7. CASE Correct(c)
  <2>1. service_conf' = c /\ updating' = TRUE /\ offered' = Append(offered, c)
    BY <1>1, <1>3, <1>7
  <2>2. /\ offered' \in Seq(ExecutorConf) /\ Len(offered') = Len(offered) + 1
        /\ offered'[Len(offered')] = c /\ offered' # <<>>
        /\ \A i \in 1..Len(offered) : offered'[i] = offered[i]
        /\ offered'[1] = offered[1]
    BY <1>2, <1>5, <2>1
  <2>3. ConfTypes'
    BY <1>2, <1>4, <2>1, <2>2, ExecutorAssumption DEF ConfInv, ConfTypes
  <2>4. Correct(service_conf)'
    BY <1>7, <2>1 DEF Correct
  <2>5. \E i \in 1..Len(offered') : conf' = offered'[i]
    BY <1>4, <1>5, <2>2 DEF ConfInv, ConfSource
  <2>6. ConfSource'
    BY <1>4, <1>5, <2>1, <2>2, <2>4, <2>5 DEF ConfInv, ConfSource, Started, Correct
  <2>7. AssertJustified'
    <3>1. CASE assert_ok
      BY <1>4, <3>1 DEF AssertJustified
    <3>2. CASE offered[1] = ZeroConf
      BY <2>2, <3>2 DEF AssertJustified
    <3>3. CASE offered[1].step > 0 /\ \E i \in 2..Len(offered) : offered[i].step = 0
      <4>1. PICK i \in 2..Len(offered) : offered[i].step = 0
        BY <3>3
      <4>2. i \in 2..Len(offered') /\ offered'[i].step = 0
        BY <1>5, <2>2, <4>1
      <4> QED
        BY <2>2, <3>3, <4>2 DEF AssertJustified
    <3> QED
      BY <3>1, <3>2, <3>3 DEF ConfInv, AssertJustified
  <2> QED
    BY <2>3, <2>6, <2>7 DEF ConfInv
<1> QED
  BY <1>6, <1>7

\* Executor::module_runtime catches up with the service.
LEMMA ConfCopyConf == ConfInv /\ CopyConf => ConfInv'
<1> SUFFICES ASSUME ConfInv, CopyConf PROVE ConfInv'
  OBVIOUS
<1>1. /\ updating /\ updating' = FALSE /\ conf' = service_conf
      /\ UNCHANGED <<phase, registered, service_conf, attached, adjusting, updates, offered,
                     assert_ok, crashed>>
  BY DEF CopyConf
<1>2. Started /\ Correct(service_conf) /\ service_conf = offered[Len(offered)]
      /\ Len(offered) \in 1..Len(offered)
  BY <1>1 DEF ConfInv, ConfTypes, ConfSource, Started
<1>3. ConfTypes' /\ AssertJustified'
  BY <1>1 DEF ConfInv, ConfTypes, AssertJustified
<1>4. ConfSource'
  BY <1>1, <1>2 DEF ConfInv, ConfSource, Started, Correct
<1> QED
  BY <1>3, <1>4 DEF ConfInv

\* Every step keeps ConfInv.
LEMMA ConfStep == ConfInv /\ [Next]_vars => ConfInv'
<1> SUFFICES ASSUME ConfInv, [Next]_vars PROVE ConfInv'
  OBVIOUS
<1>1. ASSUME NEW r, handle_RPC(r) PROVE ConfInv'
  BY <1>1, ConfStepUnchanged DEF handle_RPC, ConfUnchanged
<1>2. ASSUME NEW t \in Tids, Worker(t) PROVE ConfInv'
  BY <1>2, ConfStepUnchanged
     DEF Worker, TestStatus, Pop, PopTimeout, Handle, workerUnchanged, ConfUnchanged
<1>3. CASE UNCHANGED vars
  BY <1>3, ConfStepUnchanged DEF vars, ConfUnchanged
<1> QED
  BY <1>1, <1>2, <1>3, ConfXtraTaskInit, ConfRegister, ConfDispatcherInit, ConfAdjustBegin,
     ConfAdjustEnd, ConfRuntimeConf, ConfCopyConf DEF Next

\* Each copy of the configuration comes from where ConfInv says.
LEMMA ConfAlways == Spec => []ConfInv
BY ConfInit, ConfStep, PTL DEF Spec

-----------------------------------------------------------------------------
(* Requests.                                                                *)

\* The code's way of answering and the table of RpcService agree.
LEMMA AnswersDue ==
  ASSUME NEW r \in Requests, NEW b \in BOOLEAN
  PROVE  /\ ~validate_request(r) => Abstract!Due(r, b) = Abstract!Reject("INVALID_REQUEST")
         /\ validate_request(r) /\ ~(r.ours /\ b) =>
              Abstract!Due(r, b) = Abstract!Reject("INVALID_SERVICE")
         /\ validate_request(r) /\ r.ours /\ b => Abstract!Due(r, b) = ServiceAnswer(r)
<1>1. /\ r.size \in {"short", "header", "whole"} /\ r.marked \in BOOLEAN
      /\ r.ours \in BOOLEAN /\ r.opcode \in {"CMD_READ", "CMD_WRITE", "other"}
      /\ r.op \in Abstract!Reads \cup {"unknown", "malformed"}
  BY DEF Requests, Abstract!Requests
<1>2. ~validate_request(r) <=> r.size # "whole" \/ ~r.marked
  BY <1>1 DEF validate_request
<1>3. ASSUME validate_request(r), r.ours, b PROVE Abstract!Due(r, b) = ServiceAnswer(r)
  <2>1. r.opcode = "CMD_READ" /\ r.op \in Abstract!Reads =>
          Abstract!Due(r, b) = Abstract!Reply(r.op) /\ ServiceAnswer(r) = Abstract!Reply(r.op)
    BY <1>1, <1>2, <1>3 DEF Abstract!Due, ServiceAnswer, read_ops_impl, Abstract!Reads
  <2>2. r.opcode = "CMD_READ" /\ r.op \notin Abstract!Reads =>
          Abstract!Due(r, b) = ServiceAnswer(r)
    BY <1>1, <1>2, <1>3 DEF Abstract!Due, ServiceAnswer, read_ops_impl, Abstract!Reads
  <2>3. r.opcode # "CMD_READ" => Abstract!Due(r, b) = ServiceAnswer(r)
    BY <1>1, <1>2, <1>3 DEF Abstract!Due, ServiceAnswer, write_ops_impl
  <2> QED
    BY <2>1, <2>2, <2>3
<1>4. ~validate_request(r) => Abstract!Due(r, b) = Abstract!Reject("INVALID_REQUEST")
  BY <1>2 DEF Abstract!Due
<1>5. validate_request(r) /\ ~(r.ours /\ b) =>
        Abstract!Due(r, b) = Abstract!Reject("INVALID_SERVICE")
  BY <1>2 DEF Abstract!Due
<1> QED
  BY <1>3, <1>4, <1>5

\* What the code answers is an answer.
LEMMA AnswerTypes ==
  /\ Abstract!Reject("INVALID_REQUEST") \in Abstract!Answers
  /\ Abstract!Reject("INVALID_SERVICE") \in Abstract!Answers
  /\ \A r \in Requests : ServiceAnswer(r) \in Abstract!Answers
<1>1. /\ Abstract!Reject("INVALID_REQUEST") \in Abstract!Answers
      /\ Abstract!Reject("INVALID_SERVICE") \in Abstract!Answers
  BY DEF Abstract!Reject, Abstract!Answers
<1>2. \A b \in Abstract!Reads \cup {"error", "written"} : Abstract!Reply(b) \in Abstract!Answers
  BY DEF Abstract!Reply, Abstract!Answers
<1>3. ASSUME NEW r \in Requests PROVE ServiceAnswer(r) \in Abstract!Answers
  <2>1. /\ r.opcode \in {"CMD_READ", "CMD_WRITE", "other"}
        /\ r.op \in Abstract!Reads \cup {"unknown", "malformed"}
    BY DEF Requests, Abstract!Requests
  <2>2. read_ops_impl(r) \in Abstract!Answers
    BY <1>1, <1>2, <2>1 DEF read_ops_impl, Abstract!Reads
  <2>3. write_ops_impl(r) \in Abstract!Answers
    BY <1>2 DEF write_ops_impl
  <2> QED
    BY <1>1, <2>1, <2>2, <2>3 DEF ServiceAnswer
<1> QED
  BY <1>1, <1>3

\* Threads that have ended and new ones: their fields.
LEMMA ThreadFacts ==
  /\ NoThread \in Threads /\ NoThread.req = 0 /\ NoThread.pc = "loop"
  /\ NoThread.status = "kDead"
  /\ \A st \in {"kSuspend", "kRunning"} :
       /\ NewThread(st) \in Threads /\ NewThread(st).status = st
       /\ NewThread(st).req = 0 /\ NewThread(st).pc = "loop"
<1>1. 0 \in 0..MaxRequests
  BY ExecutorAssumption
<1> QED
  BY <1>1 DEF NoThread, NewThread, Threads

\* The process starts in WorkInv.
LEMMA WorkInit == Init => WorkInv
<1> SUFFICES ASSUME Init PROVE WorkInv
  OBVIOUS
<1>1. \A t \in Tids : threads[t] = NoThread
  BY DEF Init
<1>2. \A n \in Ids : answers[n] = <<>>
  BY DEF Init
<1>3. WorkTypes
  <2>1. threads \in [Tids -> Threads]
    BY ThreadFacts DEF Init
  <2>2. answers \in [Ids -> Seq(Abstract!Answers)]
    BY DEF Init
  <2>3. <<>> \in Seq(Requests) /\ <<>> \in Seq(Ids) /\ Len(<<>>) <= MaxRequests
    BY ExecutorAssumption
  <2> QED
    BY <2>1, <2>2, <2>3 DEF Init, WorkTypes
<1>4. ThreadsInv
  BY <1>1, ThreadFacts DEF ThreadsInv
<1>5. PlaceInv
  <2>1. requests = <<>> /\ rpc_queue = <<>>
    BY DEF Init
  <2>2. \A n \in Ids : n > 0
    BY DEF Ids
  <2> QED
    BY <1>1, <1>2, <2>1, <2>2, ThreadFacts DEF PlaceInv, Ids
<1>6. AnswerInv
  BY <1>2 DEF AnswerInv
<1>7. IdleInv
  BY <1>1, ThreadFacts DEF Init, IdleInv
<1> QED
  BY <1>3, <1>4, <1>5, <1>6, <1>7 DEF WorkInv

\* Nobody takes or answers a request.
LEMMA SameRequests ==
  ASSUME WorkInv, UNCHANGED <<requests, rpc_queue, answers, registered>>,
         \A t \in Tids : threads'[t].req = threads[t].req
  PROVE  PlaceInv' /\ AnswerInv'
<1>1. PlaceInv'
  BY DEF WorkInv, PlaceInv, Taken
<1>2. AnswerInv'
  BY DEF WorkInv, AnswerInv
<1> QED
  BY <1>1, <1>2

\* The steps that leave the requests and the threads alone.
LEMMA WorkStepUnchanged ==
  ASSUME WorkInv, UNCHANGED <<workVars, registered>>,
         phase' = phase \/ (phase = "service" /\ phase' \in {"register", "exited"})
  PROVE  WorkInv'
<1>1. UNCHANGED <<requests, rpc_queue, threads, answers, registered>>
  BY DEF workVars
<1>2. PlaceInv' /\ AnswerInv'
  BY <1>1, SameRequests
<1>3. WorkTypes' /\ ThreadsInv'
  BY <1>1 DEF WorkInv, WorkTypes, ThreadsInv
<1>4. IdleInv'
  BY <1>1 DEF WorkInv, IdleInv
<1> QED
  BY <1>2, <1>3, <1>4 DEF WorkInv

\* Executor::init makes threads that hold nothing.
LEMMA WorkRegister == WorkInv /\ register_service => WorkInv'
<1> SUFFICES ASSUME WorkInv, register_service PROVE WorkInv'
  OBVIOUS
<1>1. /\ phase = "register" /\ phase' = "dispatcher"
      /\ UNCHANGED <<requests, rpc_queue, answers>>
      /\ registered' \in BOOLEAN
  BY DEF register_service, ExecutorInit, WorkInv, WorkTypes
<1>2. /\ requests = <<>> /\ rpc_queue = <<>> /\ (\A t \in Tids : threads[t].req = 0)
      /\ \A n \in Ids : answers[n] = <<>>
  BY <1>1 DEF WorkInv, IdleInv, AnswerInv, Ids
<1>3. threads' \in [Tids -> Threads]
  BY ThreadFacts DEF register_service, ExecutorInit, WorkInv, WorkTypes
<1>4. \A t \in Tids : threads'[t] = threads[t] \/ threads'[t] = NoThread
                     \/ threads'[t] = NewThread("kSuspend")
  BY DEF register_service, ExecutorInit
<1>5. ThreadsInv'
  BY <1>4, ThreadFacts DEF ThreadsInv, WorkInv
<1>6. \A t \in Tids : threads'[t].req = 0
  BY <1>2, <1>4, ThreadFacts
<1>7. PlaceInv' /\ AnswerInv' /\ IdleInv'
  <2>1. \A n \in Ids : ~(n <= Len(requests))
    BY <1>2 DEF Ids
  <2> QED
    BY <1>1, <1>2, <1>6, <2>1 DEF PlaceInv, AnswerInv, IdleInv, Taken
<1>8. WorkTypes'
  BY <1>1, <1>3 DEF WorkInv, WorkTypes
<1> QED
  BY <1>5, <1>7, <1>8 DEF WorkInv

\* Dispatcher::init starts threads that hold nothing.
LEMMA WorkDispatcherInit == WorkInv /\ DispatcherInit => WorkInv'
<1> SUFFICES ASSUME WorkInv, DispatcherInit PROVE WorkInv'
  OBVIOUS
<1>1. /\ UNCHANGED <<requests, rpc_queue, answers, registered>> /\ phase' = "serving"
      /\ threads' \in [Tids -> Threads]
      /\ \A t \in Tids : threads'[t] = IF threads[t].status = "kSuspend"
                                       THEN NewThread("kRunning") ELSE threads[t]
  BY ThreadFacts DEF DispatcherInit, WorkInv, WorkTypes
<1>2. \A t \in Tids : threads'[t].req = threads[t].req
  BY <1>1, ThreadFacts DEF WorkInv, ThreadsInv
<1>3. ThreadsInv'
  BY <1>1, ThreadFacts DEF WorkInv, ThreadsInv
<1>4. PlaceInv' /\ AnswerInv'
  BY <1>1, <1>2, SameRequests
<1>5. WorkTypes' /\ IdleInv'
  BY <1>1 DEF WorkInv, WorkTypes, IdleInv
<1> QED
  BY <1>3, <1>4, <1>5 DEF WorkInv

\* The next request of a workload is a request, and there is room for it.
LEMMA NextRequestFacts ==
  ASSUME NEW r, NextRequest(r), WorkTypes
  PROVE  r \in Requests /\ Len(requests) < MaxRequests /\ Len(requests) + 1 \in Ids
<1>1. PICK w \in Workloads : Len(requests) < Len(w) /\ r = w[Len(requests) + 1]
  BY DEF NextRequest
<1>2. w \in Seq(Requests) /\ Len(w) <= MaxRequests /\ Len(requests) \in Nat
      /\ MaxRequests \in Nat
  BY ExecutorAssumption DEF WorkTypes
<1> QED
  BY <1>1, <1>2 DEF Ids

\* What the dispatch of a request does, whichever way it goes: it is queued, or
\* answered as it is due.
LEMMA Dispatched ==
  ASSUME NEW r, handle_RPC(r), WorkInv
  PROVE  LET n == Len(requests) + 1 IN
         /\ r \in Requests /\ n \in Ids
         /\ requests' = Append(requests, r) /\ answers[n] = <<>>
         /\ UNCHANGED <<phase, registered, threads>> /\ phase = "serving"
         /\ \/ /\ validate_request(r) /\ r.ours /\ registered
               /\ rpc_queue' = Append(rpc_queue, n) /\ UNCHANGED answers
            \/ /\ answers' = [answers EXCEPT ![n] = <<Abstract!Due(r, registered)>>]
               /\ Abstract!Due(r, registered) \in Abstract!Answers
               /\ UNCHANGED rpc_queue
<1> DEFINE n == Len(requests) + 1
<1>1. r \in Requests /\ n \in Ids
  BY NextRequestFacts DEF handle_RPC, WorkInv
<1>2. requests' = Append(requests, r) /\ Len(requests') = n /\ n > Len(requests)
  BY <1>1 DEF handle_RPC, WorkInv, WorkTypes
<1>3. answers[n] = <<>> /\ answers \in [Ids -> Seq(Abstract!Answers)]
      /\ registered \in BOOLEAN
  BY <1>1, <1>2 DEF WorkInv, AnswerInv, WorkTypes
<1>4. ASSUME NEW a, Respond(n, a) PROVE answers' = [answers EXCEPT ![n] = <<a>>]
  BY <1>3, <1>4 DEF Respond
<1>5. CASE ~validate_request(r) /\ Respond(n, Abstract!Reject("INVALID_REQUEST"))
           /\ UNCHANGED rpc_queue
  <2>1. Abstract!Due(r, registered) = Abstract!Reject("INVALID_REQUEST")
    BY <1>1, <1>3, <1>5, AnswersDue
  <2> QED
    BY <1>1, <1>2, <1>3, <1>4, <1>5, <2>1, AnswerTypes DEF handle_RPC
<1>6. CASE validate_request(r) /\ ~(r.ours /\ registered)
           /\ Respond(n, Abstract!Reject("INVALID_SERVICE")) /\ UNCHANGED rpc_queue
  <2>1. Abstract!Due(r, registered) = Abstract!Reject("INVALID_SERVICE")
    BY <1>1, <1>3, <1>6, AnswersDue
  <2> QED
    BY <1>1, <1>2, <1>3, <1>4, <1>6, <2>1, AnswerTypes DEF handle_RPC
<1>7. CASE validate_request(r) /\ r.ours /\ registered
           /\ rpc_queue' = Append(rpc_queue, n) /\ UNCHANGED answers
  BY <1>1, <1>2, <1>3, <1>7 DEF handle_RPC
<1> QED
  BY <1>2, <1>5, <1>6, <1>7 DEF handle_RPC

\* Dispatcher::handle_RPC puts a request into the queue or answers it.
LEMMA WorkDispatch == ASSUME NEW r, handle_RPC(r), WorkInv PROVE WorkInv'
<1> DEFINE n == Len(requests) + 1
<1>1. /\ r \in Requests /\ n \in Ids
      /\ requests' = Append(requests, r) /\ answers[n] = <<>>
      /\ UNCHANGED <<phase, registered, threads>> /\ phase = "serving"
  BY Dispatched
<1>2. /\ requests \in Seq(Requests) /\ rpc_queue \in Seq(Ids)
      /\ answers \in [Ids -> Seq(Abstract!Answers)] /\ Len(requests) \in Nat
  BY DEF WorkInv, WorkTypes
<1>3. /\ requests' \in Seq(Requests) /\ Len(requests') = n /\ requests'[n] = r
      /\ \A m \in 1..Len(requests) : requests'[m] = requests[m]
      /\ n <= MaxRequests
  BY <1>1, <1>2, ExecutorAssumption DEF Ids
<1>4. \A m \in Ids : m <= Len(requests) => m <= Len(requests') /\ m # n
                                          /\ requests'[m] = requests[m]
  BY <1>2, <1>3 DEF Ids
<1>5. \A m \in Ids : m <= Len(requests') => m = n \/ m <= Len(requests)
  BY <1>2, <1>3 DEF Ids
<1>6. \A m \in Ids : Taken(m) => TakenNext(m) /\ m # n
  BY <1>1, <1>4 DEF Taken, TakenNext
<1>7. ThreadsInv' /\ IdleInv'
  BY <1>1 DEF WorkInv, ThreadsInv, IdleInv
<1>8. \A t \in Tids : threads[t].req # 0 => threads[t].req \in Ids /\ threads[t].req # n
  BY <1>6 DEF WorkInv, WorkTypes, PlaceInv, Threads, Ids
<1>9. CASE validate_request(r) /\ r.ours /\ registered
           /\ rpc_queue' = Append(rpc_queue, n) /\ UNCHANGED answers
  <2>1. /\ rpc_queue' \in Seq(Ids) /\ Len(rpc_queue') = Len(rpc_queue) + 1
        /\ rpc_queue'[Len(rpc_queue) + 1] = n
        /\ \A i \in 1..Len(rpc_queue) : rpc_queue'[i] = rpc_queue[i] /\ rpc_queue[i] \in Ids
        /\ Len(rpc_queue) \in Nat
    BY <1>1, <1>2, <1>9
  <2>2. WorkTypes'
    BY <1>1, <1>3, <1>9, <2>1 DEF WorkInv, WorkTypes
  <2>3. TakenNext(n)
    BY <1>1, <1>2, <1>3, <1>9 DEF TakenNext
  <2>4. \A i \in 1..Len(rpc_queue') : i \in 1..Len(rpc_queue) \/ i = Len(rpc_queue) + 1
    BY <2>1
  <2>5. \A i \in 1..Len(rpc_queue) : i \in 1..Len(rpc_queue') /\ rpc_queue[i] # n
    BY <1>6, <2>1 DEF WorkInv, PlaceInv
  <2>6. \A i \in 1..Len(rpc_queue') : TakenNext(rpc_queue'[i]) /\ answers'[rpc_queue'[i]] = <<>>
    BY <1>1, <1>6, <1>9, <2>1, <2>3, <2>4 DEF WorkInv, PlaceInv
  <2>7. \A i, j \in 1..Len(rpc_queue') : rpc_queue'[i] = rpc_queue'[j] => i = j
    BY <2>1, <2>4, <2>5 DEF WorkInv, PlaceInv
  <2>8. \A t \in Tids : threads'[t].req # 0 =>
          /\ TakenNext(threads'[t].req) /\ answers'[threads'[t].req] = <<>>
          /\ \A i \in 1..Len(rpc_queue') : rpc_queue'[i] # threads'[t].req
          /\ \A u \in Tids : threads'[u].req = threads'[t].req => u = t
    BY <1>1, <1>6, <1>8, <1>9, <2>1, <2>4 DEF WorkInv, PlaceInv
  <2>9. \A m \in Ids : m <= Len(requests') /\ answers'[m] = <<>> =>
          \/ \E i \in 1..Len(rpc_queue') : rpc_queue'[i] = m
          \/ \E t \in Tids : threads'[t].req = m
    <3> SUFFICES ASSUME NEW m \in Ids, m <= Len(requests'), answers'[m] = <<>>
                 PROVE  \/ \E i \in 1..Len(rpc_queue') : rpc_queue'[i] = m
                        \/ \E t \in Tids : threads'[t].req = m
      OBVIOUS
    <3>1. CASE m = n
      <4>1. Len(rpc_queue) + 1 \in 1..Len(rpc_queue')
        BY <2>1
      <4> QED
        BY <2>1, <3>1, <4>1
    <3>2. CASE m <= Len(requests)
      BY <1>1, <1>9, <2>1, <2>5, <3>2 DEF WorkInv, PlaceInv
    <3> QED
      BY <1>5, <3>1, <3>2
  <2>10. AnswerInv'
    BY <1>1, <1>4, <1>9 DEF WorkInv, AnswerInv
  <2>11. PlaceInv'
    BY <2>6, <2>7, <2>8, <2>9 DEF PlaceInv, Taken, TakenNext
  <2> QED
    BY <1>7, <2>2, <2>10, <2>11 DEF WorkInv
<1>10. CASE /\ answers' = [answers EXCEPT ![n] = <<Abstract!Due(r, registered)>>]
            /\ Abstract!Due(r, registered) \in Abstract!Answers
            /\ UNCHANGED rpc_queue
  <2> DEFINE a == Abstract!Due(r, registered)
  <2>0. a \in Abstract!Answers /\ answers' = [answers EXCEPT ![n] = <<a>>] /\ <<a>> # <<>>
    BY <1>10
  <2>1. WorkTypes'
    <3> HIDE DEF a
    <3>1. answers' \in [Ids -> Seq(Abstract!Answers)]
      BY <1>1, <1>2, <2>0
    <3> QED
      BY <1>1, <1>3, <1>10, <3>1 DEF WorkInv, WorkTypes
  <2>2. answers'[n] = <<a>> /\ \A m \in Ids : m # n => answers'[m] = answers[m]
    BY <1>1, <1>2, <2>0
  <2>3. AnswerInv'
    <3>1. a = Abstract!Due(requests'[n], registered')
      BY <1>1, <1>3
    <3> SUFFICES ASSUME NEW m \in Ids, answers'[m] # <<>>
                 PROVE  /\ m <= Len(requests')
                        /\ answers'[m] = <<Abstract!Due(requests'[m], registered')>>
      BY DEF AnswerInv
    <3>2. CASE m = n
      <4>1. n <= Len(requests')
        BY <1>2, <1>3
      <4> HIDE DEF a
      <4> QED
        BY <2>2, <3>1, <3>2, <4>1
    <3>3. CASE m # n
      <4>1. m <= Len(requests) /\ answers[m] = <<Abstract!Due(requests[m], registered)>>
        BY <2>2, <3>3 DEF WorkInv, AnswerInv
      <4> QED
        BY <1>1, <1>4, <2>2, <3>3, <4>1
    <3> QED
      BY <3>2, <3>3
  <2>4. PlaceInv'
    <3> HIDE DEF a
    <3>1. \A i \in 1..Len(rpc_queue) : rpc_queue[i] \in Ids /\ rpc_queue[i] # n
      BY <1>2, <1>6 DEF WorkInv, PlaceInv
    <3>2. \A i \in 1..Len(rpc_queue) : TakenNext(rpc_queue[i]) /\ answers'[rpc_queue[i]] = <<>>
      BY <1>6, <2>2, <3>1 DEF WorkInv, PlaceInv
    <3>3. \A t \in Tids : threads[t].req # 0 =>
            TakenNext(threads[t].req) /\ answers'[threads[t].req] = <<>>
      BY <1>6, <1>8, <2>2 DEF WorkInv, PlaceInv
    <3>4. \A m \in Ids : m <= Len(requests') /\ answers'[m] = <<>> =>
            m <= Len(requests) /\ answers[m] = <<>>
      BY <1>5, <2>0, <2>2
    <3> QED
      BY <1>1, <1>10, <3>2, <3>3, <3>4 DEF WorkInv, PlaceInv, Taken, TakenNext
  <2> QED
    BY <1>7, <2>1, <2>3, <2>4 DEF WorkInv
<1> QED
  BY <1>9, <1>10, Dispatched

\* A thread that takes or finishes no request.
LEMMA WorkTestStatus ==
  ASSUME NEW t \in Tids, TestStatus(t) \/ PopTimeout(t), WorkInv PROVE WorkInv'
<1>1. /\ UNCHANGED <<requests, rpc_queue, answers, registered, phase>>
      /\ threads \in [Tids -> Threads] /\ threads[t] \in Threads
  BY DEF TestStatus, PopTimeout, workerUnchanged, WorkInv, WorkTypes
<1>2. PICK th \in Threads :
        /\ threads' = [threads EXCEPT ![t] = th] /\ th.req = 0 /\ th.pc # "handle"
        /\ th.status = "kDead" => th = NoThread
        /\ th.status # "kSuspend"
  <2>1. CASE TestStatus(t) /\ threads[t].status = "kTerminating"
    BY <2>1, ThreadFacts DEF TestStatus, SetThread
  <2>2. CASE TestStatus(t) /\ threads[t].status = "kRunning"
    BY <1>1, <2>2 DEF TestStatus, SetThread, WorkInv, ThreadsInv, Threads
  <2>3. CASE PopTimeout(t)
    <3> DEFINE th == [threads[t] EXCEPT !.pc = "loop"]
    <3>1. threads[t].pc = "pop" /\ threads[t].req = 0
          /\ threads' = [threads EXCEPT ![t] = th]
      BY <2>3 DEF PopTimeout, SetThread, WorkInv, ThreadsInv
    <3>2. threads[t].status \notin {"kDead", "kSuspend"}
      BY <3>1, ThreadFacts DEF WorkInv, ThreadsInv
    <3>3. th \in Threads /\ th.req = 0 /\ th.pc = "loop" /\ th.status = threads[t].status
      BY <1>1, <3>1 DEF Threads
    <3> QED
      BY <3>1, <3>2, <3>3
  <2> QED
    BY <2>1, <2>2, <2>3 DEF TestStatus
<1>3. threads' \in [Tids -> Threads] /\ threads'[t] = th
      /\ \A u \in Tids : u # t => threads'[u] = threads[u]
  BY <1>1, <1>2
<1>4. threads[t].req = 0
  BY DEF TestStatus, PopTimeout, WorkInv, ThreadsInv
<1>5. ThreadsInv'
  BY <1>2, <1>3 DEF WorkInv, ThreadsInv
<1>6. \A u \in Tids : threads'[u].req = threads[u].req
  BY <1>2, <1>3, <1>4
<1>7. PlaceInv' /\ AnswerInv'
  BY <1>1, <1>6, SameRequests
<1>8. WorkTypes' /\ IdleInv'
  BY <1>1, <1>3, <1>6 DEF WorkInv, WorkTypes, IdleInv
<1> QED
  BY <1>5, <1>7, <1>8 DEF WorkInv

\* A worker takes the first request of the queue, and nobody else has it.
LEMMA WorkPop == ASSUME NEW t \in Tids, Pop(t), WorkInv PROVE WorkInv'
<1> DEFINE n == Head(rpc_queue)
<1>1. /\ UNCHANGED <<requests, answers, registered, phase>>
      /\ rpc_queue # <<>> /\ rpc_queue' = Tail(rpc_queue)
      /\ threads[t].pc = "pop" /\ threads[t].req = 0
      /\ threads' = [threads EXCEPT ![t] = [threads[t] EXCEPT !.pc = "handle", !.req = n]]
  BY DEF Pop, SetThread, workerUnchanged, WorkInv, ThreadsInv
<1>2. /\ rpc_queue \in Seq(Ids) /\ threads \in [Tids -> Threads] /\ threads[t] \in Threads
      /\ phase = "serving"
  BY <1>1 DEF WorkInv, WorkTypes, IdleInv
<1>3. /\ n = rpc_queue[1] /\ 1 \in 1..Len(rpc_queue) /\ n \in Ids /\ n # 0
      /\ rpc_queue' \in Seq(Ids) /\ Len(rpc_queue') = Len(rpc_queue) - 1
      /\ \A i \in 1..Len(rpc_queue') : i + 1 \in 1..Len(rpc_queue)
                                      /\ i + 1 # 1 /\ rpc_queue'[i] = rpc_queue[i + 1]
      /\ \A i \in 1..Len(rpc_queue) : i # 1 => i - 1 \in 1..Len(rpc_queue')
                                               /\ rpc_queue'[i - 1] = rpc_queue[i]
  <2>1. n = rpc_queue[1] /\ Len(rpc_queue) \in Nat \ {0} /\ rpc_queue[1] \in Ids
    BY <1>1, <1>2
  <2>2. /\ rpc_queue' \in Seq(Ids) /\ Len(rpc_queue') = Len(rpc_queue) - 1
        /\ \A i \in 1..Len(rpc_queue') : rpc_queue'[i] = rpc_queue[i + 1]
    BY <1>1, <1>2
  <2> QED
    BY <2>1, <2>2 DEF Ids
<1> HIDE DEF n
<1>4. /\ threads' \in [Tids -> Threads]
      /\ threads'[t].req = n /\ threads'[t].pc = "handle"
      /\ threads'[t].status = threads[t].status
      /\ \A u \in Tids : u # t => threads'[u] = threads[u]
  <2> DEFINE th == [threads[t] EXCEPT !.pc = "handle", !.req = n]
  <2>1. n \in 0..MaxRequests
    BY <1>3 DEF Ids
  <2>2. th \in Threads /\ th.req = n /\ th.pc = "handle" /\ th.status = threads[t].status
    BY <1>2, <2>1 DEF Threads
  <2> HIDE DEF th
  <2>3. threads' = [threads EXCEPT ![t] = th]
    BY <1>1 DEF th
  <2> QED
    BY <1>2, <2>2, <2>3
<1>5. threads[t].status \notin {"kDead", "kSuspend"}
  BY <1>1 DEF WorkInv, ThreadsInv, NoThread
<1>6. ThreadsInv'
  BY <1>3, <1>4, <1>5 DEF WorkInv, ThreadsInv
<1>7. AnswerInv' /\ IdleInv' /\ WorkTypes'
  BY <1>1, <1>2, <1>3, <1>4 DEF WorkInv, AnswerInv, IdleInv, WorkTypes
<1>8. PlaceInv'
  <2>1. Taken(n) /\ answers[n] = <<>> /\ \A u \in Tids : threads[u].req # n
    BY <1>3 DEF WorkInv, PlaceInv
  <2>2. \A m : TakenNext(m) <=> Taken(m)
    BY <1>1 DEF Taken, TakenNext
  <2>3. \A i \in 1..Len(rpc_queue') : rpc_queue'[i] # n
    BY <1>3 DEF WorkInv, PlaceInv
  <2>4. \A i \in 1..Len(rpc_queue') : TakenNext(rpc_queue'[i]) /\ answers'[rpc_queue'[i]] = <<>>
    BY <1>1, <1>3, <2>2 DEF WorkInv, PlaceInv
  <2>5. \A i, j \in 1..Len(rpc_queue') : rpc_queue'[i] = rpc_queue'[j] => i = j
    <3> SUFFICES ASSUME NEW i \in 1..Len(rpc_queue'), NEW j \in 1..Len(rpc_queue'),
                        rpc_queue'[i] = rpc_queue'[j]
                 PROVE  i = j
      OBVIOUS
    <3>1. i + 1 = j + 1
      BY <1>3 DEF WorkInv, PlaceInv
    <3> QED
      BY <3>1
  <2>6. \A u \in Tids : threads'[u].req # 0 =>
          /\ TakenNext(threads'[u].req) /\ answers'[threads'[u].req] = <<>>
          /\ \A i \in 1..Len(rpc_queue') : rpc_queue'[i] # threads'[u].req
          /\ \A v \in Tids : threads'[v].req = threads'[u].req => v = u
    <3> SUFFICES ASSUME NEW u \in Tids, threads'[u].req # 0
                 PROVE  /\ TakenNext(threads'[u].req) /\ answers'[threads'[u].req] = <<>>
                        /\ \A i \in 1..Len(rpc_queue') : rpc_queue'[i] # threads'[u].req
                        /\ \A v \in Tids : threads'[v].req = threads'[u].req => v = u
      OBVIOUS
    <3>1. CASE u = t
      BY <1>1, <1>4, <2>1, <2>2, <2>3, <3>1
    <3>2. CASE u # t
      BY <1>1, <1>3, <1>4, <2>1, <2>2, <3>2 DEF WorkInv, PlaceInv
    <3> QED
      BY <3>1, <3>2
  <2>7. \A m \in Ids : m <= Len(requests') /\ answers'[m] = <<>> =>
          \/ \E i \in 1..Len(rpc_queue') : rpc_queue'[i] = m
          \/ \E u \in Tids : threads'[u].req = m
    <3> SUFFICES ASSUME NEW m \in Ids, m <= Len(requests), answers[m] = <<>>
                 PROVE  \/ \E i \in 1..Len(rpc_queue') : rpc_queue'[i] = m
                        \/ \E u \in Tids : threads'[u].req = m
      BY <1>1
    <3>1. m # 0
      BY DEF Ids
    <3>2. CASE \E i \in 1..Len(rpc_queue) : rpc_queue[i] = m
      BY <1>3, <1>4, <3>2
    <3>3. CASE \E u \in Tids : threads[u].req = m
      BY <1>1, <1>4, <3>1, <3>3
    <3> QED
      BY <3>2, <3>3 DEF WorkInv, PlaceInv
  <2> QED
    BY <2>4, <2>5, <2>6, <2>7 DEF PlaceInv, Taken, TakenNext
<1> QED
  BY <1>6, <1>7, <1>8 DEF WorkInv

\* The worker of a request answers it as it is due.
LEMMA Handled ==
  ASSUME NEW t \in Tids, Handle(t), WorkInv
  PROVE  LET n == threads[t].req IN
         /\ n \in Ids /\ n <= Len(requests) /\ n # 0 /\ answers[n] = <<>>
         /\ answers' = [answers EXCEPT ![n] = <<Abstract!Due(requests[n], registered)>>]
         /\ Abstract!Due(requests[n], registered) \in Abstract!Answers
<1> DEFINE n == threads[t].req
<1>1. threads[t].pc = "handle" /\ n # 0 /\ threads[t] \in Threads
  BY DEF Handle, WorkInv, WorkTypes, ThreadsInv
<1>2. n \in Ids
  BY <1>1 DEF Threads, Ids
<1>3. Taken(n) /\ answers[n] = <<>>
  BY <1>1 DEF WorkInv, PlaceInv
<1>4. requests[n] \in Requests /\ registered \in BOOLEAN
      /\ answers \in [Ids -> Seq(Abstract!Answers)]
  BY <1>2, <1>3 DEF Taken, WorkInv, WorkTypes, Ids
<1>5. Abstract!Due(requests[n], registered) = ServiceAnswer(requests[n])
  BY <1>3, <1>4, AnswersDue DEF Taken
<1>6. ServiceAnswer(requests[n]) \in Abstract!Answers
  BY <1>4, AnswerTypes
<1>7. answers' = [answers EXCEPT ![n] = <<ServiceAnswer(requests[n])>>]
  BY <1>2, <1>3, <1>4 DEF Handle, Respond
<1> QED
  BY <1>1, <1>2, <1>3, <1>5, <1>6, <1>7 DEF Taken

\* A worker answers the request it holds, which nobody has answered.
LEMMA WorkHandle == ASSUME NEW t \in Tids, Handle(t), WorkInv PROVE WorkInv'
<1> DEFINE n == threads[t].req
           a == Abstract!Due(requests[n], registered)
           th == [threads[t] EXCEPT !.pc = "loop", !.req = 0]
<1>1. /\ n \in Ids /\ n <= Len(requests) /\ n # 0
      /\ answers' = [answers EXCEPT ![n] = <<a>>] /\ a \in Abstract!Answers
  BY Handled
<1>2. /\ UNCHANGED <<requests, rpc_queue, registered, phase>>
      /\ threads' = [threads EXCEPT ![t] = th] /\ threads[t].pc = "handle"
  BY DEF Handle, SetThread, workerUnchanged
<1>3. /\ threads \in [Tids -> Threads] /\ threads[t] \in Threads
      /\ answers \in [Ids -> Seq(Abstract!Answers)]
  BY DEF WorkInv, WorkTypes
<1>4. th \in Threads /\ th.req = 0 /\ th.pc = "loop" /\ th.status = threads[t].status
  <2>1. 0 \in 0..MaxRequests
    BY ExecutorAssumption
  <2> QED
    BY <1>3, <2>1 DEF Threads
<1>5. threads[t].status # "kDead"
  BY <1>2, ThreadFacts DEF WorkInv, ThreadsInv
<1> HIDE DEF th
<1>6. /\ threads' \in [Tids -> Threads] /\ threads'[t] = th
      /\ \A u \in Tids : u # t => threads'[u] = threads[u]
  BY <1>2, <1>3, <1>4
<1>7. ThreadsInv'
  BY <1>4, <1>5, <1>6 DEF WorkInv, ThreadsInv
<1>8. IdleInv'
  BY <1>2, <1>4, <1>6 DEF WorkInv, IdleInv
<1> HIDE DEF a
<1>9. WorkTypes' /\ answers'[n] = <<a>> /\ <<a>> # <<>>
      /\ \A m \in Ids : m # n => answers'[m] = answers[m]
  BY <1>1, <1>2, <1>3, <1>6 DEF WorkInv, WorkTypes
<1>10. AnswerInv'
  <2> SUFFICES ASSUME NEW m \in Ids, answers'[m] # <<>>
               PROVE  /\ m <= Len(requests)
                      /\ answers'[m] = <<Abstract!Due(requests[m], registered)>>
    BY <1>2 DEF AnswerInv
  <2>1. CASE m = n
    BY <1>1, <1>9, <2>1 DEF a
  <2>2. CASE m # n
    BY <1>9, <2>2 DEF WorkInv, AnswerInv
  <2> QED
    BY <2>1, <2>2
<1> HIDE DEF n
<1>11. PlaceInv'
  <2>1. \A m : Taken(m)' <=> Taken(m)
    BY <1>2 DEF Taken
  <2>2. /\ \A i \in 1..Len(rpc_queue) : rpc_queue[i] # n /\ rpc_queue[i] \in Ids
        /\ \A u \in Tids : u # t => threads[u].req # n
    BY <1>1 DEF n, WorkInv, WorkTypes, PlaceInv
  <2>3. \A u \in Tids : threads'[u].req # 0 =>
          u # t /\ threads[u].req = threads'[u].req /\ threads[u].req \in Ids
    BY <1>3, <1>4, <1>6 DEF Threads, Ids
  <2>4. \A i \in 1..Len(rpc_queue) : Taken(rpc_queue[i]) /\ answers'[rpc_queue[i]] = <<>>
    BY <1>9, <2>2 DEF WorkInv, PlaceInv
  <2>5. \A u \in Tids : threads'[u].req # 0 =>
          /\ Taken(threads'[u].req) /\ answers'[threads'[u].req] = <<>>
          /\ \A i \in 1..Len(rpc_queue) : rpc_queue[i] # threads'[u].req
          /\ \A v \in Tids : threads'[v].req = threads'[u].req => v = u
    BY <1>9, <2>2, <2>3 DEF WorkInv, PlaceInv
  <2>6. \A m \in Ids : m <= Len(requests) /\ answers'[m] = <<>> =>
          \/ \E i \in 1..Len(rpc_queue) : rpc_queue[i] = m
          \/ \E u \in Tids : threads'[u].req = m
    <3> SUFFICES ASSUME NEW m \in Ids, m <= Len(requests), answers'[m] = <<>>
                 PROVE  \/ \E i \in 1..Len(rpc_queue) : rpc_queue[i] = m
                        \/ \E u \in Tids : threads'[u].req = m
      OBVIOUS
    <3>1. m # n /\ answers[m] = <<>>
      BY <1>9
    <3>2. \A u \in Tids : threads[u].req = m => u # t
      BY <3>1 DEF n
    <3> QED
      BY <1>6, <3>1, <3>2 DEF WorkInv, PlaceInv
  <2> QED
    BY <1>2, <2>4, <2>5, <2>6 DEF WorkInv, PlaceInv, Taken
<1> QED
  BY <1>7, <1>8, <1>9, <1>10, <1>11 DEF WorkInv

\* resize_threads takes no request from anybody.
LEMMA WorkAdjustEnd == WorkInv /\ AdjustEnd => WorkInv'
<1> SUFFICES ASSUME WorkInv, AdjustEnd PROVE WorkInv'
  OBVIOUS
<1>1. UNCHANGED <<requests, rpc_queue, answers, registered, phase>>
  BY DEF AdjustEnd
<1>2. CASE UNCHANGED threads
  BY <1>1, <1>2, WorkStepUnchanged DEF workVars
<1>3. CASE resize_threads(ExpectThread(adjusting[1], Len(rpc_queue)))
  <2>1. PICK S \in SUBSET Tids :
          /\ \A t \in S \ Live : threads[t].status = "kDead"
          /\ threads' = [t \in Tids |->
               CASE t \in S \ Live -> NewThread("kRunning")
                 [] t \in Live \ S -> [threads[t] EXCEPT !.status = "kTerminating"]
                 [] OTHER -> threads[t]]
    BY <1>3 DEF resize_threads
  <2>2. \A t \in Tids :
          \/ threads[t].status = "kDead" /\ threads'[t] = NewThread("kRunning")
          \/ threads'[t] = [threads[t] EXCEPT !.status = "kTerminating"]
          \/ threads'[t] = threads[t]
    BY <2>1
  <2>3. \A t \in Tids : threads[t] \in Threads
    BY DEF WorkInv, WorkTypes
  <2>4. ASSUME NEW t \in Tids
        PROVE  /\ threads'[t] \in Threads /\ threads'[t].req = threads[t].req
               /\ threads'[t].pc = threads[t].pc
               /\ \/ threads'[t] = threads[t]
                  \/ threads'[t].status \in {"kRunning", "kTerminating"}
    <3>1. CASE threads[t].status = "kDead" /\ threads'[t] = NewThread("kRunning")
      BY <3>1, ThreadFacts DEF WorkInv, ThreadsInv
    <3>2. CASE threads'[t] = [threads[t] EXCEPT !.status = "kTerminating"]
      BY <2>3, <3>2 DEF Threads
    <3>3. CASE threads'[t] = threads[t]
      BY <2>3, <3>3
    <3> QED
      BY <2>2, <3>1, <3>2, <3>3
  <2>5. threads' \in [Tids -> Threads]
    BY <2>1, <2>4
  <2>6. ThreadsInv'
    BY <2>4 DEF WorkInv, ThreadsInv
  <2>7. PlaceInv' /\ AnswerInv'
    BY <1>1, <2>4, SameRequests
  <2>8. WorkTypes' /\ IdleInv'
    BY <1>1, <2>4, <2>5 DEF WorkInv, WorkTypes, IdleInv
  <2> QED
    BY <2>6, <2>7, <2>8 DEF WorkInv
<1> QED
  BY <1>2, <1>3 DEF AdjustEnd

\* Every step keeps WorkInv.
LEMMA WorkStep == WorkInv /\ [Next]_vars => WorkInv'
<1> SUFFICES ASSUME WorkInv, [Next]_vars PROVE WorkInv'
  OBVIOUS
<1>1. CASE XtraTaskInit
  BY <1>1, WorkStepUnchanged DEF XtraTaskInit
<1>2. ASSUME NEW r, handle_RPC(r) PROVE WorkInv'
  BY <1>2, WorkDispatch
<1>3. ASSUME NEW t \in Tids, Worker(t) PROVE WorkInv'
  BY <1>3, WorkTestStatus, WorkPop, WorkHandle DEF Worker
<1>4. CASE AdjustBegin \/ RuntimeConf \/ CopyConf
  BY <1>4, WorkStepUnchanged DEF AdjustBegin, RuntimeConf, CopyConf
<1>5. CASE UNCHANGED vars
  BY <1>5, WorkStepUnchanged DEF vars
<1> QED
  BY <1>1, <1>2, <1>3, <1>4, <1>5, WorkRegister, WorkDispatcherInit, WorkAdjustEnd DEF Next

\* Each request is where WorkInv says.
LEMMA WorkAlways == Spec => []WorkInv
BY WorkInit, WorkStep, PTL DEF Spec

-----------------------------------------------------------------------------
(* The theorems.                                                            *)

\* Threads, queue and both configurations keep their types, and a worker holds a
\* request exactly while it handles it.
THEOREM ExecutorTypes == Spec => []TypeOK
<1>1. ConfInv /\ WorkInv => TypeOK
  BY DEF ConfInv, ConfTypes, WorkInv, WorkTypes, ThreadsInv, TypeOK
<1> QED
  BY <1>1, ConfAlways, WorkAlways, PTL

\* The Executor works with correct configurations, and its timer with no other.
THEOREM ConfigurationCorrect == Spec => []ConfCorrect
<1>1. ConfInv => ConfCorrect
  BY DEF ConfInv, ConfSource, ConfCorrect, Started
<1> QED
  BY <1>1, ConfAlways, PTL

\* A configuration that was refused changes nothing, one that was not reaches the
\* Executor.
THEOREM ConfigurationCurrent == Spec => []LastCorrectInForce
<1>1. ConfInv => LastCorrectInForce
  BY DEF ConfInv, ConfSource, LastCorrectInForce, Started, Last
<1> QED
  BY <1>1, ConfAlways, PTL

\* The adjust timer's assertion fails only after a step of 0 at run time.
THEOREM AssertionJustified == Spec => []AssertJustified
<1>1. ConfInv => AssertJustified
  BY DEF ConfInv
<1> QED
  BY <1>1, ConfAlways, PTL

\* No request is lost or taken twice, however the pool is resized.
THEOREM RequestsConserved == Spec => []Conserved
<1>1. ASSUME WorkInv PROVE Conserved
  <2> SUFFICES ASSUME NEW n \in 1..Len(requests)
               PROVE  \E p \in Places(n) : Places(n) = {p}
    BY DEF Conserved
  <2>1. n \in Ids /\ n # 0 /\ n <= Len(requests)
    BY <1>1, ExecutorAssumption DEF WorkInv, WorkTypes, Ids
  <2> DEFINE InQueue == {i \in 1..Len(rpc_queue) : rpc_queue[i] = n}
             InWorker == {t \in Tids : threads[t].req = n}
             InAnswers == 1..Len(answers[n])
  <2>2. CASE answers[n] # <<>>
    <3>1. InAnswers = {1}
      <4>1. PICK a : answers[n] = <<a>>
        BY <1>1, <2>1, <2>2 DEF WorkInv, AnswerInv
      <4> QED
        BY <4>1
    <3>2. InQueue = {} /\ InWorker = {}
      BY <1>1, <2>1, <2>2 DEF WorkInv, PlaceInv
    <3>3. Places(n) = {<<"answer", 1>>}
      BY <3>1, <3>2 DEF Places
    <3> QED
      BY <3>3
  <2>3. CASE answers[n] = <<>> /\ \E i \in 1..Len(rpc_queue) : rpc_queue[i] = n
    <3>1. PICK i \in 1..Len(rpc_queue) : rpc_queue[i] = n
      BY <2>3
    <3>2. InQueue = {i} /\ InWorker = {}
      BY <1>1, <2>1, <3>1 DEF WorkInv, PlaceInv
    <3>3. InAnswers = {}
      BY <2>3
    <3>4. Places(n) = {<<"queue", i>>}
      BY <3>2, <3>3 DEF Places
    <3> QED
      BY <3>4
  <2>4. CASE answers[n] = <<>> /\ \E t \in Tids : threads[t].req = n
    <3>1. PICK t \in Tids : threads[t].req = n
      BY <2>4
    <3>2. InQueue = {} /\ InWorker = {t}
      BY <1>1, <2>1, <3>1 DEF WorkInv, PlaceInv
    <3>3. InAnswers = {}
      BY <2>4
    <3>4. Places(n) = {<<"worker", t>>}
      BY <3>2, <3>3 DEF Places
    <3> QED
      BY <3>4
  <2> QED
    BY <1>1, <2>1, <2>2, <2>3, <2>4 DEF WorkInv, PlaceInv
<1> QED
  BY <1>1, WorkAlways, PTL

\* Dispatcher, queue, pool and service together do what RpcService promises: a
\* request gets one answer at most, and that is the one it calls for.
THEOREM ExecutorRefines == Spec => ImplementsRpcService
<1>1. Init => Abstract!Init
  BY DEF Init, Abstract!Init, Ids, Abstract!Ids
<1>2. ASSUME WorkInv, [Next]_vars PROVE [Abstract!Next]_(Abstract!vars)
  <2>1. ASSUME NEW r, handle_RPC(r) PROVE \E q \in Abstract!Requests : Abstract!Submit(q)
    <3>1. r \in Requests /\ Len(requests) + 1 \in Ids
          /\ requests' = Append(requests, r) /\ UNCHANGED registered
          /\ \/ UNCHANGED answers
             \/ answers' = [answers EXCEPT ![Len(requests) + 1]
                                             = <<Abstract!Due(r, registered)>>]
      BY <1>2, <2>1, Dispatched
    <3>2. Len(requests) < MaxRequests
      BY <1>2, <3>1, ExecutorAssumption DEF Ids, WorkInv, WorkTypes
    <3> QED
      BY <3>1, <3>2 DEF Abstract!Submit, Requests
  <2>2. ASSUME NEW t \in Tids, Worker(t) PROVE [Abstract!Next]_(Abstract!vars)
    <3>1. CASE TestStatus(t) \/ Pop(t) \/ PopTimeout(t)
      BY <3>1 DEF TestStatus, Pop, PopTimeout, workerUnchanged, Abstract!vars
    <3>2. CASE Handle(t)
      <4>1. Abstract!Answer(threads[t].req) /\ threads[t].req \in Abstract!Ids
        BY <1>2, <3>2, Handled DEF Handle, workerUnchanged, Abstract!Answer, Ids, Abstract!Ids
      <4> QED
        BY <4>1 DEF Abstract!Next
    <3> QED
      BY <2>2, <3>1, <3>2 DEF Worker
  <2>3. CASE register_service
    <3>1. requests = <<>> /\ registered' \in BOOLEAN /\ UNCHANGED <<requests, answers>>
      BY <1>2, <2>3 DEF register_service, ExecutorInit, WorkInv, WorkTypes, IdleInv
    <3> QED
      BY <3>1 DEF Abstract!Next, Abstract!Start
  <2>4. CASE XtraTaskInit \/ DispatcherInit \/ AdjustBegin \/ AdjustEnd \/ RuntimeConf
             \/ CopyConf \/ UNCHANGED vars
    BY <2>4 DEF XtraTaskInit, DispatcherInit, AdjustBegin, AdjustEnd, RuntimeConf, CopyConf,
                vars, workVars, Abstract!vars
  <2> QED
    BY <1>2, <2>1, <2>2, <2>3, <2>4 DEF Next, Abstract!Next
<1> QED
  BY <1>1, <1>2, WorkAlways, PTL DEF Spec, ImplementsRpcService, Abstract!Spec

-----------------------------------------------------------------------------
(* The size of the pool.                                                    *)

\* n threads are between what two configurations offered so far ask for.
Sized(n) == \E c, d \in Range(offered) : n \in c.number..d.hard

\* The timer's copy of the configuration was offered; so was what the threads that
\* go on are as many as.
PoolInv ==
  /\ registered => Sized(Cardinality(Live))
  /\ adjusting # <<>> => adjusting[1] \in Range(offered)

\* The number of threads the timer wants lies within its configuration, however
\* long the queue is.
LEMMA ExpectWithin ==
  ASSUME NEW c \in ExecutorConf, Correct(c), NEW q \in Nat, c.step > 0 \/ q = 0
  PROVE  ExpectThread(c, q) \in c.number..c.hard
<1> DEFINE n == c.number
           h == c.hard
           s == c.step
           grown == IF q > s THEN q \div s ELSE 0
<1>1. n \in Int /\ h \in Int /\ s \in Nat /\ n <= h /\ n \in 1..Limit
  BY ExecutorAssumption DEF Correct, ExecutorConf, Fields
<1>2. ExpectThread(c, q) = IF n + grown > h THEN h ELSE n + grown
  BY DEF ExpectThread
<1>3. s > 0 \/ q = 0
  OBVIOUS
<1> HIDE DEF n, h, s
<1>4. grown \in Nat
  <2>1. CASE q > s
    <3>1. s > 0
      BY <1>1, <1>3, <2>1
    <3>2. q \div s \in Nat
      BY <1>1, <3>1
    <3> QED
      BY <2>1, <3>2
  <2>2. CASE ~(q > s)
    BY <2>2
  <2> QED
    BY <2>1, <2>2
<1> HIDE DEF grown
<1>5. (IF n + grown > h THEN h ELSE n + grown) \in n..h
  BY <1>1, <1>4
<1> QED
  BY <1>2, <1>5 DEF n, h

\* Threads that keep going on or keep ending leave the size alone.
LEMMA SameLive ==
  ASSUME \A t \in Tids : threads'[t].status \in {"kSuspend", "kRunning"}
                           <=> threads[t].status \in {"kSuspend", "kRunning"}
  PROVE  Live' = Live
  BY DEF Live

\* A worker ends only when it was told to.
LEMMA WorkerLive ==
  ASSUME NEW t \in Tids, Worker(t), WorkInv
  PROVE  Live' = Live
<1>1. threads \in [Tids -> Threads]
  BY DEF WorkInv, WorkTypes
<1>2. \/ threads[t].status = "kTerminating" /\ threads' = [threads EXCEPT ![t] = NoThread]
      \/ \E th : /\ threads' = [threads EXCEPT ![t] = th]
                 /\ th.status = threads[t].status
  <2>1. threads[t] \in Threads
    BY <1>1
  <2>2. CASE TestStatus(t)
    <3>1. [threads[t] EXCEPT !.pc = "pop"].status = threads[t].status
      BY <2>1 DEF Threads
    <3> QED
      BY <2>2, <3>1 DEF TestStatus, SetThread
  <2>3. CASE Pop(t)
    <3>1. [threads[t] EXCEPT !.pc = "handle", !.req = Head(rpc_queue)].status
            = threads[t].status
      BY <2>1 DEF Threads
    <3> QED
      BY <2>3, <3>1 DEF Pop, SetThread
  <2>4. CASE PopTimeout(t)
    <3>1. [threads[t] EXCEPT !.pc = "loop"].status = threads[t].status
      BY <2>1 DEF Threads
    <3> QED
      BY <2>4, <3>1 DEF PopTimeout, SetThread
  <2>5. CASE Handle(t)
    <3>1. [threads[t] EXCEPT !.pc = "loop", !.req = 0].status = threads[t].status
      BY <2>1 DEF Threads
    <3> QED
      BY <2>5, <3>1 DEF Handle, SetThread
  <2> QED
    BY <2>2, <2>3, <2>4, <2>5 DEF Worker
<1>3. \A u \in Tids : threads'[u].status \in {"kSuspend", "kRunning"}
                        <=> threads[u].status \in {"kSuspend", "kRunning"}
  <2>1. CASE threads[t].status = "kTerminating" /\ threads' = [threads EXCEPT ![t] = NoThread]
    BY <1>1, <2>1 DEF NoThread
  <2>2. CASE \E th : threads' = [threads EXCEPT ![t] = th] /\ th.status = threads[t].status
    BY <1>1, <2>2
  <2> QED
    BY <1>2, <2>1, <2>2
<1> QED
  BY <1>3, SameLive

\* Executor::init makes the threads its configuration asks for.
LEMMA PoolRegister ==
  ASSUME ConfInv, register_service
  PROVE  PoolInv'
<1>1. /\ phase = "register" /\ UNCHANGED <<adjusting, offered, service_conf>>
      /\ \/ registered' = registered
         \/ threads' = [t \in Tids |-> IF t <= service_conf.number
                                       THEN NewThread("kSuspend") ELSE NoThread]
  BY DEF register_service, ExecutorInit
<1>2. /\ ~registered /\ adjusting = <<>> /\ offered \in Seq(ExecutorConf)
      /\ offered # <<>> /\ service_conf = offered[Len(offered)]
      /\ service_conf \in ExecutorConf
      /\ Correct(service_conf) \/ service_conf = ZeroConf
  BY <1>1 DEF ConfInv, ConfTypes, ConfSource
<1>3. service_conf \in Range(offered)
  BY <1>2 DEF Range
<1>4. ASSUME registered' PROVE Sized(Cardinality(Live))'
  <2> DEFINE n == service_conf.number
             h == service_conf.hard
  <2>1. threads' = [t \in Tids |-> IF t <= n THEN NewThread("kSuspend") ELSE NoThread]
    BY <1>1, <1>2, <1>4
  <2>2. n \in Nat /\ h \in Nat /\ n <= h /\ n <= Slots
    <3>1. CASE Correct(service_conf)
      BY <3>1, <1>2, ExecutorAssumption DEF Correct, ExecutorConf, Fields
    <3>2. CASE service_conf = ZeroConf
      BY <3>2, ExecutorAssumption DEF ZeroConf, Fields
    <3> QED
      BY <1>2, <3>1, <3>2
  <2>3. NewThread("kSuspend").status = "kSuspend" /\ NoThread.status = "kDead"
    BY DEF NewThread, NoThread
  <2> HIDE DEF n, h
  <2>4. Live' = {t \in Tids : t <= n}
    BY <2>1, <2>3 DEF Live
  <2>5. {t \in Tids : t <= n} = 1..n
    BY <2>2, ExecutorAssumption DEF Tids
  <2>6. Cardinality(1..n) = n
    <3>1. 1 \in Int /\ n \in Int
      BY <2>2
    <3>2. Cardinality(1..n) = IF 1 > n THEN 0 ELSE n - 1 + 1
      BY <3>1, FS_Interval
    <3> QED
      BY <2>2, <3>2
  <2>7. Cardinality(Live') = n /\ n \in n..h
    <3>1. Live' = 1..n
      BY <2>4, <2>5
    <3>2. n \in n..h
      BY ONLY <2>2
    <3> QED
      BY ONLY <2>6, <3>1, <3>2
  <2>8. service_conf \in Range(offered')
    BY <1>1, <1>3
  <2> QED
    BY <2>7, <2>8 DEF Sized, n, h
<1> QED
  BY <1>1, <1>2, <1>4 DEF PoolInv

\* The timer makes the pool as large as it wants it: the threads told to go on.
LEMMA PoolAdjustEnd ==
  ASSUME ConfInv, WorkInv, PoolInv, AdjustEnd
  PROVE  PoolInv'
<1>1. adjusting # <<>> /\ adjusting' = <<>> /\ UNCHANGED <<registered, offered, rpc_queue>>
  BY DEF AdjustEnd
<1>2. CASE UNCHANGED threads
  BY <1>1, <1>2 DEF PoolInv, Sized, Live
<1>3. CASE /\ adjusting[1].step > 0 \/ rpc_queue = <<>>
           /\ resize_threads(ExpectThread(adjusting[1], Len(rpc_queue)))
  <2> DEFINE c == adjusting[1]
             n == ExpectThread(c, Len(rpc_queue))
  <2>1. c \in ExecutorConf /\ Correct(c) /\ c \in Range(offered)
    BY <1>1 DEF ConfInv, ConfTypes, ConfSource, PoolInv
  <2>2. Len(rpc_queue) \in Nat /\ (c.step > 0 \/ Len(rpc_queue) = 0)
    BY <1>3 DEF WorkInv, WorkTypes
  <2>3. n \in c.number..c.hard
    BY <2>1, <2>2, ExpectWithin
  <2>4. PICK S \in SUBSET Tids :
          /\ Cardinality(S) = n
          /\ threads' = [t \in Tids |->
               CASE t \in S \ Live -> NewThread("kRunning")
                 [] t \in Live \ S -> [threads[t] EXCEPT !.status = "kTerminating"]
                 [] OTHER -> threads[t]]
    BY <1>3 DEF resize_threads
  <2>5. Live' = S
    <3>1. ASSUME NEW t \in Tids
          PROVE  threads'[t].status \in {"kSuspend", "kRunning"} <=> t \in S
      <4>1. threads[t] \in Threads
        BY DEF WorkInv, WorkTypes
      <4>2. CASE t \in S \ Live
        BY <2>4, <4>2 DEF NewThread, NoThread
      <4>3. CASE t \in Live \ S
        <5>1. threads'[t] = [threads[t] EXCEPT !.status = "kTerminating"]
          BY <2>4, <4>3
        <5>2. threads'[t].status = "kTerminating"
          BY <4>1, <5>1 DEF Threads
        <5> QED
          BY <4>3, <5>2
      <4>4. CASE t \notin S \ Live /\ t \notin Live \ S
        <5>1. threads'[t] = threads[t] /\ (t \in S <=> t \in Live)
          BY <2>4, <4>4
        <5> QED
          BY <5>1 DEF Live
      <4> QED
        BY <4>2, <4>3, <4>4
    <3> QED
      BY <3>1 DEF Live
  <2>6. Cardinality(Live') = n
    BY <2>4, <2>5
  <2> HIDE DEF c, n
  <2> QED
    BY <1>1, <2>1, <2>3, <2>6 DEF PoolInv, Sized
<1> QED
  BY <1>2, <1>3 DEF AdjustEnd

\* An update that is offered is one more configuration to choose from.
LEMMA PoolRuntimeConf ==
  ASSUME ConfInv, PoolInv, RuntimeConf
  PROVE  PoolInv'
<1>1. UNCHANGED <<registered, threads, adjusting>>
  BY DEF RuntimeConf, workVars
<1>2. \/ offered' = offered
      \/ \E s \in RuntimeSettings : \E c \in ReadConf(s) : offered' = Append(offered, c)
  BY DEF RuntimeConf
<1>3. offered \in Seq(ExecutorConf)
  BY DEF ConfInv, ConfTypes
<1>4. \A x \in Range(offered) : x \in Range(offered')
  <2>1. CASE \E s \in RuntimeSettings : \E c \in ReadConf(s) : offered' = Append(offered, c)
    <3>1. PICK s \in RuntimeSettings : \E c \in ReadConf(s) : offered' = Append(offered, c)
      BY <2>1
    <3>2. PICK c \in ReadConf(s) : offered' = Append(offered, c)
      BY <3>1
    <3>3. c \in ExecutorConf
      BY ReadConfType
    <3>4. /\ DOMAIN offered = 1..Len(offered) /\ DOMAIN offered' = 1..(Len(offered) + 1)
          /\ Len(offered) \in Nat
          /\ \A i \in 1..Len(offered) : offered'[i] = offered[i]
      BY <1>3, <3>2, <3>3
    <3>5. \A i \in DOMAIN offered : i \in DOMAIN offered' /\ offered'[i] = offered[i]
      BY <3>4
    <3> QED
      BY <3>5 DEF Range
  <2> QED
    BY <1>2, <2>1
<1>5. Live' = Live
  BY <1>1 DEF Live
<1> QED
  BY <1>1, <1>4, <1>5 DEF PoolInv, Sized

\* Every step keeps the size of the pool.
LEMMA PoolStep == ConfInv /\ WorkInv /\ PoolInv /\ [Next]_vars => PoolInv'
<1> SUFFICES ASSUME ConfInv, WorkInv, PoolInv, [Next]_vars PROVE PoolInv'
  OBVIOUS
<1>1. ASSUME UNCHANGED <<registered, adjusting, offered>>, Live' = Live
      PROVE  PoolInv'
  BY <1>1 DEF PoolInv, Sized
<1>2. CASE XtraTaskInit
  <2>1. ~registered' /\ adjusting' = <<>>
    BY <1>2 DEF XtraTaskInit, ConfInv, ConfSource
  <2> QED
    BY <2>1 DEF PoolInv
<1>3. CASE DispatcherInit
  <2>1. Live' = Live
    <3>1. \A t \in Tids : threads'[t].status \in {"kSuspend", "kRunning"}
                            <=> threads[t].status \in {"kSuspend", "kRunning"}
      BY <1>3 DEF DispatcherInit, NewThread, NoThread
    <3> QED
      BY <3>1, SameLive
  <2> QED
    BY <1>1, <1>3, <2>1 DEF DispatcherInit, confVars
<1>4. ASSUME NEW r, handle_RPC(r) PROVE PoolInv'
  BY <1>1, <1>4 DEF handle_RPC, confVars, Live
<1>5. ASSUME NEW t \in Tids, Worker(t) PROVE PoolInv'
  BY <1>1, <1>5, WorkerLive
     DEF Worker, TestStatus, Pop, PopTimeout, Handle, workerUnchanged, confVars
<1>6. CASE AdjustBegin
  <2>1. /\ adjusting' = <<conf>> /\ attached
        /\ UNCHANGED <<registered, offered, threads>>
    BY <1>6 DEF AdjustBegin, workVars
  <2>2. conf \in Range(offered)
    BY <2>1 DEF ConfInv, ConfTypes, ConfSource, Range
  <2>3. Live' = Live /\ adjusting'[1] = conf
    BY <2>1 DEF Live
  <2> QED
    BY <2>1, <2>2, <2>3 DEF PoolInv, Sized
<1>7. CASE CopyConf
  BY <1>1, <1>7 DEF CopyConf, workVars, Live
<1>8. CASE UNCHANGED vars
  BY <1>1, <1>8 DEF vars, confVars, workVars, Live
<1> QED
  BY <1>2, <1>3, <1>4, <1>5, <1>6, <1>7, <1>8, PoolRegister, PoolAdjustEnd,
     PoolRuntimeConf DEF Next

\* The pool the Executor resizes every second, with a configuration that may be
\* replaced while the timer works with its copy, stays as large as configurations
\* that were offered allow.
THEOREM PoolSafe == Spec => []PoolBounded
<1>1. Init => PoolInv
  BY DEF Init, PoolInv
<1>2. PoolInv => PoolBounded
  BY DEF PoolInv, PoolBounded, Sized
<1> QED
  BY <1>1, <1>2, PoolStep, ConfAlways, WorkAlways, PTL DEF Spec
=============================================================================
