------------------------------ MODULE Executor ------------------------------
(***************************************************************************)
(* The Dispatcher, the Executor with its thread pool and its configuration, *)
(* and the service behind it: Captain::init registers XtraTaskService and   *)
(* no other, so there is one service and one Executor.                      *)
(*                                                                         *)
(*   start-up   Captain::init: service, registration, start of the threads; *)
(*   dispatch   Dispatcher::handle_RPC, on the io_service threads;          *)
(*   workers    executor_service_run, on the threads of executor_threads_;  *)
(*   adjusting  executor_threads_adjust, on the timer's thread;             *)
(*   updating   module_runtime, in the handler of SIGHUP.                   *)
(*                                                                         *)
(* executor_stop_graceful and executor_join have no caller.                 *)
(***************************************************************************)
EXTENDS Integers, FiniteSets, SequencesExt

CONSTANTS
  MaxRequests,      \* bound: requests received in all
  Workloads,        \* the requests that may come: a set of sequences of requests
  Limit,            \* the largest number of threads that may be configured: 100
  Slots,            \* bound: threads in the pool, ending ones included
  StartSettings,    \* the service's entries that rpc.services may have at the start
  RuntimeSettings,  \* those that rpc_services may have at SIGHUP
  Garbage,          \* what an int that nobody has written may hold
  MaxUpdates        \* bound: updates made in all

\* The members of ExecutorConf: exec_thread_number_, exec_thread_number_hard_ and
\* exec_thread_step_size_.  An entry of the configuration has settings for some.
Fields == {"number", "hard", "step"}
ExecutorConf == [Fields -> Int]
ZeroConf == [f \in Fields |-> 0]

VARIABLES
  phase,         \* how far Captain::init has come
  registered,    \* services_ has the service
  service_conf,  \* conf_ptr_->executor_conf_ of the service
  conf,          \* conf_ of the Executor
  attached,      \* the adjust timer has been added
  adjusting,     \* the callback's copy of conf_; empty when it does not run
  updating,      \* module_runtime of the service has returned 0
  updates,       \* updates made
  requests,      \* the requests received, in the order they were
  rpc_queue,     \* rpc_queue_
  threads,       \* executor_threads_
  assert_ok,     \* no SAFE_ASSERT has failed
  crashed,       \* an int was divided by zero
  answers,       \* history: the answers given to each request
  offered        \* history: the correct configurations that have been offered

confVars == <<service_conf, conf, attached, adjusting, updating, updates, offered>>
workVars == <<requests, rpc_queue, threads, answers>>
vars == <<phase, registered, confVars, workVars, assert_ok, crashed>>

\* What the server promises its clients.
Abstract == INSTANCE RpcService WITH available <- registered

Ids == 1..MaxRequests
Tids == 1..Slots
Requests == Abstract!Requests

NoThread == [status |-> "kDead", pc |-> "loop", req |-> 0]
NewThread(status) == [NoThread EXCEPT !.status = status]
Threads ==
  [status : {"kDead", "kSuspend", "kRunning", "kTerminating"},
   pc : {"loop", "pop", "handle"}, req : 0..MaxRequests]

ASSUME ExecutorAssumption ==
  /\ MaxRequests \in Nat /\ MaxUpdates \in Nat
  /\ \A w \in Workloads : w \in Seq(Requests) /\ Len(w) <= MaxRequests
  /\ Limit \in Nat \ {0} /\ Slots \in Nat /\ Slots >= Limit
  /\ \A s \in StartSettings \cup RuntimeSettings :
       DOMAIN s \subseteq Fields /\ \A f \in DOMAIN s : s[f] \in Int
  /\ Garbage \subseteq Int /\ Garbage # {}

-----------------------------------------------------------------------------
(* The configuration of the service.                                        *)

\* lookupValue leaves the member alone when there is no such setting.
lookupValue(setting, c) ==
  [f \in Fields |-> IF f \in DOMAIN setting THEN setting[f] ELSE c[f]]

Normalised(c) == IF c.hard < c.number THEN [c EXCEPT !.hard = c.number] ELSE c

\* Faulty variant: the hard limit is not tested.
AcceptedAnyHard(c) == c.number > 0 /\ c.number <= Limit /\ c.step >= 0

Accepted(c) ==
  /\ c.number > 0 /\ c.number <= Limit
  /\ c.hard <= Limit /\ c.hard >= c.number
  /\ c.step >= 0

\* RpcServiceBase::handle_rpc_service_conf.
handle_rpc_service_conf(c) == IF Accepted(c) THEN 0 ELSE -1

\* The configurations the code may read from an entry: the ExecutorConf it is read
\* into is not initialised.
ReadConf(setting) ==
  {Normalised(lookupValue(setting, g)) : g \in [Fields -> Garbage]}

\* Faulty variant: success is told the way other functions tell it.
RuntimeReturnTrue(c) == IF handle_rpc_service_conf(c) # 0 THEN 0 ELSE 1

\* handle_rpc_service_runtime_conf as an int: its -1 becomes true, its 0 false.
RuntimeReturn(c) == IF handle_rpc_service_conf(c) # 0 THEN 1 ELSE 0

\* What a correct configuration is.
Correct(c) == c.number \in 1..Limit /\ c.hard \in c.number..Limit /\ c.step \in Nat

-----------------------------------------------------------------------------
(* Start-up.                                                                *)

\* XtraTaskService::init.  A configuration that is not accepted leaves zeroes and
\* is no failure: -1 is converted to true.  A missing entry is one.
XtraTaskInit ==
  /\ phase = "service"
  /\ \/ \E s \in StartSettings : \E c \in ReadConf(s) :
          /\ service_conf' = IF handle_rpc_service_conf(c) = 0 THEN c ELSE ZeroConf
          /\ offered' = <<IF Correct(c) THEN c ELSE ZeroConf>>
          /\ phase' = "register"
     \/ phase' = "exited" /\ UNCHANGED <<service_conf, offered>>
  /\ UNCHANGED <<registered, conf, attached, adjusting, updating, updates, workVars,
                 assert_ok, crashed>>

\* Faulty variant: the timer is added whatever the step.
AdjustableAnyStep(c) == c.hard > c.number

Adjustable(c) == c.hard > c.number /\ c.step > 0

\* Executor::init: init_threads or add_timer may fail.
ExecutorInit(ok) ==
  /\ conf' = service_conf
  /\ assert_ok' = (assert_ok /\ service_conf.number > 0)
  /\ \/ /\ ok
        /\ attached' = Adjustable(service_conf)
        /\ threads' = [t \in Tids |-> IF t <= service_conf.number
                                      THEN NewThread("kSuspend") ELSE NoThread]
     \/ ~ok /\ UNCHANGED <<attached, threads>>

\* Dispatcher::register_service: nobody is told that it has failed.
register_service ==
  /\ phase = "register"
  /\ \/ ExecutorInit(TRUE) /\ registered' = TRUE
     \/ ExecutorInit(FALSE) /\ UNCHANGED registered
  /\ phase' = "dispatcher"
  /\ UNCHANGED <<service_conf, adjusting, updating, updates, offered, requests,
                 rpc_queue, answers, crashed>>

\* Faulty variant: the threads are not started.
DispatcherInitIdle == phase = "dispatcher" /\ phase' = "serving"
                      /\ UNCHANGED <<registered, confVars, workVars, assert_ok, crashed>>

\* Dispatcher::init starts the threads; then net_server_ptr_->service().
DispatcherInit ==
  /\ phase = "dispatcher"
  /\ threads' = [t \in Tids |-> IF threads[t].status = "kSuspend"
                                THEN NewThread("kRunning") ELSE threads[t]]
  /\ phase' = "serving"
  /\ UNCHANGED <<registered, confVars, requests, rpc_queue, answers, assert_ok, crashed>>

-----------------------------------------------------------------------------
(* Requests.                                                                *)

\* Faulty variant: a request may have no payload.
ValidateHeader(r) == r.size # "short" /\ r.marked

\* RpcInstance::validate_request.
validate_request(r) ==
  /\ r.size # "short"   \* an RpcRequestHeader
  /\ r.marked
  /\ r.size # "header"  \* and a payload after it

Respond(n, answer) == answers' = [answers EXCEPT ![n] = Append(@, answer)]

\* r is the next request of some workload.
NextRequest(r) ==
  \E w \in Workloads : /\ Len(requests) < Len(w)
                       /\ SubSeq(w, 1, Len(requests)) = requests
                       /\ r = w[Len(requests) + 1]

\* Dispatcher::handle_RPC, and Executor::handle_RPC.
handle_RPC(r) ==
  /\ phase = "serving" /\ NextRequest(r)
  /\ requests' = Append(requests, r)
  /\ \/ /\ ~validate_request(r)
        /\ Respond(Len(requests'), Abstract!Reject("INVALID_REQUEST"))
        /\ UNCHANGED rpc_queue
     \/ /\ validate_request(r) /\ r.ours /\ registered
        /\ rpc_queue' = Append(rpc_queue, Len(requests'))
        /\ UNCHANGED answers
     \/ /\ validate_request(r) /\ ~(r.ours /\ registered)
        /\ Respond(Len(requests'), Abstract!Reject("INVALID_SERVICE"))
        /\ UNCHANGED rpc_queue
  /\ UNCHANGED <<phase, registered, confVars, threads, assert_ok, crashed>>

\* XtraTaskService::read_ops_impl and write_ops_impl; the sleep of "timeout" is the
\* time the worker spends between taking the request and answering it.
read_ops_impl(r) ==
  CASE r.op = "malformed" -> Abstract!Reply("error")
    [] r.op \in Abstract!Reads -> Abstract!Reply(r.op)
    [] r.op = "unknown" -> Abstract!Reject("INVALID_REQUEST")

write_ops_impl(r) == Abstract!Reply("written")

\* XtraTaskService::handle_RPC.
ServiceAnswer(r) ==
  CASE r.opcode = "CMD_READ" -> read_ops_impl(r)
    [] r.opcode = "CMD_WRITE" -> write_ops_impl(r)
    [] r.opcode = "other" -> Abstract!Reject("INVALID_REQUEST")

-----------------------------------------------------------------------------
(* Workers: one round of the loop in executor_service_run is TestStatus,    *)
(* Pop (or PopTimeout) and Handle.                                          *)

SetThread(t, thread) == threads' = [threads EXCEPT ![t] = thread]

workerUnchanged == <<phase, registered, confVars, requests, assert_ok, crashed>>

\* A suspended thread sleeps and looks again.
TestStatus(t) ==
  /\ threads[t].pc = "loop"
  /\ \/ threads[t].status = "kTerminating" /\ SetThread(t, NoThread)
     \/ threads[t].status = "kRunning" /\ SetThread(t, [threads[t] EXCEPT !.pc = "pop"])
  /\ UNCHANGED <<workerUnchanged, rpc_queue, answers>>

\* Faulty variant: a thread told to end while it waits for a request drops it.
PopAndTest(t) ==
  /\ threads[t].pc = "pop" /\ rpc_queue # <<>>
  /\ rpc_queue' = Tail(rpc_queue)
  /\ SetThread(t, IF threads[t].status = "kTerminating" THEN NoThread
                  ELSE [threads[t] EXCEPT !.pc = "handle", !.req = Head(rpc_queue)])
  /\ UNCHANGED <<workerUnchanged, answers>>

Pop(t) ==
  /\ threads[t].pc = "pop" /\ rpc_queue # <<>>
  /\ rpc_queue' = Tail(rpc_queue)
  /\ SetThread(t, [threads[t] EXCEPT !.pc = "handle", !.req = Head(rpc_queue)])
  /\ UNCHANGED <<workerUnchanged, answers>>

PopTimeout(t) ==
  /\ threads[t].pc = "pop" /\ rpc_queue = <<>>
  /\ SetThread(t, [threads[t] EXCEPT !.pc = "loop"])
  /\ UNCHANGED <<workerUnchanged, rpc_queue, answers>>

\* Faulty variant: rpc_instance lives on into the next round.
HandleKeeps(t) ==
  /\ threads[t].pc = "handle"
  /\ Respond(threads[t].req, ServiceAnswer(requests[threads[t].req]))
  /\ SetThread(t, [threads[t] EXCEPT !.pc = "loop"])
  /\ UNCHANGED <<workerUnchanged, rpc_queue>>

Handle(t) ==
  /\ threads[t].pc = "handle"
  /\ Respond(threads[t].req, ServiceAnswer(requests[threads[t].req]))
  /\ SetThread(t, [threads[t] EXCEPT !.pc = "loop", !.req = 0])
  /\ UNCHANGED <<workerUnchanged, rpc_queue>>

Worker(t) == TestStatus(t) \/ Pop(t) \/ PopTimeout(t) \/ Handle(t)

-----------------------------------------------------------------------------
(* executor_threads_adjust, every second once it is attached.               *)

\* The copy of conf_ under conf_lock_, and the assertion.
AdjustBegin ==
  /\ attached /\ adjusting = <<>>
  /\ adjusting' = <<conf>>
  /\ assert_ok' = (assert_ok /\ conf.step > 0)
  /\ UNCHANGED <<phase, registered, service_conf, conf, attached, updating, updates,
                 offered, workVars, crashed>>

\* Faulty variant: the hard limit is not applied.
ExpectUncapped(c, queueSize) ==
  c.number + IF queueSize > c.step THEN queueSize \div c.step ELSE 0

ExpectThread(c, queueSize) ==
  LET expect == c.number + IF queueSize > c.step THEN queueSize \div c.step ELSE 0
  IN  IF expect > c.hard THEN c.hard ELSE expect

Live == {t \in Tids : threads[t].status \in {"kSuspend", "kRunning"}}

\* ThreadPool::resize_threads: n threads are to go on, new ones run at once, the
\* others are told to end, whatever they are doing.  (New ones get the first free
\* slots: slots are names.)
resize_threads(n) ==
  \E S \in SUBSET Tids :
    /\ Cardinality(S) = n
    /\ S \subseteq Live \/ Live \subseteq S
    /\ \A t \in S \ Live : threads[t].status = "kDead"
                         /\ \A u \in Tids \ S : threads[u].status = "kDead" => u > t
    /\ threads' = [t \in Tids |->
                     CASE t \in S \ Live -> NewThread("kRunning")
                       [] t \in Live \ S -> [threads[t] EXCEPT !.status = "kTerminating"]
                       [] OTHER -> threads[t]]

\* Faulty variant: the threads are only resized when the log says so.
AdjustEndLogged ==
  /\ adjusting # <<>> /\ (adjusting[1].step > 0 \/ rpc_queue = <<>>)
  /\ adjusting' = <<>>
  /\ LET expect == ExpectThread(adjusting[1], Len(rpc_queue)) IN
     IF expect # adjusting[1].number THEN resize_threads(expect) ELSE UNCHANGED threads
  /\ UNCHANGED <<phase, registered, service_conf, conf, attached, updating, updates,
                 offered, requests, rpc_queue, answers, assert_ok, crashed>>

\* The size of the queue is looked at now; a step of 0 divides by zero unless the
\* queue is empty.
AdjustEnd ==
  /\ adjusting # <<>>
  /\ adjusting' = <<>>
  /\ \/ /\ adjusting[1].step = 0 /\ rpc_queue # <<>>
        /\ crashed' = TRUE
        /\ UNCHANGED threads
     \/ /\ adjusting[1].step > 0 \/ rpc_queue = <<>>
        /\ resize_threads(ExpectThread(adjusting[1], Len(rpc_queue)))
        /\ UNCHANGED crashed
  /\ UNCHANGED <<phase, registered, service_conf, conf, attached, updating, updates,
                 offered, requests, rpc_queue, answers, assert_ok>>

-----------------------------------------------------------------------------
(* Dispatcher::module_runtime, for the one Executor.  Updates come one after *)
(* the other; one that has no entry for the service returns -1 and changes   *)
(* nothing.                                                                  *)

\* XtraTaskService::module_runtime.
RuntimeConf ==
  /\ phase = "serving" /\ registered /\ ~updating
  /\ updates < MaxUpdates /\ updates' = updates + 1
  /\ \E s \in RuntimeSettings : \E c \in ReadConf(s) :
       /\ service_conf' = IF handle_rpc_service_conf(c) = 0 THEN c ELSE service_conf
       /\ updating' = (RuntimeReturn(c) = 0)
       /\ offered' = IF Correct(c) THEN Append(offered, c) ELSE offered
  /\ UNCHANGED <<phase, registered, conf, attached, adjusting, workVars, assert_ok,
                 crashed>>

\* Executor::module_runtime, after a return of 0.
CopyConf ==
  /\ updating
  /\ conf' = service_conf /\ updating' = FALSE
  /\ UNCHANGED <<phase, registered, service_conf, attached, adjusting, updates,
                 offered, workVars, assert_ok, crashed>>

-----------------------------------------------------------------------------
Init ==
  /\ phase = "service" /\ registered = FALSE
  /\ service_conf = ZeroConf /\ conf = ZeroConf
  /\ attached = FALSE /\ adjusting = <<>> /\ updating = FALSE /\ updates = 0
  /\ requests = <<>> /\ rpc_queue = <<>>
  /\ threads = [t \in Tids |-> NoThread]
  /\ assert_ok = TRUE /\ crashed = FALSE
  /\ answers = [n \in Ids |-> <<>>] /\ offered = <<>>

Next ==
  /\ ~crashed
  /\ \/ XtraTaskInit \/ register_service \/ DispatcherInit
     \/ \E r \in UNION {Range(w) : w \in Workloads} : handle_RPC(r)
     \/ \E t \in Tids : Worker(t)
     \/ AdjustBegin \/ AdjustEnd
     \/ RuntimeConf \/ CopyConf

Spec == Init /\ [][Next]_vars

\* The process goes on: start-up, each thread of the pool (a service's sleep ends),
\* the timer, and an update that has begun.
Fairness ==
  /\ WF_vars(~crashed /\ (XtraTaskInit \/ register_service \/ DispatcherInit))
  /\ \A t \in Tids : WF_vars(~crashed /\ Worker(t))
  /\ WF_vars(~crashed /\ (AdjustBegin \/ AdjustEnd))
  /\ WF_vars(~crashed /\ CopyConf)

FairSpec == Spec /\ Fairness

-----------------------------------------------------------------------------
\* A worker holds a request while it handles one, and only then.
TypeOK ==
  /\ phase \in {"service", "register", "dispatcher", "serving", "exited"}
  /\ registered \in BOOLEAN /\ attached \in BOOLEAN /\ updating \in BOOLEAN
  /\ service_conf \in ExecutorConf /\ conf \in ExecutorConf
  /\ adjusting \in Seq(ExecutorConf) /\ Len(adjusting) <= 1 /\ updates \in 0..MaxUpdates
  /\ requests \in Seq(Requests) /\ Len(requests) <= MaxRequests
  /\ rpc_queue \in Seq(Ids)
  /\ threads \in [Tids -> Threads]
  /\ \A t \in Tids : threads[t].pc = "handle" <=> threads[t].req # 0
  /\ assert_ok \in BOOLEAN /\ crashed \in BOOLEAN
  /\ answers \in [Ids -> Seq(Abstract!Answers)]
  /\ offered \in Seq(ExecutorConf)

\* Where request n is: the places in the queue, the workers, the answers.
Places(n) ==
  {<<"queue", i>> : i \in {i \in 1..Len(rpc_queue) : rpc_queue[i] = n}}
    \cup {<<"worker", t>> : t \in {t \in Tids : threads[t].req = n}}
    \cup {<<"answer", i>> : i \in 1..Len(answers[n])}

\* However the pool shrinks and grows meanwhile, a request that was received is in
\* one place, never lost and never taken twice: in the queue, with one worker
\* (which may have been told to end), or answered, once.
Conserved == \A n \in 1..Len(requests) : \E p \in Places(n) : Places(n) = {p}

\* The service answers every request at most once, with the answer it calls for.
ImplementsRpcService == Abstract!Spec

\* Although it is read into memory nobody has initialised and the functions that
\* refuse it do not say so, the configuration in force is correct, also the copy
\* the timer works with; only at the start may one that was refused leave zeroes,
\* which the timer never sees.
ConfCorrect ==
  /\ phase \in {"dispatcher", "serving"} => Correct(conf) \/ conf = ZeroConf
  /\ adjusting # <<>> => Correct(adjusting[1])

\* Two copies are kept of the configuration; when no update is under way, the one
\* the Executor uses is the last correct one that was offered, and it still is
\* after one that was refused.
LastCorrectInForce ==
  phase \in {"dispatcher", "serving"} /\ ~updating => conf = Last(offered)

\* The pool is as large as some configuration offered so far allows.
PoolBounded ==
  phase = "serving" /\ registered =>
    \E c, d \in Range(offered) : Cardinality(Live) \in c.number..d.hard

\* An assertion fails, and a division by zero follows, in two cases only: the first
\* configuration was refused, or a pool that is adjusted is told at run time that
\* its step is 0.
AssertJustified ==
  ~assert_ok =>
    \/ offered[1] = ZeroConf
    \/ /\ offered[1].step > 0
       /\ \E i \in 2..Len(offered) : offered[i].step = 0

\* Every request is answered, unless the first configuration was refused, in which
\* case there is no thread, or the process has crashed.
AllServed ==
  \A n \in Ids :
    n <= Len(requests) /\ offered[1] # ZeroConf ~> answers[n] # <<>> \/ crashed

\* Once the queue is empty again, a pool that is adjusted goes back to the size of
\* the configuration in force.
PoolConverges ==
  <>[](attached /\ ~crashed => Cardinality(Live) = conf.number)
=============================================================================
