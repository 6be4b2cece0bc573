# A TLA+ model of tzrpc

tzrpc is an RPC framework in C++ over boost::asio: a server that accepts TCP
connections, cuts the byte stream into messages, dispatches each message to a
service and sends the response back, and a client library that makes
synchronous and asynchronous calls. This directory specifies the parts of it
that threads, timers and partial reads make hard to test, checks them with TLC
and proves with TLAPS every invariant that the passing runs check. All paths below are
relative to the root of the repository.

    tlc -config <run>.cfg <MC module>      # one run; PROJECT.json lists them
    tlapm <module>.tla                     # one module of proofs

## 1. Inventory

| Component | State | Operations | Talks to |
|---|---|---|---|
| **Message, Buffer** (`source/Core`) | a byte container; a header of magic, version, length in network order | append, consume, front_erase, net_str | both connections |
| **Server connection** `Network/TcpConnAsync` over `NetConn` | `conn_stat_`, `was_cancelled_`, the socket, `recv_bound_` and `send_bound_` (a Buffer and one fixed `io_block_` each), `send_status_`, `ops_cancel_timer_` | start, do_read, read_handler, do_read_msg, read_msg_handler, async_send_message, do_write, write_handler, handle_socket_ec, ops_cancel, sock_shutdown_and_close, ops_cancel_timeout_call | hands requests to the Dispatcher; gets responses from executor threads; reads NetConf |
| **NetServer, NetConf** | `conf_` (limits, address list), `service_token_`, `timed_feed_token_`, `current_concurrency_` | load_conf, accept_handler, get_service_token, feed_service_token, timed_feed_token_handler, module_runtime | makes connections; is called by roo::Setting when the configuration changes |
| **RpcInstance, Dispatcher, Executor** (`source/RPC`) | a request with a weak reference to its connection; services by id; per service a queue, a pool of threads and a copy of its configuration | register_service, init, handle_RPC, validate_request, reply_rpc_message, reject, executor_service_run, executor_threads_adjust, module_runtime | between connection and services |
| **Synchronous client** `Client/RpcClientImpl`, `TcpConnSync` | `conn_sync_`, `call_mutex_`, `rpc_call_timer_`, `was_timeout_` | call_RPC, set_rpc_call_timeout, rpc_call_timeout, send_net_message, recv_net_message | a server |
| **Asynchronous client** `Client/RpcClientImpl`, `TcpConnAsync` | `conn_async_`, the timer and `was_timeout_` as above; a connection like the server's, without a timer | call_RPC without a respload, read and write chains, async_recv_wrapper, rpc_call_timeout | a server; calls the application's handler |
| **Demo service** `XtraTaskService` | its configuration | init, handle_RPC, module_runtime, handle_rpc_service_conf | the Executor |
| **Captain, main, setup** | the singletons | init, joinall; SIGHUP updates the configuration | everything |

What is hard here:

* *Several threads on one connection.* Read and write handlers are serialised by
  a strand, but executor threads call `async_send_message` directly, the
  operation timer's callback is not wrapped in the strand, and `send_status_`,
  `conn_stat_` and `was_cancelled_` are tested without a lock.
* *Framing.* A read may bring any number of bytes, a body may be empty, longer
  than the block or partly buffered behind the header.
* *Timers that cannot be revoked.* A callback that is queued runs, whatever
  `cancel` says afterwards: the server's operation timer, the token timer, the
  client's call timer.
* *Configuration changes* while everything runs, mostly without a lock; two copies
  of the executor's configuration; failures told as `-1` from functions that return
  a `bool`; a configuration read into memory that is not initialised.
* *A pool that is resized* while its threads wait for requests or handle them.
* *Lifetimes.* A connection lives as long as some handler holds a reference; a
  leak keeps `current_concurrency_` up and locks clients out.

The properties that make each part correct:

* connection, receiving: exactly the payloads sent, in order, whatever the cuts;
  always one read outstanding; nothing but a bad header closes the connection;
* connection, sending: no response waits for ever; responses go out whole;
* connection, closing: a connection given up is closed and released;
* admission: at most so many connections and so many tokens a second, and tokens
  come back; `conf_` never holds a value `load_conf` would have refused;
* dispatch and execution: a request is answered at most once, with the answer it
  calls for, and none is lost when threads come and go; the last correct
  configuration is the one in force, and the pool follows it;
* synchronous client: a call gets its own response and a call with a time-out
  returns;
* asynchronous client: the handler gets every response once, with its status; no
  request waits for a write nobody will make; every accepted call comes to an end.

`PROJECT.json` lists every hazard at its line with the properties aimed at it.

## 2. Modules

    Buffer
      BufferProofs             lemmas: messages in a stream, buffers, io_block_
      TcpConnAsync             server connection, threads, timer, peer
        MCTcpConnAsync           inputs for TLC
        TcpConnAsyncControl      proofs: threads, socket, operations (over BufferProofs)
          TcpConnAsyncFraming      proofs: framing, types
            TcpConnAsyncWire         proofs: what closes it, responses on the wire
    NetServer                  admission, speed limit, configuration changes
      MCNetServer                configurations for TLC
      NetServerProofs
    RpcClientSync              synchronous calls, their timer, the connection
      MCRpcClientSync            calls for TLC
      RpcClientSyncProofs
    RpcClientAsync             asynchronous calls, over Buffer
      MCRpcClientAsync           calls for TLC
      RpcClientAsyncProofs       (over BufferProofs)
    RpcService                 what a server promises (abstract)
      Executor                   start-up, Dispatcher, pool, configuration, service;
                                 implements RpcService
        MCExecutor                 requests and configurations for TLC
        ExecutorProofs

Operators named `...Lax`, `...Never`, `...Full` and so on, each under a comment
"Faulty variant", are bugs one could make in the definition that follows them.
No specification uses them; they serve to test that the properties would notice.

### Buffer and TcpConnAsync

A byte is `<<m, i>>`: byte `i` of message `m` on the network. Bytes are thus
never equal by accident, and the properties see every loss, duplication or
overwriting. `Decode` gives the header back from a byte string only when that
string is the header of one message, byte by byte.

Variables carry the names of the members (`conn_stat` for `conn_stat_`, and so
on). `read_op` is the outstanding `async_read`, `write_ops` the outstanding
`async_write`s (the code should have at most one; the model does not assume it),
`write_done` their completions waiting for the strand. `delivered`, `appended`
and `wire` are history. `pc` says where the strand, the timer thread and every
executor thread is. The strand runs one handler at a time; a handler is split
where another thread may observe or disturb it:

* `do_read` and `do_read_msg` test the connection, then arm (`ArmHead`,
  `ArmBody`): the socket may be closed in between;
* `do_write` tests `send_status_`, `conn_stat_` and `was_cancelled_` without the
  lock (`DoWriteTest`), then works under `bound_mutex_` (`DoWriteLocked`);
* giving up is `ops_cancel`, then `sock_shutdown_and_close`.

Every other handler is one action, the calls it makes included.

External and modelled from use: `async_read` completes with any number of bytes
from what it needs to a block; `async_write` sends any number of bytes at a time
and reads `io_block_` *when it sends*; cancel and close complete what is
outstanding with `operation_aborted`; an expired timer's callback is queued and
runs whatever happens to the timer. The peer sends the
requests of an input in `Pipelined` at will, those of any other input one after the
other, each when the responses before it have come, and may go away (`PeerMayFail`).

### NetServer

`accept_handler` is one thread, for `do_accept` is its last statement. Any
number of `Feeders` run `timed_feed_token_handler`, since every wait has a
handler; `module_runtime` runs in the configuration's thread. They share `conf_`
and the timer without a lock, so each read and each write of a shared member is
a step: `service_token_ = service_token_ - 1` is `ReadToken`, `TakeToken`. Waits
are counted: `fresh` began in the current second, `due` earlier (only those may
expire), `queued` have completed. `fed` and `granted` count within a second. A
dereference of the null `timed_feed_token_` sets `crashed` and ends the behaviour.
Connections are a number; `TcpConnAsync` says what each does. `LoadOK` has every check
of `load_conf`; the settings that only it looks at are one flag, `rest_ok`.

### RpcClientSync

Threads make calls on one client under `call_mutex_`; the timer thread runs
`rpc_call_timeout`, which takes no lock, in two steps. Requests and responses are
whole messages. The server answers as RpcInstance does: a response to a served
request carries service and opcode, a rejection neither. A kind of call says what
will become of it (`oversize`, `served`, `INVALID_...`, `huge`, `silent`).

### RpcClientAsync

One caller at a time, since `call_mutex_` is held for the whole call; its steps are
`Call` (the connection, with its first read), `set_rpc_call_timeout`,
`send_net_message`, the two halves of `do_write`, and what follows a failure. `conns`
keeps every connection ever made: one that the client lets go of lives on as long as
a handler refers to it, and goes on reading. Each has its strand, with the same split
of `do_write` as at the server; `do_read` and `do_read_msg` are one step each, because
closing the socket in between only makes the read fail. `called` is what the
application's handler was called with. The bytes are those of `Buffer`, so that
responses are cut into reads in every way; the server answers the requests it has got
whole, in any order.

`rpc_call_timeout` is two steps, without a lock: `was_timeout_`, then the closing of
whichever `conn_async_` there is by then; if there is none, `crashed`.

### RpcService and Executor

`RpcService` is the abstract specification: requests come in, and each may be
answered once, with `Due(r, available)`, the answer that a request of that shape calls
for from a server that has, or has not, the service. It knows no queue, thread or
configuration. `Executor` implements it (`ImplementsRpcService`); the refinement
mapping sends `available` to `registered` and leaves `requests` and `answers` alone.
The two ways of saying what a request gets are written down separately: `Due` in one
table, the code's in `validate_request`, `handle_RPC`, `ServiceAnswer` and
`read_ops_impl`.

`Executor` begins in `Captain::init`: `XtraTaskInit` reads the configuration,
`register_service` makes the Executor (which may fail without anybody being told),
`DispatcherInit` starts the threads. A configuration is read into an `ExecutorConf`
that nobody has initialised, so what is not configured is any value of `Garbage`
(`ReadConf`). `handle_rpc_service_conf` returns `-1` from a `bool` function: at the
start a refused configuration counts as a success and leaves zeroes; at run time
`RuntimeReturn` makes 1 of a failure and 0 of a success, which is what
`Executor::module_runtime` tests for. `offered` is history: the correct
configurations seen so far.

A thread of the pool is a slot with a status and a point in `executor_service_run`.
`executor_threads_adjust` copies `conf_` under its lock (`AdjustBegin`) and later looks
at the queue and resizes (`AdjustEnd`); updates and workers move in between.
External, from use: `roo::ThreadPool::resize_threads` lets some of the threads go on,
tells the others to end and does not wait for them, or makes new ones that run;
updates come one after the other.

## 3. Runs

| Run | Property | Result |
|---|---|---|
| `serving` | `TypeOK`, `FramingCorrect`, `CloseJustified`, `WireIntact`, `AllDelivered`, `AllAnswered` | hold |
| `closing` | `NoLostWakeup`, `Flushed`, `OneReadChain`, `GivenUpIsClosed`, `Released` | hold |
| `admission` | `TypeOK`, `TokenInRange`, `ExcessAtMostOne`, `SpeedLimit`, `NullTimerJustified`, `OneFeedChain`, `TokensReturn` | hold |
| `calling` | `NoCrossTalk`, `TimedCallsReturn` | hold |
| `async` | `TypeOK`, `HandlerCorrect`, `OneReadChain`, `NoLostWakeup`, `LetGoIsClosed`, `AcceptedSettles` | hold |
| `executing` | `TypeOK`, `Conserved`, `ConfCorrect`, `LastCorrectInForce`, `PoolBounded`, `AssertJustified`, `ImplementsRpcService`, `AllServed`, `PoolConverges` | hold |
| `wire_race` | `WireIntact` | **violated** |
| `concurrency` | `ConcurrencyLimit` | **violated** |
| `respeed` | `SpeedLimit` | **violated** |
| `late_timer` | `TimerIsOwn` | **violated** |
| `status` | `StatusPassedOn` | **violated** |
| `async_silent` | `AcceptedIsHandled` | **violated** |

### What holds

* **serving**: all sequences of one to three requests out of six kinds (bodies
  empty, below, equal to and above a block, above `recv_max_msg_size`, bad magic),
  read in every way. A request whose last byte has arrived is delivered: no read
  asks for bytes already in the buffer. These requests come without waiting and are
  answered by the strand. And a client that waits for each response, of one block at
  most, while two workers and the strand answer. All responses arrive, whole, once and
  in order.
* **closing**: responses sent by a worker and by the strand at once. A thread that
  finds a write outstanding leaves its response in the buffer; that write's handler
  always comes back for it. Meanwhile the operation timer, a peer that goes away
  and a bad header close the connection in every interleaving, with the time-out
  switched on and off. Whoever gives up, the socket gets closed, and all references
  go away.
* **admission**: with limits that change, a speed limit from the start, switched on
  or off, configurations refused. The token count may be read, overwritten by a
  feed and stored back; it stays in range. It does reach -1 (a feed stores a speed
  of 0 between `get_service_token`'s test and its decrement), but the test `<= 0`
  still refuses that, so it is no hole. The limit of connections is
  exceeded by one (see `concurrency`); `ExcessAtMostOne` says that it is never two,
  also when limits change between the test and the count. When the speed limit is lifted,
  `module_runtime` resets the timer between a feed handler's test of
  `service_speed_` and its use of the timer, which is then null; `NullTimerJustified`
  says that nothing else a first update does leads there.
* **calling**: two threads, two calls of any kinds, a timer that strikes between
  any two statements. No call reads another's response; every call with a
  time-out that waits for a response returns.
* **async**: two or three calls, among them one whose response spans blocks, one whose
  response is refused, a rejection, one that is never answered and one too long to
  send. The handler gets each response of a connection once, in the order they came,
  with the status that the server sent (which the synchronous client loses, see
  `status`). A request too long to send makes the client let go of a healthy
  connection without closing it; `LetGoIsClosed` says that no other failure does.
  `AcceptedSettles`: a call that was accepted is handled, or its connection is closed
  or let go of; a time-out is never lost, although a later timed call revokes the
  timer, because a response does not cancel it.
* **executing**: one request of each kind, and three at once on a pool that grows from
  one thread to two and back, while configurations that are right, wrong, incomplete
  or have a step of 0 arrive. No request is lost with a thread that is told to end:
  `executor_service_run` tests its status before it takes a request, never after.
  Although refusals are reported the wrong way round, the two mistakes cancel out
  (`LastCorrectInForce`), except at the start: a refused first configuration leaves a
  registered service without a thread, whose requests are never answered (`AllServed`
  excludes this case by name). A step of 0 is accepted at run time, as its comment
  wishes ("no dynamic adjusting"), but the timer goes on: the assertion fails, and a
  division by zero follows when the queue is not empty. `AssertJustified` says that
  these are the only two ways.

### What does not hold

Each is an entry of `findings` in PROJECT.json with the line it contradicts.

* **wire_race**: a response of two blocks, to a client that waits for the response
  before. `write_handler` (for the write just completed) and the worker that has
  appended the response both see `kDone` in `do_write`. The one writes the first
  block, the other copies the second into `io_block_` while the first `async_write`
  still has to send from it (when the socket does not take everything at once).
* **concurrency**: `accept_handler` refuses a client when `service_concurrency_ <
  current_concurrency_`, and the new connection is counted after that. With a limit of
  1 a second client gets in; in general one more than what `tzrpc_example.conf` calls
  the maximum.
* **respeed**: `timed_feed_token_handler` does not look at its error code. A
  changed speed leaves two feed chains, each of whose `expires_from_now` aborts
  the other's wait and so runs its handler at once: tokens are fed without pause.
* **late_timer**: `call_RPC` does not cancel its timer when it
  returns. Later the timer closes the connection under another call, which reports
  `RPC_CALL_TIMEOUT` without a time-out of its own, or dereferences the `conn_sync_`
  that a failed call has reset (`crashed` in the model, reached in `calling`).
* **status**: `RpcInstance::reject` fills in no service and opcode, and `call_RPC`
  compares these before the status: `INVALID_SERVICE` and `INVALID_REQUEST` arrive
  as `RECV_FORMAT_ERROR`.
* **async_silent**: the handler of an asynchronous call is only ever called with a
  response. When the time-out, or the server, closes the connection, the calls
  accepted on it are never reported to the application.

Three further flaws are in the model, stated here and not checked by a run of their
own. `ops_cancel_time_out` set to 0 at run time while a timer is armed makes the next
`set_ops_cancel_timeout` fail `SAFE_ASSERT(!ops_cancel_timer_)`, and set to 0 between
that function's two reads of it fails the second assertion (`assert_ok` in
`TcpConnAsync`). The one timer of a server connection serves the read and the write:
`write_handler` revokes it, and the read that is outstanding is not timed any more. And
the null timer described under `admission`.

### Bounds, and why they are enough

* `HeaderLen` 1 or 2 and `BlockLen` 2 or 3 for 16 and 2048 bytes: what matters is
  that a header can be split, a block holds more than a header, and bodies lie
  below, at and above one and two blocks. In `async` the header is one byte; that a
  split header does no harm there is shown by the proof. The proofs are for all lengths.
* Two workers at most: the races are between pairs (worker and worker, worker and
  strand, strand and timer). Three requests at most: one being read, one being
  answered, one waiting. Where timers run, two requests and one worker; the safety
  properties checked there are proved for any number.
* `MaxUpdates` 1 (after a second change of speed `SpeedLimit` fails as in
  `respeed`; what is proved for any number is in section 4), `MaxFeeds` per second 3
  (6 in `respeed`, so that runaway feeding exceeds the limit), `MaxConns` 4 (above every
  configured limit plus one). `MaxCalls` 2: a call and the one its timer strikes.
* `RpcClientAsync`: two calls of five kinds each, three where a timer outlives its
  call. `Executor`: `Limit` 2 for 100 threads, three slots (two threads that are to go
  on and one that is ending), three requests (more than one thread and a step of 1
  hold), two updates (one to correct or to spoil the other), `Garbage` one value that
  would be accepted and one that would not. The safety properties of both are proved
  for all values.
* Not bounded: the number of timer expiries, of changes of the time-out, and of
  seconds; those state spaces are finite by themselves.
* Symmetry is not used, because most runs check liveness.

### Fairness

Weak fairness for the handlers of the strand, of the timer thread and of every
executor thread: io_service and executor threads never block outside the locks
that the model has. Weak fairness for a read whose data has arrived and for a
write: the peer reads what it is sent. In NetServer, time goes by, an armed timer
expires, and its handlers and `module_runtime` run. In the client, the caller's
thread and the timer run; nothing is assumed of the server, which may never
answer. In `RpcClientAsync` one weak fairness for all that happens by itself stands
for one of each part: the number of calls is bounded and every step of the client,
the network and the timer uses something up, so a behaviour that never stops moving
runs out of steps; the server is assumed to answer the requests that are not of the
silent kind. In `Executor`, start-up goes on, each thread of the pool runs and a
service's sleep ends, the timer strikes every second, and an update that has begun is
completed. Never assumed: that a peer fails, that an operation timer expires, that
the configuration changes, that a client connects, or strong fairness of a lock.

Deadlock is not checked: a connection that has been released or whose peer sends
nothing more, a client that has made its calls, and a process that has crashed may
stop. That nobody waits for ever is what the liveness properties say.

## 4. Proofs

Every invariant of the passing runs, and the refinement of `RpcService`, is a theorem.
The theorems are for every value of the constants that satisfies the assumptions: any
number of threads, requests, calls and feeders, any lengths, limits and configurations.
Five have a condition of their own, given in the last column.

| Theorem | Module | Property | Provided that |
|---|---|---|---|
| `WakeupSafe` | TcpConnAsyncControl | `NoLostWakeup` | |
| `ReadChainSafe` | TcpConnAsyncControl | `OneReadChain` | |
| `CloseSafe` | TcpConnAsyncControl | `GivenUpIsClosed` | |
| `FramingSafe`, `TypeSafe` | TcpConnAsyncFraming | `FramingCorrect`, `TypeOK` | |
| `CloseJustifiedSafe` | TcpConnAsyncWire | `CloseJustified` | `TimeOuts = {0}`, no `PeerMayFail` |
| `WireSafe` | TcpConnAsyncWire | `WireIntact` | `Pipelined = {}`, `OneBlock` |
| `TokenSafe`, `ConnsSafe`, `TypeSafe` | NetServerProofs | `TokenInRange`, `ExcessAtMostOne`, `TypeOK` | |
| `NullTimerSafe` | NetServerProofs | `NullTimerJustified` | |
| `FixedNeverNull` | NetServerProofs | `~crashed` | `Fixed` |
| `FeedChainSafe`, `SpeedLimitSafe` | NetServerProofs | `OneFeedChain`, `SpeedLimit` | `OneLimit(s)` |
| `CrossTalkSafe`, `TypeSafe` | RpcClientSyncProofs | `NoCrossTalk`, `TypeOK` | |
| `AsyncHandlerCorrect` | RpcClientAsyncProofs | `HandlerCorrect` | |
| `AsyncReadChain`, `AsyncNoLostWakeup` | RpcClientAsyncProofs | `OneReadChain`, `NoLostWakeup` | |
| `AsyncLetGo`, `AsyncTypeCorrect` | RpcClientAsyncProofs | `LetGoIsClosed`, `TypeOK` | |
| `ExecutorRefines` | ExecutorProofs | `ImplementsRpcService` | |
| `RequestsConserved` | ExecutorProofs | `Conserved` | |
| `ConfigurationCorrect`, `ConfigurationCurrent` | ExecutorProofs | `ConfCorrect`, `LastCorrectInForce` | |
| `PoolSafe` | ExecutorProofs | `PoolBounded` | |
| `AssertionJustified`, `ExecutorTypes` | ExecutorProofs | `AssertJustified`, `TypeOK` | |

The conditions are those of the runs, without their bounds, and each rules out a flaw
that a run exhibits, or an event that the property is not about:

* `CloseJustified` says what closes a connection besides time-outs and failures.
  `TimeOuts = {0}` is `ops_cancel_time_out` switched off, as in `serving`.
* `WireIntact` needs a client that waits for its responses and responses of one block
  at most: with two blocks it is refuted (`wire_race`). The time-outs are
  not excluded. A peer that goes away is: `ConnAssumption` has it only where all inputs
  are in `Pipelined`, so the run `closing` covers it, for the properties checked there.
* `OneLimit(s)`: there is one speed limit `s` among the configurations, and either there
  is one update at most, which may set or lift it, or (`Fixed`) all configurations that
  load have the same speed; then there may be any number of updates of all the rest. A
  limit that is replaced by another one is refuted (`respeed`); one that is lifted and
  set again leaves the same two chains.

**ControlInv** joins the types to the facts that make the three properties
inductive: each thread is at points of its own code; before `start` nobody else
knows the connection; `send_status_` is `kSend` on a working connection only
while a write is out or completed (without it, a thread that gives up at
`do_write`'s test could be the last one); operations are aborted only on a
connection that is given up (without it, an aborted read would end the read chain
of a working connection, since `handle_socket_ec` ignores an abort it has not
caused); the lengths tested by `do_read` still hold when the read is armed.

**FrameInv** says where in the stream the receiver stands: the buffer holds the
stream from the end of the requests delivered (past the header, inside a body) to
the last byte read, and `recv_header` is that of the request being read. Lemmas
say what `parse_header` and `parse_msg_body` do to such a buffer. Together with
`ControlInv` it yields `FramingCorrect` and the rest of `TypeOK`, which holds that
no read or write ever reaches beyond `io_block_`.

**TcpConnAsyncWire** adds two invariants to these. `CloseInv`: while the socket is open
nothing has failed, and once the strand decides to close it the request behind the last
one delivered has a bad header. `WireInv`: what is on the wire and what is left of the
one outstanding write, or is buffered, are together what was appended (or a write was
aborted, and nothing follows it); nothing is buffered behind a write; one request at most
is without its response, and while there is one, all the responses before it are on the
wire. The last part is what a client that waits contributes (`Waits`), and without it
nothing would be inductive: `send_status_` is tested without the lock, so a thread may
enter `do_write` while a write is out; it then finds the buffer empty.

**BufferProofs** is where the sequences are. `FlattenSeq`, which makes a stream of
messages, is a recursive function; what it computes is proved by induction over its
length (`SetInduction`: a set of numbers that holds 0 and with each number the next one
holds them all, from the library's well-foundedness of `<`). `FlattenParts` says at which
offset a message lies and which bytes are there, `HoldsPart` and its lemmas what a buffer
holds after reading, consuming and taking from the front, `BlockStep`, `PartStep` and `AddPart`
that the outstanding writes stay within `io_block_`. The server's connection and the
asynchronous client share them.

**NetServerProofs**: `TokenInv` bounds not only `token` but also the values that
the feeders and the acceptor have read and not yet stored, and says that a value
read by the acceptor after its test is at least 0. `ConnsInv` bounds the count by
the limit plus one, and by the limit once the test has passed. `TimerInv` says where
the timer is there: with a limit, always, except while `module_runtime` has stored the
first limit and not yet made the timer, when nothing is under way that could miss it;
and before the first change of speed, no limit means nothing under way at all.
`ChainInv` counts the feeds under way: one, except where the limit is being set, when
there is none; from it follows `FedInv`, that a second feed in the same second would need
a second chain, and from that `GrantInv`: tokens taken, tokens there, and the one the
acceptor is about to take are together at most `s` before the second's feed and `2s`
after it. The acceptor's read and its store are the hard part: a feed in between is
overwritten, and the bound must hold for `token_read` as for `token`.

**RpcClientSyncProofs**: `MutexInv` (one call at a time is past the lock),
`CallInv` (calls in the range made, each caller's own) and `ConnInv`: everything
pending or in the inbox of a connection that still works belongs to the one call
that waits for it. This is what a failed call's `conn_sync_.reset()` is for.

**RpcClientAsyncProofs**: the inductive invariant `AsyncInv` speaks of each connection the
client ever made. `ReadInv` is `FrameInv` of the server with the server's answers in place
of the requests: the buffer holds the stream of answers from the end of the last one
handled to the last byte read, the header consumed is that of the next; and a working
connection reads. `WriteInv` says that `send_status_` is `kSend` on a working connection
only while a write is out or its handler is to come, and that nothing is buffered that
nobody will write; the caller's own `do_write` counts for the connection in use only.
`GivesUpClosed` is what makes `LetGoIsClosed` inductive: a call that fails has a closed
connection or a request too long to send. Most steps replace one connection's record and
leave the others and the caller alone; they are proved once for a record (`PutInv` and the
lemmas after it), and only the caller's steps and the timer's look at `conn`.

**ExecutorProofs** has three inductive invariants. `ConfInv` relates the two copies of
the configuration to `offered` in every phase of start-up and of an update: without an
update under way both are the last one offered; during one the service is ahead by one;
the adjust timer is only there when the first one had a step, and works with correct
ones only. `WorkInv` says where a request is: the
queue holds no request twice, no two workers hold the same one, a request in the queue
or with a worker is valid, was sent to a service that is registered, and has not been
answered; any other has been answered, once, as `Due` says. From both follows that
every step of `Next` is a step of `RpcService` or leaves its variables alone. `PoolInv`
adds that the copy of the configuration the timer works with was offered, however many
updates have come since, and that the number of threads that go on is within what was
offered; `ExpectWithin` is the arithmetic of `executor_threads_adjust`.

Assumptions. `HeaderLenAssumption`, `ConnAssumption`, `InputAssumption`,
`ConfAssumption`, `CallAssumption`, `AsyncAssumption` and `ExecutorAssumption` say what
the constants are. Two parts of them come from the code: a block holds at least a header, and a request with an
empty body is rejected (`RpcRequestMessage` cannot be read from it).

Only model-checked are the liveness properties (`AllDelivered`, `AllAnswered`, `Flushed`,
`Released`, `TokensReturn`, `TimedCallsReturn`, `AcceptedSettles`, `AllServed`,
`PoolConverges`): they rest on fairness, and TLAPS does not reason about `ENABLED`. What
does not hold (section 3) is shown by TLC's counterexamples.

## 5. What the model leaves out

* Memory is sequentially consistent: members that the code shares without a lock
  are read and written in one piece and in program order.
* A failed `SAFE_ASSERT` is recorded and does not end the process.
* The handler of a timer wait that was cancelled in time does nothing, and the
  reference it holds until it runs is not counted by `Alive`.
* `expires_from_now` followed by `async_wait` on the token timer is one step.
* The synchronous client's connection is at the level of messages; its blocking
  reads take a message whole. A blocking read that the timer interrupts is `RecvFails`.
* The end of a client: the asynchronous connection holds its `RpcClientImpl`, so
  `~RpcClientImpl` does not run while there is one. `RpcClient::init` only copies
  settings.
* In `Executor`, an answer is handed to the connection; whether that is still there
  (`full_socket_`) and how it sends is in `TcpConnAsync`. `rpc.services` holding
  entries of other services, which are skipped.
* The signal handler in which updates run, and what it may interrupt (`setup.cpp`).
* Logging, statistics and `module_status`; `TcpConnAsync::stop`, which has no
  caller; `withdraw_service_token`, `executor_stop_graceful`, `executor_join`,
  `Captain::service_graceful` and `service_terminate`, which have none either; start-up
  before the registration of the service (log, settings, listening socket), which
  succeeds or ends the process. Tests and benchmarks are programs that use the client.

## 6. Plan

1. An abstract specification of in-order delivery that the receiving half of
   `TcpConnAsync` implements, from `FrameInv`, and that of `RpcClientAsync` from `ReadInv`.
2. How far the condition `OneBlock` of `WireSafe` can be relaxed.

Noted and not pursued: `NetConf::load_conf` splits `safe_ip` at `;`
(`source/Network/NetServer.cpp:41`), `tzrpc_example.conf:21` says a comma. At
run time the service looks for its configuration under `rpc_services`, at the start
under `rpc.services` (`source/Protocol/ServiceImpl/XtraTaskService.cpp:105` and `:24`);
with `tzrpc_example.conf` an update never finds it.
