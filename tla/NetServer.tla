----------------------------- MODULE NetServer -----------------------------
(***************************************************************************)
(* Admission control of the server: Network/NetServer.cpp with NetConf.    *)
(*                                                                         *)
(*   the acceptor   one accept_handler at a time, for do_accept is its     *)
(*                  last statement;                                        *)
(*   Feeders        the io_service threads running timed_feed_token_handler*)
(*                  (several may: every wait has its own handler);         *)
(*   module_runtime the thread of roo::Setting that applies a new          *)
(*                  configuration.                                         *)
(*                                                                         *)
(* They share conf_ and the steady_timer timed_feed_token_ without a lock  *)
(* (only safe_ip_ has one), so each access to them is a step of its own.   *)
(* Connections are counted only: TcpConnAsync specifies them.              *)
(*                                                                         *)
(* The timer is external (boost::asio): destroying it or calling           *)
(* expires_from_now makes its waits complete at once, with an error code   *)
(* that timed_feed_token_handler never looks at.                           *)
(***************************************************************************)
EXTENDS Integers, FiniteSets

CONSTANTS
  Ips,            \* addresses of clients
  Blank,          \* an empty or blank entry of the configured address list
  Feeders,        \* io_service threads that run timed_feed_token_handler
  InitConfs,      \* configurations the server may start with
  NewConfs,       \* configurations it may be given at run time
  MaxUpdates,     \* bound: updates of the configuration
  MaxFeeds,       \* bound: feeds in one second
  MaxConns        \* bound: a client connects only below this many connections

\* A configuration file.  rest_ok stands for the settings that only load_conf
\* looks at: a bind_addr, a positive bind_port, and no negative backlog_size,
\* io_thread_pool_size or session_cancel_time_out.
Config == [service_enable : BOOLEAN, service_speed : Int,
           service_concurrency : Int, safe_ip : SUBSET (Ips \cup {Blank}),
           ops_cancel_time_out : Int, send_max_msg_size : Int,
           recv_max_msg_size : Int, rest_ok : BOOLEAN]

\* A limit on the size of a message: none, or longer than 32 bytes.
MsgSizes == {n \in Int : n # 0 => n > 32}

\* What conf_ holds once load_conf has checked it.
Loaded == [service_enable : BOOLEAN, service_speed : Nat,
           service_concurrency : Nat, safe_ip : SUBSET Ips,
           ops_cancel_time_out : Nat, send_max_msg_size : MsgSizes,
           recv_max_msg_size : MsgSizes, rest_ok : {TRUE}]

AllConfs == InitConfs \cup NewConfs

ASSUME ConfAssumption ==
  /\ AllConfs \subseteq Config /\ InitConfs # {}
  /\ Blank \notin Ips /\ IsFiniteSet(Feeders)
  /\ MaxUpdates \in Nat /\ MaxConns \in Nat /\ MaxFeeds \in Nat

VARIABLES
  conf,        \* conf_
  token,       \* conf_.service_token_
  timer,       \* conf_.timed_feed_token_ is not null
  fresh,       \* waits on the timer that began in this second
  due,         \* waits on the timer that began earlier
  queued,      \* completed waits whose handler has not begun
  feeding,     \* where each feeder is
  speed_read,  \* service_speed_ as each feeder has read it
  accepting,   \* where accept_handler is
  token_read,  \* service_token_ as get_service_token has read it
  conns,       \* TcpConnAsync::current_concurrency_
  updating,    \* where module_runtime is
  newconf,     \* the configuration it applies
  updates,     \* how many it was given
  crashed,     \* a null timed_feed_token_ was dereferenced
  fed,         \* history: feeds in this second
  granted      \* history: tokens taken in this second

timerVars == <<timer, fresh, due, queued>>
feedVars == <<feeding, speed_read>>
acceptVars == <<accepting, token_read, conns>>
updateVars == <<updating, newconf, updates>>
history == <<fed, granted>>
vars == <<conf, token, timerVars, feedVars, acceptVars, updateVars, crashed,
          history>>

\* Faulty variant: negative speeds and limits are let through.
LoadOKLax(c) ==
  /\ c.rest_ok /\ c.ops_cancel_time_out >= 0
  /\ c.send_max_msg_size # 0 => c.send_max_msg_size > 32
  /\ c.recv_max_msg_size # 0 => c.recv_max_msg_size > 32

\* NetConf::load_conf: what it accepts.
LoadOK(c) ==
  /\ c.rest_ok /\ c.ops_cancel_time_out >= 0
  /\ c.service_speed >= 0 /\ c.service_concurrency >= 0
  /\ c.send_max_msg_size # 0 => c.send_max_msg_size > 32
  /\ c.recv_max_msg_size # 0 => c.recv_max_msg_size > 32

\* NetConf::load_conf: what it stores; blank addresses are left out.
load_conf(c) == [c EXCEPT !.safe_ip = @ \ {Blank}]

-----------------------------------------------------------------------------
(* The feed timer.                                                          *)

\* reset, cancel and expires_from_now complete every wait.
AbortWaits ==
  /\ queued' = queued + fresh + due
  /\ fresh' = 0 /\ due' = 0

\* timed_feed_token_->expires_from_now and ->async_wait.
StartWait ==
  IF timer
  THEN /\ queued' = queued + fresh + due
       /\ fresh' = 1 /\ due' = 0
       /\ UNCHANGED <<timer, crashed>>
  ELSE /\ crashed' = TRUE
       /\ UNCHANGED timerVars

\* A second goes by.
Second ==
  /\ ~crashed /\ fresh' = 0 /\ due' = due + fresh
  /\ fed' = 0 /\ granted' = 0
  /\ UNCHANGED <<conf, token, timer, queued, feedVars, acceptVars, updateVars,
                 crashed>>

\* The timer expires, in a later second than the wait began in.
Expire ==
  /\ ~crashed /\ due > 0
  /\ queued' = queued + due /\ due' = 0
  /\ UNCHANGED <<conf, token, timer, fresh, feedVars, acceptVars, updateVars,
                 crashed, history>>

\* timed_feed_token_handler begins: it tests service_speed_.
BeginFeed(f) ==
  /\ ~crashed /\ feeding[f] = "idle" /\ queued > 0
  /\ queued' = queued - 1
  /\ feeding' = [feeding EXCEPT ![f] =
                   IF conf.service_speed = 0 THEN "drop" ELSE "read"]
  /\ UNCHANGED <<conf, token, timer, fresh, due, speed_read, acceptVars,
                 updateVars, crashed, history>>

\* No speed limit: timed_feed_token_.reset().
DropTimer(f) ==
  /\ ~crashed /\ feeding[f] = "drop"
  /\ feeding' = [feeding EXCEPT ![f] = "idle"]
  /\ timer' = FALSE /\ AbortWaits
  /\ UNCHANGED <<conf, token, speed_read, acceptVars, updateVars, crashed,
                 history>>

\* feed_service_token reads service_speed_ ...
ReadSpeed(f) ==
  /\ ~crashed /\ feeding[f] = "read"
  /\ feeding' = [feeding EXCEPT ![f] = "feed"]
  /\ speed_read' = [speed_read EXCEPT ![f] = conf.service_speed]
  /\ UNCHANGED <<conf, token, timerVars, acceptVars, updateVars, crashed, history>>

\* Faulty variant: the token is not restored.
FeedNothing(f) ==
  /\ ~crashed /\ feeding[f] = "feed" /\ fed < MaxFeeds
  /\ feeding' = [feeding EXCEPT ![f] = "wait"]
  /\ fed' = fed + 1
  /\ UNCHANGED <<conf, token, timerVars, speed_read, acceptVars, updateVars,
                 crashed, granted>>

\* ... and stores it in service_token_.
feed_service_token(f) ==
  /\ ~crashed /\ feeding[f] = "feed" /\ fed < MaxFeeds
  /\ feeding' = [feeding EXCEPT ![f] = "wait"]
  /\ token' = speed_read[f]
  /\ fed' = fed + 1
  /\ UNCHANGED <<conf, timerVars, speed_read, acceptVars, updateVars, crashed,
                 granted>>

\* The handler starts the timer again.
WaitAgain(f) ==
  /\ ~crashed /\ feeding[f] = "wait"
  /\ feeding' = [feeding EXCEPT ![f] = "idle"]
  /\ StartWait
  /\ UNCHANGED <<conf, token, speed_read, acceptVars, updateVars, history>>

-----------------------------------------------------------------------------
(* accept_handler.                                                          *)

GoAccept(l) == accepting' = l

\* NetConf::check_safe_ip, under lock_.
check_safe_ip(ip) == conf.safe_ip = {} \/ ip \in conf.safe_ip

\* The handler runs: the accept or remote_endpoint failed, or a client with
\* this address is tested; then do_accept, or on to the token.
Accept(ip) ==
  /\ ~crashed /\ accepting = "listen" /\ conns < MaxConns
  /\ GoAccept(IF check_safe_ip(ip) THEN "enabled" ELSE "do_accept")
  /\ UNCHANGED <<conf, token, timerVars, feedVars, token_read, conns, updateVars,
                 crashed, history>>

AcceptFails ==
  /\ ~crashed /\ accepting = "listen"
  /\ GoAccept("do_accept")
  /\ UNCHANGED <<conf, token, timerVars, feedVars, token_read, conns, updateVars,
                 crashed, history>>

\* get_service_token: service_enabled_ and service_speed_.
TestEnabled ==
  /\ ~crashed /\ accepting = "enabled"
  /\ GoAccept(CASE ~conf.service_enable -> "do_accept"
                [] conf.service_enable /\ conf.service_speed = 0 -> "limit"
                [] OTHER -> "token")
  /\ UNCHANGED <<conf, token, timerVars, feedVars, token_read, conns, updateVars,
                 crashed, history>>

\* Faulty variant: a token is taken although there is none.
TestTokenNever ==
  /\ ~crashed /\ accepting = "token"
  /\ GoAccept("read")
  /\ UNCHANGED <<conf, token, timerVars, feedVars, token_read, conns, updateVars,
                 crashed, history>>

\* get_service_token: if (service_token_ <= 0).
TestToken ==
  /\ ~crashed /\ accepting = "token"
  /\ GoAccept(IF token <= 0 THEN "do_accept" ELSE "read")
  /\ UNCHANGED <<conf, token, timerVars, feedVars, token_read, conns, updateVars,
                 crashed, history>>

\* get_service_token: service_token_ = service_token_ - 1, the read ...
ReadToken ==
  /\ ~crashed /\ accepting = "read"
  /\ GoAccept("take")
  /\ token_read' = token
  /\ UNCHANGED <<conf, token, timerVars, feedVars, conns, updateVars, crashed,
                 history>>

\* Faulty variant: the token is not stored.
TakeNoToken ==
  /\ ~crashed /\ accepting = "take"
  /\ GoAccept("limit")
  /\ granted' = granted + 1
  /\ UNCHANGED <<conf, token, timerVars, feedVars, token_read, conns, updateVars,
                 crashed, fed>>

\* ... and the store.
TakeToken ==
  /\ ~crashed /\ accepting = "take"
  /\ GoAccept("limit")
  /\ token' = token_read - 1
  /\ granted' = granted + 1
  /\ UNCHANGED <<conf, timerVars, feedVars, token_read, conns, updateVars,
                 crashed, fed>>

\* Faulty variant: compares with the limit plus one.
TestLimitLax ==
  /\ ~crashed /\ accepting = "limit"
  /\ GoAccept(IF conf.service_concurrency # 0
                 /\ conf.service_concurrency + 1 < conns
              THEN "do_accept" ELSE "connect")
  /\ UNCHANGED <<conf, token, timerVars, feedVars, token_read, conns, updateVars,
                 crashed, history>>

\* The test of service_concurrency_; the token is not given back.
TestLimit ==
  /\ ~crashed /\ accepting = "limit"
  /\ GoAccept(IF conf.service_concurrency # 0 /\ conf.service_concurrency < conns
              THEN "do_accept" ELSE "connect")
  /\ UNCHANGED <<conf, token, timerVars, feedVars, token_read, conns, updateVars,
                 crashed, history>>

\* The connection is made and started.
Connect ==
  /\ ~crashed /\ accepting = "connect"
  /\ GoAccept("do_accept")
  /\ conns' = conns + 1
  /\ UNCHANGED <<conf, token, timerVars, feedVars, token_read, updateVars, crashed,
                 history>>

do_accept ==
  /\ ~crashed /\ accepting = "do_accept"
  /\ GoAccept("listen")
  /\ UNCHANGED <<conf, token, timerVars, feedVars, token_read, conns, updateVars,
                 crashed, history>>

\* ~TcpConnAsync, on whichever thread lets go of a connection.
Release ==
  /\ ~crashed /\ conns > 0 /\ conns' = conns - 1
  /\ UNCHANGED <<conf, token, timerVars, feedVars, accepting, token_read,
                 updateVars, crashed, history>>

-----------------------------------------------------------------------------
(* module_runtime.                                                          *)

GoUpdate(l) == updating' = l

\* A new configuration; one that does not load changes nothing.
Update(c) ==
  /\ ~crashed /\ updating = "idle" /\ updates < MaxUpdates
  /\ updates' = updates + 1
  /\ newconf' = load_conf(c)
  /\ GoUpdate(IF LoadOK(c) THEN "copy" ELSE "idle")
  /\ UNCHANGED <<conf, token, timerVars, feedVars, acceptVars, crashed, history>>

\* The time-outs, and safe_ip_ under lock_.
CopySafeIp ==
  /\ ~crashed /\ updating = "copy"
  /\ GoUpdate("speed")
  /\ conf' = [conf EXCEPT !.safe_ip = newconf.safe_ip,
                          !.ops_cancel_time_out = newconf.ops_cancel_time_out]
  /\ UNCHANGED <<token, timerVars, feedVars, acceptVars, newconf, updates, crashed,
                 history>>

\* Faulty variant: the timer is replaced although the speed is the same.
CopySpeedAlways ==
  /\ ~crashed /\ updating = "speed"
  /\ conf' = [conf EXCEPT !.service_speed = newconf.service_speed]
  /\ GoUpdate(IF newconf.service_speed # 0 THEN "new timer" ELSE "no timer")
  /\ UNCHANGED <<token, timerVars, feedVars, acceptVars, newconf, updates, crashed,
                 history>>

\* service_speed_; the timer follows when it has changed.
CopySpeed ==
  /\ ~crashed /\ updating = "speed"
  /\ conf' = [conf EXCEPT !.service_speed = newconf.service_speed]
  /\ GoUpdate(CASE newconf.service_speed = conf.service_speed -> "limit"
                [] newconf.service_speed # conf.service_speed
                   /\ newconf.service_speed # 0 -> "new timer"
                [] OTHER -> "no timer")
  /\ UNCHANGED <<token, timerVars, feedVars, acceptVars, newconf, updates, crashed,
                 history>>

\* Faulty variant: the wait begins before the timer is there.
NewTimerLate ==
  /\ ~crashed /\ updating = "new timer"
  /\ GoUpdate("wait")
  /\ AbortWaits
  /\ UNCHANGED <<conf, token, timer, feedVars, acceptVars, newconf, updates, crashed,
                 history>>

\* timed_feed_token_.reset(new steady_timer): the old one is destroyed.
NewTimer ==
  /\ ~crashed /\ updating = "new timer"
  /\ GoUpdate("wait")
  /\ timer' = TRUE /\ AbortWaits
  /\ UNCHANGED <<conf, token, feedVars, acceptVars, newconf, updates, crashed,
                 history>>

FirstWait ==
  /\ ~crashed /\ updating = "wait"
  /\ GoUpdate("limit")
  /\ StartWait
  /\ UNCHANGED <<conf, token, feedVars, acceptVars, newconf, updates, history>>

\* cancel and reset, if there is a timer.
NoTimer ==
  /\ ~crashed /\ updating = "no timer"
  /\ GoUpdate("limit")
  /\ timer' = FALSE /\ AbortWaits
  /\ UNCHANGED <<conf, token, feedVars, acceptVars, newconf, updates, crashed,
                 history>>

CopyLimit ==
  /\ ~crashed /\ updating = "limit"
  /\ GoUpdate("idle")
  /\ conf' = [conf EXCEPT !.service_concurrency = newconf.service_concurrency]
  /\ UNCHANGED <<token, timerVars, feedVars, acceptVars, newconf, updates, crashed,
                 history>>

-----------------------------------------------------------------------------
\* NetServer::init with a configuration that loads, and service(): do_accept
\* has been called and the timer is waiting if there is a speed limit.
Init ==
  /\ \E c \in InitConfs : LoadOK(c) /\ conf = load_conf(c)
  /\ token = 0
  /\ timer = (conf.service_speed # 0)
  /\ fresh = (IF timer THEN 1 ELSE 0) /\ due = 0 /\ queued = 0
  /\ feeding = [f \in Feeders |-> "idle"] /\ speed_read = [f \in Feeders |-> 0]
  /\ accepting = "listen" /\ token_read = 0 /\ conns = 0
  /\ updating = "idle" /\ newconf = conf /\ updates = 0
  /\ crashed = FALSE /\ fed = 0 /\ granted = 0

FeedStep(f) ==
  BeginFeed(f) \/ DropTimer(f) \/ ReadSpeed(f) \/ feed_service_token(f) \/ WaitAgain(f)

AcceptStep ==
  \/ TestEnabled \/ TestToken \/ ReadToken \/ TakeToken \/ TestLimit
  \/ Connect \/ do_accept

UpdateStep ==
  \/ CopySafeIp \/ CopySpeed \/ NewTimer \/ FirstWait \/ NoTimer \/ CopyLimit

Next ==
  \/ Second \/ Expire \/ Release \/ AcceptFails \/ AcceptStep \/ UpdateStep
  \/ \E f \in Feeders : FeedStep(f)
  \/ \E ip \in Ips : Accept(ip)
  \/ \E c \in NewConfs : Update(c)

Spec == Init /\ [][Next]_vars

\* Time goes by, timers expire and the threads keep running.
Fairness ==
  /\ WF_vars(Second) /\ WF_vars(Expire)
  /\ WF_vars(UpdateStep)
  /\ \A f \in Feeders : WF_vars(FeedStep(f))

FairSpec == Spec /\ Fairness

-----------------------------------------------------------------------------
ConfTypeOK ==
  /\ conf \in Loaded /\ newconf \in Config
  /\ updating # "idle" => newconf \in Loaded
  /\ updating \in {"idle", "copy", "speed", "new timer", "wait", "no timer",
                   "limit"}
  /\ updates \in 0..MaxUpdates

FlagTypeOK == timer \in BOOLEAN /\ crashed \in BOOLEAN

CountTypeOK ==
  /\ fresh \in Nat /\ due \in Nat /\ queued \in Nat
  /\ fed \in Nat /\ granted \in Nat /\ conns \in Nat

TokenTypeOK ==
  /\ token \in Int /\ token_read \in Int /\ speed_read \in [Feeders -> Int]
  /\ feeding \in [Feeders -> {"idle", "drop", "read", "feed", "wait"}]
  /\ accepting \in {"listen", "enabled", "token", "read", "take", "limit",
                    "connect", "do_accept"}

\* conf_ only ever holds what load_conf has checked; the counters are not
\* negative.
TypeOK == ConfTypeOK /\ FlagTypeOK /\ CountTypeOK /\ TokenTypeOK

\* The unlocked token count stays in range: it is never above a configured
\* speed, and below zero by one at most (a feed that stores a speed of zero
\* between the test of the token and its taking), which the test <= 0 of
\* get_service_token still refuses.
TokenInRange ==
  /\ token >= -1
  /\ \E c \in AllConfs : token <= c.service_speed

\* Every configuration limits the number of connections.
Limited == \A c \in AllConfs : c.service_concurrency # 0

\* tzrpc_example.conf, service_concurrency: when the number of connections is
\* limited by every configuration, there are never more than a configured limit.
\* The code does not keep this: accept_handler refuses only when the limit is
\* below the count, and the new connection is counted after the test.
ConcurrencyLimit ==
  Limited => \E c \in AllConfs : conns <= c.service_concurrency

\* What accept_handler keeps of it: the excess does not grow beyond that one
\* connection, however connections are made and released and whatever limits
\* replace each other between the test and the count.
ExcessAtMostOne ==
  Limited => \E c \in AllConfs : conns - 1 <= c.service_concurrency

\* tzrpc_example.conf, service_speed: in a second no more connections get a
\* token than the limit allows, twice the speed: what was left in the second
\* before and one feed.
SpeedLimit == \E c \in AllConfs : granted <= 2 * c.service_speed

\* A first update makes a handler use a timed_feed_token_ that is null only by
\* lifting the speed limit (module_runtime resets the timer between the handler's
\* test of service_speed_ and its use of the timer); a change of the limit, and the
\* first limit, do not.
NullTimerJustified == crashed /\ updates <= 1 => conf.service_speed = 0

\* With a speed limit there is one feed under way: a wait on the timer, a
\* completed wait or a handler that runs, and never two that would feed twice a
\* second, nor none (outside the steps of module_runtime that replace the timer).
OneFeedChain ==
  conf.service_speed # 0 /\ updating \notin {"new timer", "wait"} =>
    fresh + due + queued + Cardinality({f \in Feeders : feeding[f] # "idle"}) = 1

\* A speed limit never locks the clients out: tokens come back, unless the limit
\* is lifted (or a null timed_feed_token_ used on the way, see NullTimerJustified).
TokensReturn ==
  (conf.service_speed # 0 /\ token <= 0) ~>
    (token > 0 \/ conf.service_speed = 0 \/ crashed)
=============================================================================
