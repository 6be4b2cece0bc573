-------------------------- MODULE NetServerProofs --------------------------
(***************************************************************************)
(* What holds of the admission control for every set of configurations,    *)
(* every number of feeders and every order of their steps: the types, the  *)
(* range of the unlocked token count, the bound on the connections and who *)
(* may meet a null timer; and, for a server with one speed limit, the one  *)
(* chain of feeds and the tokens a second may see.                         *)
(***************************************************************************)
EXTENDS NetServer, FiniteSetTheorems, TLAPS

\* Some configuration has at least this speed.
Allowed(x) == \E c \in AllConfs : x <= c.service_speed

\* Some configuration has at least this limit.
Within(x) == \E c \in AllConfs : x <= c.service_concurrency

\* conf_ and the configuration being applied hold speeds and limits of
\* configurations that were given.
ConfInv ==
  /\ Allowed(conf.service_speed) /\ (Limited => Within(conf.service_concurrency))
  /\ Limited => conf.service_concurrency # 0
  /\ updating # "idle" =>
       /\ Allowed(newconf.service_speed)
       /\ Limited => /\ Within(newconf.service_concurrency)
                     /\ newconf.service_concurrency # 0

\* What the feeders and the acceptor carry from one step to the next.  Between
\* the test of the token and its taking, only a feed stores one.
TokenInv ==
  /\ token >= -1 /\ Allowed(token)
  /\ accepting = "read" => token >= 0
  /\ accepting = "take" => token_read >= 0 /\ Allowed(token_read)
  /\ \A f \in Feeders :
       feeding[f] = "feed" => speed_read[f] >= 0 /\ Allowed(speed_read[f])

\* Between the test of the limit and the new connection the count only falls.
ConnsInv ==
  Limited => /\ accepting = "connect" => Within(conns)
             /\ Within(conns - 1)

Inv == TypeOK /\ ConfInv /\ TokenInv /\ ConnsInv

\* load_conf of a configuration that it accepts is a checked one with the same
\* speed and limit.
LEMMA LoadedConf ==
  ASSUME NEW c \in AllConfs, LoadOK(c)
  PROVE  /\ load_conf(c) \in Loaded /\ load_conf(c) \in Config
         /\ load_conf(c).service_speed = c.service_speed
         /\ load_conf(c).service_concurrency = c.service_concurrency
         /\ c.service_speed \in Nat /\ c.service_concurrency \in Nat
<1>1. c \in Config
  BY ConfAssumption
<1>2. /\ c.service_speed \in Nat /\ c.service_concurrency \in Nat
      /\ c.ops_cancel_time_out \in Nat /\ c.rest_ok = TRUE
      /\ c.send_max_msg_size \in MsgSizes /\ c.recv_max_msg_size \in MsgSizes
      /\ c.service_enable \in BOOLEAN /\ c.safe_ip \in SUBSET (Ips \cup {Blank})
  BY <1>1 DEF LoadOK, Config, MsgSizes
<1>3. c.safe_ip \ {Blank} \in SUBSET Ips
  BY <1>2
<1> QED
  BY <1>1, <1>2, <1>3 DEF load_conf, Config, Loaded

\* load_conf of any configuration is a configuration.
LEMMA LoadedType ==
  ASSUME NEW c \in AllConfs
  PROVE  load_conf(c) \in Config
<1>1. c \in Config
  BY ConfAssumption
<1> QED
  BY <1>1 DEF load_conf, Config

\* The server starts in the invariant (NetServer::init).
LEMMA InitInv == Init => Inv
<1> SUFFICES ASSUME Init PROVE Inv
  OBVIOUS
<1>1. PICK c \in InitConfs : LoadOK(c) /\ conf = load_conf(c)
  BY DEF Init
<1>2. c \in AllConfs
  BY DEF AllConfs
<1>3. /\ conf \in Loaded /\ conf \in Config
      /\ conf.service_speed = c.service_speed
      /\ conf.service_concurrency = c.service_concurrency
      /\ c.service_speed \in Nat /\ c.service_concurrency \in Nat
  BY <1>1, <1>2, LoadedConf
<1>4. TypeOK
  <2>1. ConfTypeOK
    BY <1>3, ConfAssumption DEF Init, ConfTypeOK
  <2>2. FlagTypeOK
    BY Zenon DEF Init, FlagTypeOK
  <2>3. CountTypeOK /\ TokenTypeOK
    BY DEF Init, CountTypeOK, TokenTypeOK
  <2> QED
    BY <2>1, <2>2, <2>3 DEF TypeOK
<1>5. ConfInv
  BY <1>2, <1>3 DEF Init, ConfInv, Allowed, Within, Limited
<1>6. TokenInv
  BY <1>2, <1>3 DEF Init, TokenInv, Allowed
<1>7. ConnsInv
  BY <1>2, <1>3 DEF Init, ConnsInv, Within
<1> QED
  BY <1>4, <1>5, <1>6, <1>7 DEF Inv

\* Second keeps the invariant.
LEMMA SecondStep ==
  ASSUME Inv, Second
  PROVE  Inv'
<1> USE DEF Second, timerVars, feedVars, acceptVars, updateVars, history
<1>1. CountTypeOK'
  BY DEF Inv, TypeOK, CountTypeOK
<1>2. ConfTypeOK' /\ FlagTypeOK' /\ TokenTypeOK'
  BY Zenon DEF Inv, TypeOK, ConfTypeOK, FlagTypeOK, TokenTypeOK
<1>3. ConfInv' /\ TokenInv' /\ ConnsInv'
  BY Zenon DEF Inv, ConfInv, TokenInv, ConnsInv
<1> QED
  BY <1>1, <1>2, <1>3 DEF Inv, TypeOK

\* Expire keeps the invariant.
LEMMA ExpireStep ==
  ASSUME Inv, Expire
  PROVE  Inv'
<1> USE DEF Expire, timerVars, feedVars, acceptVars, updateVars, history
<1>1. CountTypeOK'
  BY DEF Inv, TypeOK, CountTypeOK
<1>2. ConfTypeOK' /\ FlagTypeOK' /\ TokenTypeOK'
  BY Zenon DEF Inv, TypeOK, ConfTypeOK, FlagTypeOK, TokenTypeOK
<1>3. ConfInv' /\ TokenInv' /\ ConnsInv'
  BY Zenon DEF Inv, ConfInv, TokenInv, ConnsInv
<1> QED
  BY <1>1, <1>2, <1>3 DEF Inv, TypeOK

\* BeginFeed keeps the invariant.
LEMMA BeginFeedStep ==
  ASSUME Inv, NEW f \in Feeders, BeginFeed(f)
  PROVE  Inv'
<1> USE DEF BeginFeed, timerVars, feedVars, acceptVars, updateVars, history
<1>1. CountTypeOK'
  BY DEF Inv, TypeOK, CountTypeOK
<1>2. TokenTypeOK'
  BY DEF Inv, TypeOK, TokenTypeOK
<1>3. TokenInv'
  BY DEF Inv, TypeOK, TokenTypeOK, TokenInv, Allowed
<1>4. ConfTypeOK' /\ FlagTypeOK' /\ ConfInv' /\ ConnsInv'
  BY Zenon DEF Inv, TypeOK, ConfTypeOK, FlagTypeOK, ConfInv, ConnsInv
<1> QED
  BY <1>1, <1>2, <1>3, <1>4 DEF Inv, TypeOK

\* DropTimer keeps the invariant.
LEMMA DropTimerStep ==
  ASSUME Inv, NEW f \in Feeders, DropTimer(f)
  PROVE  Inv'
<1> USE DEF DropTimer, AbortWaits, timerVars, feedVars, acceptVars, updateVars, history
<1>1. FlagTypeOK'
  BY Zenon DEF Inv, TypeOK, FlagTypeOK
<1>2. CountTypeOK'
  BY DEF Inv, TypeOK, CountTypeOK
<1>3. TokenTypeOK'
  BY DEF Inv, TypeOK, TokenTypeOK
<1>4. TokenInv'
  BY DEF Inv, TypeOK, TokenTypeOK, TokenInv, Allowed
<1>5. ConfTypeOK' /\ ConfInv' /\ ConnsInv'
  BY Zenon DEF Inv, TypeOK, ConfTypeOK, ConfInv, ConnsInv
<1> QED
  BY <1>1, <1>2, <1>3, <1>4, <1>5 DEF Inv, TypeOK

\* ReadSpeed keeps the invariant.
LEMMA ReadSpeedStep ==
  ASSUME Inv, NEW f \in Feeders, ReadSpeed(f)
  PROVE  Inv'
<1> USE DEF ReadSpeed, timerVars, feedVars, acceptVars, updateVars, history
<1>0. conf.service_speed \in Nat /\ Allowed(conf.service_speed)
  BY DEF Inv, TypeOK, ConfTypeOK, Loaded, ConfInv
<1>1. TokenTypeOK'
  BY <1>0 DEF Inv, TypeOK, TokenTypeOK
<1>2. TokenInv'
  BY <1>0 DEF Inv, TypeOK, TokenTypeOK, TokenInv, Allowed
<1>3. ConfTypeOK' /\ FlagTypeOK' /\ CountTypeOK' /\ ConfInv' /\ ConnsInv'
  BY Zenon DEF Inv, TypeOK, ConfTypeOK, FlagTypeOK, CountTypeOK, ConfInv, ConnsInv
<1> QED
  BY <1>1, <1>2, <1>3 DEF Inv, TypeOK

\* feed_service_token keeps the invariant.
LEMMA Feed_service_tokenStep ==
  ASSUME Inv, NEW f \in Feeders, feed_service_token(f)
  PROVE  Inv'
<1> USE DEF feed_service_token, timerVars, feedVars, acceptVars, updateVars, history
<1>1. CountTypeOK'
  BY DEF Inv, TypeOK, CountTypeOK
<1>2. TokenTypeOK'
  BY DEF Inv, TypeOK, TokenTypeOK
<1>3. TokenInv'
  BY DEF Inv, TypeOK, TokenTypeOK, TokenInv, Allowed
<1>4. ConfTypeOK' /\ FlagTypeOK' /\ ConfInv' /\ ConnsInv'
  BY Zenon DEF Inv, TypeOK, ConfTypeOK, FlagTypeOK, ConfInv, ConnsInv
<1> QED
  BY <1>1, <1>2, <1>3, <1>4 DEF Inv, TypeOK

\* WaitAgain keeps the invariant.
LEMMA WaitAgainStep ==
  ASSUME Inv, NEW f \in Feeders, WaitAgain(f)
  PROVE  Inv'
<1> USE DEF WaitAgain, StartWait, timerVars, feedVars, acceptVars, updateVars, history
<1>1. FlagTypeOK'
  BY Zenon DEF Inv, TypeOK, FlagTypeOK
<1>2. CountTypeOK'
  BY DEF Inv, TypeOK, CountTypeOK
<1>3. TokenTypeOK'
  BY DEF Inv, TypeOK, TokenTypeOK
<1>4. TokenInv'
  BY DEF Inv, TypeOK, TokenTypeOK, TokenInv, Allowed
<1>5. ConfTypeOK' /\ ConfInv' /\ ConnsInv'
  BY Zenon DEF Inv, TypeOK, ConfTypeOK, ConfInv, ConnsInv
<1> QED
  BY <1>1, <1>2, <1>3, <1>4, <1>5 DEF Inv, TypeOK

\* Accept keeps the invariant.
LEMMA ClientStep ==
  ASSUME Inv, NEW ip \in Ips, Accept(ip)
  PROVE  Inv'
<1> USE DEF Accept, GoAccept, timerVars, feedVars, acceptVars, updateVars, history
<1>1. TokenTypeOK'
  BY DEF Inv, TypeOK, TokenTypeOK
<1>2. TokenInv'
  BY DEF Inv, TypeOK, TokenTypeOK, TokenInv, Allowed
<1>3. ConnsInv'
  BY DEF Inv, TypeOK, CountTypeOK, ConnsInv, Limited, Within
<1>4. ConfTypeOK' /\ FlagTypeOK' /\ CountTypeOK' /\ ConfInv'
  BY Zenon DEF Inv, TypeOK, ConfTypeOK, FlagTypeOK, CountTypeOK, ConfInv
<1> QED
  BY <1>1, <1>2, <1>3, <1>4 DEF Inv, TypeOK

\* AcceptFails keeps the invariant.
LEMMA AcceptFailsStep ==
  ASSUME Inv, AcceptFails
  PROVE  Inv'
<1> USE DEF AcceptFails, GoAccept, timerVars, feedVars, acceptVars, updateVars, history
<1>1. TokenTypeOK'
  BY DEF Inv, TypeOK, TokenTypeOK
<1>2. TokenInv'
  BY DEF Inv, TypeOK, TokenTypeOK, TokenInv, Allowed
<1>3. ConnsInv'
  BY DEF Inv, TypeOK, CountTypeOK, ConnsInv, Limited, Within
<1>4. ConfTypeOK' /\ FlagTypeOK' /\ CountTypeOK' /\ ConfInv'
  BY Zenon DEF Inv, TypeOK, ConfTypeOK, FlagTypeOK, CountTypeOK, ConfInv
<1> QED
  BY <1>1, <1>2, <1>3, <1>4 DEF Inv, TypeOK

\* TestEnabled keeps the invariant.
LEMMA TestEnabledStep ==
  ASSUME Inv, TestEnabled
  PROVE  Inv'
<1> USE DEF TestEnabled, GoAccept, timerVars, feedVars, acceptVars, updateVars, history
<1>1. TokenTypeOK'
  BY DEF Inv, TypeOK, TokenTypeOK
<1>2. TokenInv'
  BY DEF Inv, TypeOK, TokenTypeOK, TokenInv, Allowed
<1>3. ConnsInv'
  BY DEF Inv, TypeOK, CountTypeOK, ConnsInv, Limited, Within
<1>4. ConfTypeOK' /\ FlagTypeOK' /\ CountTypeOK' /\ ConfInv'
  BY Zenon DEF Inv, TypeOK, ConfTypeOK, FlagTypeOK, CountTypeOK, ConfInv
<1> QED
  BY <1>1, <1>2, <1>3, <1>4 DEF Inv, TypeOK

\* TestToken keeps the invariant.
LEMMA TestTokenStep ==
  ASSUME Inv, TestToken
  PROVE  Inv'
<1> USE DEF TestToken, GoAccept, timerVars, feedVars, acceptVars, updateVars, history
<1>1. TokenTypeOK'
  BY DEF Inv, TypeOK, TokenTypeOK
<1>2. TokenInv'
  BY DEF Inv, TypeOK, TokenTypeOK, TokenInv, Allowed
<1>3. ConnsInv'
  BY DEF Inv, TypeOK, CountTypeOK, ConnsInv, Limited, Within
<1>4. ConfTypeOK' /\ FlagTypeOK' /\ CountTypeOK' /\ ConfInv'
  BY Zenon DEF Inv, TypeOK, ConfTypeOK, FlagTypeOK, CountTypeOK, ConfInv
<1> QED
  BY <1>1, <1>2, <1>3, <1>4 DEF Inv, TypeOK

\* ReadToken keeps the invariant.
LEMMA ReadTokenStep ==
  ASSUME Inv, ReadToken
  PROVE  Inv'
<1> USE DEF ReadToken, GoAccept, timerVars, feedVars, acceptVars, updateVars, history
<1>1. TokenTypeOK'
  BY DEF Inv, TypeOK, TokenTypeOK
<1>2. TokenInv'
  BY DEF Inv, TypeOK, TokenTypeOK, TokenInv, Allowed
<1>3. ConnsInv'
  BY DEF Inv, TypeOK, CountTypeOK, ConnsInv, Limited, Within
<1>4. ConfTypeOK' /\ FlagTypeOK' /\ CountTypeOK' /\ ConfInv'
  BY Zenon DEF Inv, TypeOK, ConfTypeOK, FlagTypeOK, CountTypeOK, ConfInv
<1> QED
  BY <1>1, <1>2, <1>3, <1>4 DEF Inv, TypeOK

\* TakeToken keeps the invariant.
LEMMA TakeTokenStep ==
  ASSUME Inv, TakeToken
  PROVE  Inv'
<1> USE DEF TakeToken, GoAccept, timerVars, feedVars, acceptVars, updateVars, history
<1>0. /\ token' \in Int /\ token' >= -1 /\ Allowed(token')
      /\ accepting' = "limit"
  <2>1. PICK c \in AllConfs : token_read <= c.service_speed
    BY DEF Inv, TokenInv, Allowed
  <2>2. c.service_speed \in Int /\ token_read \in Int /\ token_read >= 0
    BY ConfAssumption DEF Inv, TypeOK, TokenTypeOK, TokenInv, Config
  <2>3. token' <= c.service_speed
    BY <2>1, <2>2
  <2> QED
    BY <2>2, <2>3 DEF Allowed
<1>1. CountTypeOK'
  BY DEF Inv, TypeOK, CountTypeOK
<1>2. TokenTypeOK'
  BY DEF Inv, TypeOK, TokenTypeOK
<1>3. TokenInv'
  BY <1>0 DEF Inv, TypeOK, TokenTypeOK, TokenInv, Allowed
<1>4. ConnsInv'
  BY DEF Inv, TypeOK, CountTypeOK, ConnsInv, Limited, Within
<1>5. ConfTypeOK' /\ FlagTypeOK' /\ ConfInv'
  BY Zenon DEF Inv, TypeOK, ConfTypeOK, FlagTypeOK, ConfInv
<1> QED
  BY <1>1, <1>2, <1>3, <1>4, <1>5 DEF Inv, TypeOK

\* TestLimit keeps the invariant.
LEMMA TestLimitStep ==
  ASSUME Inv, TestLimit
  PROVE  Inv'
<1> USE DEF TestLimit, GoAccept, timerVars, feedVars, acceptVars, updateVars, history
<1>0. Limited /\ accepting' = "connect" => Within(conns)
  <2> SUFFICES ASSUME Limited, accepting' = "connect" PROVE Within(conns)
    OBVIOUS
  <2>1. conf.service_concurrency \in Nat /\ conns \in Nat
    BY DEF Inv, TypeOK, ConfTypeOK, CountTypeOK, Loaded
  <2>2. conns <= conf.service_concurrency
    BY <2>1 DEF Inv, ConfInv
  <2>3. PICK c \in AllConfs : conf.service_concurrency <= c.service_concurrency
    BY DEF Inv, ConfInv, Within
  <2>4. c.service_concurrency \in Int
    BY ConfAssumption DEF Config
  <2> QED
    BY <2>1, <2>2, <2>3, <2>4 DEF Within
<1>1. TokenTypeOK'
  BY DEF Inv, TypeOK, TokenTypeOK
<1>2. TokenInv'
  BY DEF Inv, TypeOK, TokenTypeOK, TokenInv, Allowed
<1>3. ConnsInv'
  BY <1>0 DEF Inv, TypeOK, CountTypeOK, ConnsInv, Limited, Within
<1>4. ConfTypeOK' /\ FlagTypeOK' /\ CountTypeOK' /\ ConfInv'
  BY Zenon DEF Inv, TypeOK, ConfTypeOK, FlagTypeOK, CountTypeOK, ConfInv
<1> QED
  BY <1>1, <1>2, <1>3, <1>4 DEF Inv, TypeOK

\* Connect keeps the invariant.
LEMMA ConnectStep ==
  ASSUME Inv, Connect
  PROVE  Inv'
<1> USE DEF Connect, GoAccept, timerVars, feedVars, acceptVars, updateVars, history
<1>1. CountTypeOK'
  BY DEF Inv, TypeOK, CountTypeOK
<1>2. TokenTypeOK'
  BY DEF Inv, TypeOK, TokenTypeOK
<1>3. TokenInv'
  BY DEF Inv, TypeOK, TokenTypeOK, TokenInv, Allowed
<1>4. ConnsInv'
  BY DEF Inv, TypeOK, CountTypeOK, ConnsInv, Limited, Within
<1>5. ConfTypeOK' /\ FlagTypeOK' /\ ConfInv'
  BY Zenon DEF Inv, TypeOK, ConfTypeOK, FlagTypeOK, ConfInv
<1> QED
  BY <1>1, <1>2, <1>3, <1>4, <1>5 DEF Inv, TypeOK

\* do_accept keeps the invariant.
LEMMA Do_acceptStep ==
  ASSUME Inv, do_accept
  PROVE  Inv'
<1> USE DEF do_accept, GoAccept, timerVars, feedVars, acceptVars, updateVars, history
<1>1. TokenTypeOK'
  BY DEF Inv, TypeOK, TokenTypeOK
<1>2. TokenInv'
  BY DEF Inv, TypeOK, TokenTypeOK, TokenInv, Allowed
<1>3. ConnsInv'
  BY DEF Inv, TypeOK, CountTypeOK, ConnsInv, Limited, Within
<1>4. ConfTypeOK' /\ FlagTypeOK' /\ CountTypeOK' /\ ConfInv'
  BY Zenon DEF Inv, TypeOK, ConfTypeOK, FlagTypeOK, CountTypeOK, ConfInv
<1> QED
  BY <1>1, <1>2, <1>3, <1>4 DEF Inv, TypeOK

\* Release keeps the invariant.
LEMMA ReleaseStep ==
  ASSUME Inv, Release
  PROVE  Inv'
<1> USE DEF Release, timerVars, feedVars, acceptVars, updateVars, history
<1>0. \A x \in Int : Within(x) => Within(x - 1)
  <2> SUFFICES ASSUME NEW x \in Int, NEW c \in AllConfs, x <= c.service_concurrency
               PROVE  x - 1 <= c.service_concurrency
    BY DEF Within
  <2>1. c.service_concurrency \in Int
    BY ConfAssumption DEF Config
  <2> QED
    BY <2>1
<1>1. CountTypeOK'
  BY DEF Inv, TypeOK, CountTypeOK
<1>2. ConnsInv'
  <2>1. conns \in Nat /\ conns' = conns - 1 /\ accepting' = accepting
    BY DEF Inv, TypeOK, CountTypeOK
  <2>2. Limited => Within(conns - 1) /\ (accepting = "connect" => Within(conns))
    BY DEF Inv, ConnsInv
  <2> QED
    BY <1>0, <2>1, <2>2 DEF ConnsInv, Limited
<1>3. ConfTypeOK' /\ FlagTypeOK' /\ TokenTypeOK'
  BY Zenon DEF Inv, TypeOK, ConfTypeOK, FlagTypeOK, TokenTypeOK
<1>4. ConfInv' /\ TokenInv'
  BY Zenon DEF Inv, ConfInv, TokenInv
<1> QED
  BY <1>1, <1>2, <1>3, <1>4 DEF Inv, TypeOK

\* Update keeps the invariant.
LEMMA NewConfStep ==
  ASSUME Inv, NEW c \in NewConfs, Update(c)
  PROVE  Inv'
<1> USE DEF Update, GoUpdate, timerVars, feedVars, acceptVars, updateVars, history
<1>0. c \in AllConfs /\ load_conf(c) \in Config
  BY LoadedType DEF AllConfs
<1>a. updating' # "idle" =>
         /\ load_conf(c) \in Loaded
         /\ load_conf(c).service_speed = c.service_speed
         /\ load_conf(c).service_concurrency = c.service_concurrency
         /\ c.service_speed \in Nat /\ c.service_concurrency \in Nat
  BY <1>0, LoadedConf
<1>1. ConfTypeOK'
  BY <1>0, <1>a, ConfAssumption DEF Inv, TypeOK, ConfTypeOK
<1>2. ConfInv'
  BY <1>0, <1>a DEF Inv, TypeOK, ConfInv, Limited, Within, Allowed
<1>3. FlagTypeOK' /\ CountTypeOK' /\ TokenTypeOK' /\ TokenInv' /\ ConnsInv'
  BY Zenon DEF Inv, TypeOK, FlagTypeOK, CountTypeOK, TokenTypeOK, TokenInv, ConnsInv
<1> QED
  BY <1>1, <1>2, <1>3 DEF Inv, TypeOK

\* CopySafeIp keeps the invariant.
LEMMA CopySafeIpStep ==
  ASSUME Inv, CopySafeIp
  PROVE  Inv'
<1> USE DEF CopySafeIp, GoUpdate, timerVars, feedVars, acceptVars, updateVars, history
<1>1. ConfTypeOK'
  BY DEF Inv, TypeOK, ConfTypeOK, Loaded
<1>2. ConfInv'
  BY DEF Inv, TypeOK, ConfTypeOK, Loaded, ConfInv
<1>3. FlagTypeOK' /\ CountTypeOK' /\ TokenTypeOK' /\ TokenInv' /\ ConnsInv'
  BY Zenon DEF Inv, TypeOK, FlagTypeOK, CountTypeOK, TokenTypeOK, TokenInv, ConnsInv
<1> QED
  BY <1>1, <1>2, <1>3 DEF Inv, TypeOK

\* CopySpeed keeps the invariant.
LEMMA CopySpeedStep ==
  ASSUME Inv, CopySpeed
  PROVE  Inv'
<1> USE DEF CopySpeed, GoUpdate, timerVars, feedVars, acceptVars, updateVars, history
<1>1. ConfTypeOK'
  BY DEF Inv, TypeOK, ConfTypeOK, Loaded
<1>2. ConfInv'
  BY DEF Inv, TypeOK, ConfTypeOK, Loaded, ConfInv
<1>3. FlagTypeOK' /\ CountTypeOK' /\ TokenTypeOK' /\ TokenInv' /\ ConnsInv'
  BY Zenon DEF Inv, TypeOK, FlagTypeOK, CountTypeOK, TokenTypeOK, TokenInv, ConnsInv
<1> QED
  BY <1>1, <1>2, <1>3 DEF Inv, TypeOK

\* NewTimer keeps the invariant.
LEMMA NewTimerStep ==
  ASSUME Inv, NewTimer
  PROVE  Inv'
<1> USE DEF NewTimer, GoUpdate, AbortWaits, timerVars, feedVars, acceptVars, updateVars, history
<1>1. ConfTypeOK'
  BY DEF Inv, TypeOK, ConfTypeOK
<1>2. FlagTypeOK'
  BY Zenon DEF Inv, TypeOK, FlagTypeOK
<1>3. CountTypeOK'
  <2>1. /\ queued' = queued + fresh + due /\ fresh' = 0 /\ due' = 0
        /\ UNCHANGED <<fed, granted, conns>>
    BY Zenon
  <2> QED
    BY ONLY <2>1, Inv DEF Inv, TypeOK, CountTypeOK
<1>4. ConfInv'
  BY DEF Inv, TypeOK, ConfInv
<1>5. TokenTypeOK' /\ TokenInv' /\ ConnsInv'
  BY Zenon DEF Inv, TypeOK, TokenTypeOK, TokenInv, ConnsInv
<1> QED
  BY <1>1, <1>2, <1>3, <1>4, <1>5 DEF Inv, TypeOK

\* FirstWait keeps the invariant.
LEMMA FirstWaitStep ==
  ASSUME Inv, FirstWait
  PROVE  Inv'
<1> USE DEF FirstWait, GoUpdate, StartWait, timerVars, feedVars, acceptVars, updateVars, history
<1>1. ConfTypeOK'
  BY DEF Inv, TypeOK, ConfTypeOK
<1>2. FlagTypeOK'
  BY Zenon DEF Inv, TypeOK, FlagTypeOK
<1>3. CountTypeOK'
  BY DEF Inv, TypeOK, CountTypeOK
<1>4. ConfInv'
  BY DEF Inv, TypeOK, ConfInv
<1>5. TokenTypeOK' /\ TokenInv' /\ ConnsInv'
  BY Zenon DEF Inv, TypeOK, TokenTypeOK, TokenInv, ConnsInv
<1> QED
  BY <1>1, <1>2, <1>3, <1>4, <1>5 DEF Inv, TypeOK

\* NoTimer keeps the invariant.
LEMMA NoTimerStep ==
  ASSUME Inv, NoTimer
  PROVE  Inv'
<1> USE DEF NoTimer, GoUpdate, AbortWaits, timerVars, feedVars, acceptVars, updateVars, history
<1>1. ConfTypeOK'
  BY DEF Inv, TypeOK, ConfTypeOK
<1>2. FlagTypeOK'
  BY Zenon DEF Inv, TypeOK, FlagTypeOK
<1>3. CountTypeOK'
  <2>1. /\ queued' = queued + fresh + due /\ fresh' = 0 /\ due' = 0
        /\ UNCHANGED <<fed, granted, conns>>
    BY Zenon
  <2> QED
    BY ONLY <2>1, Inv DEF Inv, TypeOK, CountTypeOK
<1>4. ConfInv'
  BY DEF Inv, TypeOK, ConfInv
<1>5. TokenTypeOK' /\ TokenInv' /\ ConnsInv'
  BY Zenon DEF Inv, TypeOK, TokenTypeOK, TokenInv, ConnsInv
<1> QED
  BY <1>1, <1>2, <1>3, <1>4, <1>5 DEF Inv, TypeOK

\* CopyLimit keeps the invariant.
LEMMA CopyLimitStep ==
  ASSUME Inv, CopyLimit
  PROVE  Inv'
<1> USE DEF CopyLimit, GoUpdate, timerVars, feedVars, acceptVars, updateVars, history
<1>1. ConfTypeOK'
  BY DEF Inv, TypeOK, ConfTypeOK, Loaded
<1>2. ConfInv'
  BY DEF Inv, TypeOK, ConfTypeOK, Loaded, ConfInv
<1>3. FlagTypeOK' /\ CountTypeOK' /\ TokenTypeOK' /\ TokenInv' /\ ConnsInv'
  BY Zenon DEF Inv, TypeOK, FlagTypeOK, CountTypeOK, TokenTypeOK, TokenInv, ConnsInv
<1> QED
  BY <1>1, <1>2, <1>3 DEF Inv, TypeOK

\* Every step of the server keeps the invariant.
LEMMA NextInv == Inv /\ [Next]_vars => Inv'
<1> SUFFICES ASSUME Inv, [Next]_vars PROVE Inv'
  OBVIOUS
<1>1. CASE UNCHANGED vars
  <2> USE <1>1 DEF vars, timerVars, feedVars, acceptVars, updateVars, history
  <2>1. ConfTypeOK' /\ FlagTypeOK' /\ ConfInv'
    BY Zenon DEF Inv, TypeOK, ConfTypeOK, FlagTypeOK, ConfInv
  <2>2. CountTypeOK' /\ TokenTypeOK'
    BY Zenon DEF Inv, TypeOK, CountTypeOK, TokenTypeOK
  <2>3. TokenInv' /\ ConnsInv'
    BY Zenon DEF Inv, TokenInv, ConnsInv
  <2> QED
    BY <2>1, <2>2, <2>3 DEF Inv, TypeOK
<1>2. CASE AcceptStep
  BY <1>2, TestEnabledStep, TestTokenStep, ReadTokenStep, TakeTokenStep,
     TestLimitStep, ConnectStep, Do_acceptStep DEF AcceptStep
<1>3. CASE UpdateStep
  BY <1>3, CopySafeIpStep, CopySpeedStep, NewTimerStep, FirstWaitStep,
     NoTimerStep, CopyLimitStep DEF UpdateStep
<1>4. CASE \E f \in Feeders : FeedStep(f)
  BY <1>4, BeginFeedStep, DropTimerStep, ReadSpeedStep, Feed_service_tokenStep,
     WaitAgainStep DEF FeedStep
<1>5. CASE \/ Second \/ Expire \/ Release \/ AcceptFails
           \/ \E ip \in Ips : Accept(ip)
           \/ \E c \in NewConfs : Update(c)
  BY <1>5, SecondStep, ExpireStep, ReleaseStep, AcceptFailsStep, ClientStep,
     NewConfStep
<1> QED
  BY <1>1, <1>2, <1>3, <1>4, <1>5 DEF Next

\* The types: in particular conf_ never holds a value that load_conf refuses,
\* whenever module_runtime is interrupted.
THEOREM TypeSafe == Spec => []TypeOK
<1>1. Inv => TypeOK
  BY DEF Inv
<1> QED
  BY <1>1, InitInv, NextInv, PTL DEF Spec

\* The token count, read and written by accept_handler, the feed handlers and
\* (through service_speed_) module_runtime without a lock, stays in range.
THEOREM TokenSafe == Spec => []TokenInRange
<1>1. Inv => TokenInRange
  BY DEF Inv, TokenInv, TokenInRange, Allowed
<1> QED
  BY <1>1, InitInv, NextInv, PTL DEF Spec

\* accept_handler exceeds the limits by one connection at most, for any number of
\* updates (that it does exceed them is shown by TLC, see ConcurrencyLimit).
THEOREM ConnsSafe == Spec => []ExcessAtMostOne
<1>1. Inv => ExcessAtMostOne
  BY DEF Inv, ConnsInv, Within, ExcessAtMostOne
<1> QED
  BY <1>1, InitInv, NextInv, PTL DEF Spec

-----------------------------------------------------------------------------
(* The feed timer and the chain of feeds.                                   *)

\* No update changes the speed: the configurations that load have the same one.
Fixed ==
  \A c, d \in AllConfs :
    c.service_speed >= 0 /\ d.service_speed >= 0 => c.service_speed = d.service_speed

\* The speed of x is one that some configuration was written with.
Given(x) == \E c \in AllConfs : c.service_speed = x.service_speed

SpeedInv == Given(conf) /\ (updating # "idle" => Given(newconf))

\* The speed is still the one the server started with.
Untouched == updates = 0 \/ updating \in {"copy", "speed"} \/ Fixed

\* No wait on the timer, no completed one, and no handler that runs.
NoFeeds ==
  /\ fresh = 0 /\ due = 0 /\ queued = 0
  /\ \A f \in Feeders : feeding[f] = "idle"

\* Where the timer is there, and where nobody can miss it.
TimerInv ==
  updates <= 1 \/ Fixed =>
    /\ updates = 0 => updating = "idle"
    /\ updating \in {"new timer", "wait"} => conf.service_speed # 0 /\ ~Fixed
    /\ updating = "no timer" => conf.service_speed = 0 /\ ~Fixed
    /\ Untouched /\ conf.service_speed = 0 => ~crashed /\ NoFeeds
    /\ conf.service_speed # 0 =>
         /\ ~crashed /\ \A f \in Feeders : feeding[f] # "drop"
         /\ timer \/ (updating = "new timer" /\ NoFeeds)

\* Accepting and releasing connections leaves the timer and the configuration
\* alone.
LEMMA AcceptFrame ==
  ASSUME \/ AcceptStep \/ Release \/ AcceptFails
         \/ \E ip \in Ips : Accept(ip)
  PROVE  UNCHANGED <<conf, timer, fresh, due, queued, feeding, speed_read,
                     updating, newconf, updates, crashed, fed>>
  BY Zenon DEF AcceptStep, TestEnabled, TestToken, ReadToken, TakeToken, TestLimit,
     Connect, do_accept, Release, AcceptFails, Accept, timerVars, feedVars,
     updateVars, history

\* conf_ and the configuration being applied come from configurations given.
LEMMA SpeedInit == Init => SpeedInv
<1> SUFFICES ASSUME Init PROVE SpeedInv
  OBVIOUS
<1>1. PICK c \in InitConfs : LoadOK(c) /\ conf = load_conf(c)
  BY DEF Init
<1>2. c \in AllConfs /\ conf.service_speed = c.service_speed
  BY <1>1, LoadedConf DEF AllConfs
<1> QED
  BY <1>2 DEF Init, SpeedInv, Given

\* Every step keeps that.
LEMMA SpeedNext == Inv /\ SpeedInv /\ [Next]_vars => SpeedInv'
<1> SUFFICES ASSUME Inv, SpeedInv, [Next]_vars PROVE SpeedInv'
  OBVIOUS
<1> USE DEF GoUpdate, timerVars, feedVars, acceptVars, updateVars, history
<1>0. conf \in Loaded /\ (updating # "idle" => newconf \in Loaded)
  BY DEF Inv, TypeOK, ConfTypeOK
<1>1. CASE UNCHANGED <<conf, updating, newconf>>
  BY <1>1 DEF SpeedInv, Given
<1>2. CASE \E c \in NewConfs : Update(c)
  <2>1. PICK c \in NewConfs : Update(c)
    BY <1>2
  <2>2. c \in AllConfs
    BY DEF AllConfs
  <2>3. /\ conf' = conf /\ newconf' = load_conf(c)
        /\ updating' # "idle" => LoadOK(c)
    BY <2>1 DEF Update
  <2> QED
    BY <2>2, <2>3, LoadedConf DEF SpeedInv, Given
<1>3. CASE CopySpeed
  <2>1. conf'.service_speed = newconf.service_speed /\ newconf' = newconf
    BY <1>0, <1>3 DEF CopySpeed, Loaded
  <2> QED
    BY <1>3, <2>1 DEF SpeedInv, Given, CopySpeed
<1>4. CASE CopySafeIp \/ CopyLimit
  <2>1. /\ conf'.service_speed = conf.service_speed /\ newconf' = newconf
        /\ updating # "idle"
    BY <1>0, <1>4 DEF CopySafeIp, CopyLimit, Loaded
  <2> QED
    BY <2>1 DEF SpeedInv, Given
<1>5. CASE NewTimer \/ FirstWait \/ NoTimer
  <2>1. conf' = conf /\ newconf' = newconf /\ updating # "idle"
    BY <1>5 DEF NewTimer, FirstWait, NoTimer
  <2> QED
    BY <2>1 DEF SpeedInv, Given
<1>6. CASE Second \/ Expire \/ \E f \in Feeders : FeedStep(f)
  <2>1. UNCHANGED <<conf, updating, newconf>>
    BY <1>6, Zenon DEF Second, Expire, FeedStep, BeginFeed, DropTimer, ReadSpeed,
       feed_service_token, WaitAgain
  <2> QED
    BY <2>1, <1>1
<1>7. CASE AcceptStep \/ Release \/ AcceptFails \/ \E ip \in Ips : Accept(ip)
  BY <1>7, <1>1, AcceptFrame
<1>8. CASE UNCHANGED vars
  BY <1>8, <1>1, Zenon DEF vars
<1> QED
  BY <1>2, <1>3, <1>4, <1>5, <1>6, <1>7, <1>8 DEF Next, UpdateStep

\* When no update changes the speed, the configuration being applied has the
\* speed of conf_.
LEMMA FixedSpeed ==
  ASSUME Inv, SpeedInv, Fixed, updating # "idle"
  PROVE  newconf.service_speed = conf.service_speed
<1>1. conf.service_speed \in Nat /\ newconf.service_speed \in Nat
  BY DEF Inv, TypeOK, ConfTypeOK, Loaded
<1>2. PICK c \in AllConfs : c.service_speed = conf.service_speed
  BY DEF SpeedInv, Given
<1>3. PICK d \in AllConfs : d.service_speed = newconf.service_speed
  BY DEF SpeedInv, Given
<1> QED
  BY <1>1, <1>2, <1>3 DEF Fixed

\* NetServer::init makes the timer when there is a speed limit.
LEMMA TimerInit == Init => TimerInv
<1> SUFFICES ASSUME Init PROVE TimerInv
  OBVIOUS
<1>1. /\ updates = 0 /\ updating = "idle" /\ due = 0 /\ queued = 0
      /\ \A f \in Feeders : feeding[f] = "idle"
  BY DEF Init
<1>2. ~crashed /\ (conf.service_speed # 0 => timer)
      /\ (conf.service_speed = 0 => ~timer)
  BY Zenon DEF Init
<1>3. ~timer => fresh = 0
  BY Zenon DEF Init
<1> QED
  BY <1>1, <1>2, <1>3 DEF TimerInv, NoFeeds

\* A second that goes by and a timer that expires make no wait.
LEMMA TimerSecond ==
  ASSUME Inv, TimerInv, Second \/ Expire
  PROVE  TimerInv'
<1>1. fresh \in Nat /\ due \in Nat /\ queued \in Nat
  BY DEF Inv, TypeOK, CountTypeOK
<1>2. UNCHANGED <<conf, timer, feeding, updating, updates, crashed>>
  BY Zenon DEF Second, Expire, feedVars, updateVars
<1>3. \/ fresh' = 0 /\ due' = due + fresh /\ queued' = queued
      \/ fresh' = fresh /\ due' = 0 /\ queued' = queued + due
  BY DEF Second, Expire
<1>4. NoFeeds => NoFeeds'
  BY <1>1, <1>2, <1>3 DEF NoFeeds
<1> QED
  BY <1>2, <1>4, Zenon DEF TimerInv, Untouched

\* The steps of a feed handler: one that runs has come from a wait, and with a
\* speed limit it finds the timer.
LEMMA TimerFeed ==
  ASSUME Inv, TimerInv, NEW f \in Feeders, FeedStep(f)
  PROVE  TimerInv'
<1> USE DEF timerVars, feedVars, updateVars
<1>1. /\ fresh \in Nat /\ due \in Nat /\ queued \in Nat
      /\ feeding \in [Feeders -> {"idle", "drop", "read", "feed", "wait"}]
  BY DEF Inv, TypeOK, CountTypeOK, TokenTypeOK
<1>2. UNCHANGED <<conf, updating, updates>>
  BY Zenon DEF FeedStep, BeginFeed, DropTimer, ReadSpeed, feed_service_token,
     WaitAgain
<1>3. ~crashed /\ ~NoFeeds
  BY <1>1 DEF FeedStep, BeginFeed, DropTimer, ReadSpeed, feed_service_token,
     WaitAgain, NoFeeds
<1>4. (updates <= 1 \/ Fixed) /\ conf.service_speed # 0 =>
        /\ ~crashed' /\ \A g \in Feeders : feeding'[g] # "drop"
        /\ timer'
  <2> SUFFICES ASSUME updates <= 1 \/ Fixed, conf.service_speed # 0
               PROVE  /\ ~crashed' /\ \A g \in Feeders : feeding'[g] # "drop"
                      /\ timer'
    OBVIOUS
  <2>1. timer /\ \A g \in Feeders : feeding[g] # "drop"
    BY <1>3, Zenon DEF TimerInv
  <2>2. timer' /\ ~crashed'
    BY <1>3, <2>1, Zenon DEF FeedStep, BeginFeed, DropTimer, ReadSpeed,
       feed_service_token, WaitAgain, StartWait
  <2>3. \A g \in Feeders : feeding'[g] # "drop"
    BY <1>1, <2>1 DEF FeedStep, BeginFeed, DropTimer, ReadSpeed,
       feed_service_token, WaitAgain
  <2> QED
    BY <2>2, <2>3
<1> QED
  BY <1>2, <1>3, <1>4, Zenon DEF TimerInv, Untouched

\* The steps of module_runtime.  A first limit is set while nothing waits on the
\* timer; with a limit before and after it the timer is there throughout.
LEMMA TimerUpdate ==
  ASSUME Inv, SpeedInv, TimerInv, UpdateStep
  PROVE  TimerInv'
<1> USE DEF GoUpdate, timerVars, feedVars
<1>1. /\ fresh \in Nat /\ due \in Nat /\ queued \in Nat
      /\ conf \in Loaded /\ newconf \in Loaded
  BY DEF Inv, TypeOK, CountTypeOK, ConfTypeOK, UpdateStep, CopySafeIp, CopySpeed,
     NewTimer, FirstWait, NoTimer, CopyLimit
<1>2. /\ updates' = updates /\ feeding' = feeding /\ ~crashed
      /\ updating # "idle"
  BY Zenon DEF UpdateStep, CopySafeIp, CopySpeed, NewTimer, FirstWait, NoTimer,
     CopyLimit
<1> SUFFICES ASSUME updates <= 1 \/ Fixed
             PROVE  TimerInv'
  BY <1>2 DEF TimerInv
<1>3. updates # 0
  BY <1>2 DEF TimerInv
<1>4. CASE CopySafeIp
  <2>1. conf'.service_speed = conf.service_speed
    BY <1>1, <1>4 DEF CopySafeIp, Loaded
  <2>2. /\ updating = "copy" /\ updating' = "speed"
        /\ UNCHANGED <<timer, fresh, due, queued, crashed>>
    BY <1>4, Zenon DEF CopySafeIp
  <2> QED
    BY <1>2, <1>3, <2>1, <2>2, Zenon DEF TimerInv, Untouched, NoFeeds
<1>5. CASE CopySpeed
  <2>1. conf'.service_speed = newconf.service_speed
    BY <1>1, <1>5 DEF CopySpeed, Loaded
  <2>2. /\ updating = "speed"
        /\ UNCHANGED <<timer, fresh, due, queued, crashed>>
    BY <1>5, Zenon DEF CopySpeed
  <2>3. Fixed => newconf.service_speed = conf.service_speed
    BY <2>2, FixedSpeed
  <2>4. \/ /\ newconf.service_speed = conf.service_speed /\ updating' = "limit"
        \/ /\ newconf.service_speed # conf.service_speed
           /\ newconf.service_speed # 0 /\ updating' = "new timer"
        \/ /\ newconf.service_speed # conf.service_speed
           /\ newconf.service_speed = 0 /\ updating' = "no timer"
    BY <1>5 DEF CopySpeed
  <2>5. Untouched /\ (NoFeeds => NoFeeds')
    BY <1>2, <2>2 DEF Untouched, NoFeeds
  <2>6. CASE conf.service_speed = 0
    <3>1. NoFeeds /\ ~crashed
      BY <2>5, <2>6, Zenon DEF TimerInv
    <3>2. /\ NoFeeds' /\ ~crashed'
          /\ \A f \in Feeders : feeding'[f] # "drop"
      BY <1>2, <2>2, <2>5, <3>1 DEF NoFeeds
    <3> QED
      BY <1>2, <1>3, <2>1, <2>3, <2>4, <2>6, <3>2, Zenon DEF TimerInv, Untouched
  <2>7. CASE conf.service_speed # 0
    <3>1. /\ timer' /\ ~crashed'
          /\ \A f \in Feeders : feeding'[f] # "drop"
      BY <1>2, <2>2, <2>7, Zenon DEF TimerInv
    <3> QED
      BY <1>3, <1>2, <2>1, <2>3, <2>4, <2>7, <3>1, Zenon DEF TimerInv, Untouched
  <2> QED
    BY <2>6, <2>7
<1>6. CASE NewTimer
  <2>1. /\ timer' /\ conf' = conf /\ ~crashed' /\ updating = "new timer"
        /\ updating' = "wait"
    BY <1>2, <1>6, Zenon DEF NewTimer
  <2> QED
    BY <1>2, <1>3, <2>1, Zenon DEF TimerInv
<1>7. CASE FirstWait
  <2>1. conf' = conf /\ updating = "wait" /\ updating' = "limit"
    BY <1>7, Zenon DEF FirstWait
  <2>2. timer
    BY <2>1, Zenon DEF TimerInv
  <2>3. timer' /\ ~crashed'
    BY <1>2, <1>7, <2>2, Zenon DEF FirstWait, StartWait
  <2> QED
    BY <1>2, <1>3, <2>1, <2>3, Zenon DEF TimerInv
<1>8. CASE NoTimer
  <2>1. /\ conf' = conf /\ ~crashed' /\ updating = "no timer"
        /\ updating' = "limit"
    BY <1>2, <1>8, Zenon DEF NoTimer
  <2> QED
    BY <1>2, <1>3, <2>1, Zenon DEF TimerInv, Untouched
<1>9. CASE CopyLimit
  <2>1. conf'.service_speed = conf.service_speed
    BY <1>1, <1>9 DEF CopyLimit, Loaded
  <2>2. /\ updating = "limit" /\ updating' = "idle"
        /\ UNCHANGED <<timer, fresh, due, queued, crashed>>
    BY <1>9, Zenon DEF CopyLimit
  <2> QED
    BY <1>2, <1>3, <2>1, <2>2, Zenon DEF TimerInv, Untouched, NoFeeds
<1> QED
  BY <1>4, <1>5, <1>6, <1>7, <1>8, <1>9 DEF UpdateStep

\* Every step of the server keeps TimerInv.
LEMMA TimerNext == Inv /\ SpeedInv /\ TimerInv /\ [Next]_vars => TimerInv'
<1> SUFFICES ASSUME Inv, SpeedInv, TimerInv, [Next]_vars PROVE TimerInv'
  OBVIOUS
<1>1. CASE UNCHANGED <<conf, timer, fresh, due, queued, feeding, updating, updates,
                       crashed>>
  BY <1>1, Zenon DEF TimerInv, Untouched, NoFeeds
<1>2. CASE \E c \in NewConfs : Update(c)
  <2>1. /\ UNCHANGED <<conf, timer, fresh, due, queued, feeding, crashed>>
        /\ updating = "idle" /\ updating' \in {"idle", "copy"}
        /\ updates' = updates + 1
    BY <1>2 DEF Update, GoUpdate, timerVars, feedVars
  <2>2. updates \in Nat
    <3>1. updates \in 0..MaxUpdates /\ MaxUpdates \in Nat
      BY ConfAssumption DEF Inv, TypeOK, ConfTypeOK
    <3> QED
      BY ONLY <3>1
  <2>3. /\ updates' # 0 /\ (updates' <= 1 => updates = 0)
        /\ updating' \notin {"new timer", "wait", "no timer"}
    <3>1. updates' = updates + 1
      BY <2>1
    <3>2. updates' # 0 /\ (updates' <= 1 => updates = 0)
      BY ONLY <2>2, <3>1
    <3> QED
      BY <2>1, <3>2
  <2>4. updates = 0 => updates <= 1
    BY <2>2
  <2>5. Untouched' => Untouched \/ ~(updates' <= 1 \/ Fixed)
    BY <2>3 DEF Untouched
  <2> QED
    BY <2>1, <2>3, <2>4, <2>5, Zenon DEF TimerInv, NoFeeds
<1>3. CASE UpdateStep
  BY <1>3, TimerUpdate
<1>4. CASE Second \/ Expire
  BY <1>4, TimerSecond
<1>5. CASE \E f \in Feeders : FeedStep(f)
  BY <1>5, TimerFeed
<1>6. CASE AcceptStep \/ Release \/ AcceptFails \/ \E ip \in Ips : Accept(ip)
  BY <1>6, <1>1, AcceptFrame
<1>7. CASE UNCHANGED vars
  BY <1>7, <1>1, Zenon DEF vars, timerVars, feedVars, updateVars
<1> QED
  BY <1>2, <1>3, <1>4, <1>5, <1>6, <1>7 DEF Next

\* A first update that keeps or sets a speed limit never lets a handler use a
\* timed_feed_token_ that is null.
THEOREM NullTimerSafe == Spec => []NullTimerJustified
<1>1. TimerInv => NullTimerJustified
  BY Zenon DEF TimerInv, NullTimerJustified
<1> QED
  BY <1>1, InitInv, NextInv, SpeedInit, SpeedNext, TimerInit, TimerNext, PTL
     DEF Spec

\* When the configurations agree on the speed, no number of updates does, whatever
\* they change besides.
THEOREM FixedNeverNull ==
  ASSUME Fixed
  PROVE  Spec => []~crashed
<1>1. TimerInv => ~crashed
  BY Zenon DEF TimerInv, Untouched
<1> QED
  BY <1>1, InitInv, NextInv, SpeedInit, SpeedNext, TimerInit, TimerNext, PTL
     DEF Spec

-----------------------------------------------------------------------------
(* One chain of feeds, and the speed limit it keeps.                        *)

Busy(g) == {f \in Feeders : g[f] # "idle"}

\* The waits on the timer, the completed ones and the handlers that run.
Feeds == fresh + due + queued + Cardinality(Busy(feeding))

\* The configurations of this server: s is the one speed limit among them (zero
\* lifts it), and it is set or lifted at most once; it is never changed into
\* another.
OneLimit(s) ==
  /\ s \in Nat /\ \E c \in AllConfs : c.service_speed = s
  /\ \A c \in AllConfs : c.service_speed <= 0 \/ c.service_speed = s
  /\ MaxUpdates <= 1 \/ Fixed

\* A limit that is set finds no feed; one that is kept keeps its feed.
ChainInv ==
  /\ Feeds <= 1
  /\ conf.service_speed # 0 /\ updating \notin {"new timer", "wait"} => Feeds = 1
  /\ updating \in {"new timer", "wait"} => Feeds = 0

\* The number of handlers that run, after a step of one of them.
LEMMA BusyExcept ==
  ASSUME NEW g \in [Feeders -> {"idle", "drop", "read", "feed", "wait"}],
         NEW f \in Feeders, NEW x
  PROVE  /\ Cardinality(Busy(g)) \in Nat
         /\ g[f] = "idle" /\ x # "idle" =>
              Cardinality(Busy([g EXCEPT ![f] = x])) = Cardinality(Busy(g)) + 1
         /\ g[f] # "idle" /\ x = "idle" =>
              Cardinality(Busy([g EXCEPT ![f] = x])) = Cardinality(Busy(g)) - 1
         /\ g[f] # "idle" /\ x # "idle" =>
              Cardinality(Busy([g EXCEPT ![f] = x])) = Cardinality(Busy(g))
<1> DEFINE h == [g EXCEPT ![f] = x]
<1>1. IsFiniteSet(Busy(g))
  BY ConfAssumption, FS_Subset DEF Busy
<1>2. Cardinality(Busy(g)) \in Nat
  BY <1>1, FS_CardinalityType
<1>3. ASSUME g[f] = "idle", x # "idle"
      PROVE  Cardinality(Busy(h)) = Cardinality(Busy(g)) + 1
  <2>1. Busy(h) = Busy(g) \cup {f} /\ f \notin Busy(g)
    BY <1>3 DEF Busy
  <2> QED
    BY <1>1, <2>1, FS_AddElement
<1>4. ASSUME g[f] # "idle", x = "idle"
      PROVE  Cardinality(Busy(h)) = Cardinality(Busy(g)) - 1
  <2>1. Busy(h) = Busy(g) \ {f} /\ f \in Busy(g)
    BY <1>4 DEF Busy
  <2> QED
    BY <1>1, <2>1, FS_RemoveElement
<1>5. ASSUME g[f] # "idle", x # "idle"
      PROVE  Cardinality(Busy(h)) = Cardinality(Busy(g))
  <2>1. Busy(h) = Busy(g)
    BY <1>5 DEF Busy
  <2> QED
    BY <2>1
<1> QED
  BY <1>2, <1>3, <1>4, <1>5

\* No handler runs exactly when their number is zero.
LEMMA NoneBusy ==
  ASSUME NEW g \in [Feeders -> {"idle", "drop", "read", "feed", "wait"}]
  PROVE  /\ Cardinality(Busy(g)) \in Nat
         /\ Cardinality(Busy(g)) = 0 <=> \A f \in Feeders : g[f] = "idle"
<1>1. IsFiniteSet(Busy(g))
  BY ConfAssumption, FS_Subset DEF Busy
<1>2. Cardinality(Busy(g)) = 0 <=> Busy(g) = {}
  BY <1>1, FS_EmptySet
<1>3. Busy(g) = {} <=> \A f \in Feeders : g[f] = "idle"
  BY DEF Busy
<1> QED
  BY <1>1, <1>2, <1>3, FS_CardinalityType

\* What the types say of the chain.
LEMMA ChainTypes ==
  ASSUME Inv
  PROVE  /\ fresh \in Nat /\ due \in Nat /\ queued \in Nat
         /\ feeding \in [Feeders -> {"idle", "drop", "read", "feed", "wait"}]
         /\ Cardinality(Busy(feeding)) \in Nat
  BY NoneBusy DEF Inv, TypeOK, CountTypeOK, TokenTypeOK

\* Nothing under way is a chain of length zero.
LEMMA NoFeedsZero ==
  ASSUME Inv
  PROVE  NoFeeds <=> Feeds = 0
<1>1. Cardinality(Busy(feeding)) = 0 <=> \A f \in Feeders : feeding[f] = "idle"
  BY ChainTypes, NoneBusy
<1>2. /\ fresh \in Nat /\ due \in Nat /\ queued \in Nat
      /\ Cardinality(Busy(feeding)) \in Nat
  BY ChainTypes
<1> DEFINE n == Cardinality(Busy(feeding))
<1>3. fresh + due + queued + n = 0 <=> fresh = 0 /\ due = 0 /\ queued = 0 /\ n = 0
  <2>1. n \in Nat
    BY <1>2
  <2> HIDE DEF n
  <2> QED
    BY <1>2, <2>1
<1> QED
  BY <1>1, <1>3 DEF NoFeeds, Feeds

\* In a chain of one, a handler that runs is all there is.
LEMMA SoleFeed ==
  ASSUME Inv, Feeds <= 1, NEW f \in Feeders, feeding[f] # "idle"
  PROVE  /\ fresh = 0 /\ due = 0 /\ queued = 0 /\ Feeds = 1
         /\ \A g \in Feeders : g # f => feeding[g] = "idle"
<1> DEFINE n == Cardinality(Busy(feeding))
<1>1. /\ fresh \in Nat /\ due \in Nat /\ queued \in Nat /\ n \in Nat
      /\ feeding \in [Feeders -> {"idle", "drop", "read", "feed", "wait"}]
  BY ChainTypes
<1>2. n # 0
  BY <1>1, NoneBusy
<1>3. fresh + due + queued + n <= 1
  BY DEF Feeds
<1>4. fresh = 0 /\ due = 0 /\ queued = 0 /\ n = 1
  <2> HIDE DEF n
  <2> QED
    BY <1>1, <1>2, <1>3
<1>5. \A g \in Feeders : g # f => feeding[g] = "idle"
  <2>1. IsFiniteSet(Busy(feeding))
    BY ConfAssumption, FS_Subset DEF Busy
  <2>2. PICK x : Busy(feeding) = {x}
    BY <1>4, <2>1, FS_Singleton
  <2> QED
    BY <2>2 DEF Busy
<1> QED
  BY <1>4, <1>5 DEF Feeds

\* The updates of the configuration stay where TimerInv speaks.
LEMMA FewUpdates ==
  ASSUME Inv, NEW s, OneLimit(s)
  PROVE  updates <= 1 \/ Fixed
<1>1. updates \in 0..MaxUpdates /\ MaxUpdates \in Nat
  BY ConfAssumption DEF Inv, TypeOK, ConfTypeOK
<1>2. MaxUpdates <= 1 \/ Fixed
  BY DEF OneLimit
<1>3. MaxUpdates <= 1 => updates <= 1
  BY ONLY <1>1
<1> QED
  BY <1>2, <1>3

\* The speeds are the limit or none.
LEMMA TwoSpeeds ==
  ASSUME Inv, SpeedInv, NEW s, OneLimit(s)
  PROVE  /\ conf.service_speed \in {0, s}
         /\ updating # "idle" => newconf.service_speed \in {0, s}
<1>1. /\ conf.service_speed \in Nat
      /\ updating # "idle" => newconf.service_speed \in Nat
  BY DEF Inv, TypeOK, ConfTypeOK, Loaded
<1>2. PICK c \in AllConfs : c.service_speed = conf.service_speed
  BY DEF SpeedInv, Given
<1>3. updating # "idle" =>
        \E d \in AllConfs : d.service_speed = newconf.service_speed
  BY DEF SpeedInv, Given
<1>4. \A d \in AllConfs : d.service_speed <= 0 \/ d.service_speed = s
  BY DEF OneLimit
<1>5. conf.service_speed \in {0, s}
  BY <1>1, <1>2, <1>4
<1>6. updating # "idle" => newconf.service_speed \in {0, s}
  BY <1>1, <1>3, <1>4
<1> QED
  BY <1>5, <1>6

\* The server starts with one wait, or with none and no limit.
LEMMA ChainInit == Init => ChainInv
<1> SUFFICES ASSUME Init PROVE ChainInv
  OBVIOUS
<1> DEFINE n == Cardinality(Busy(feeding))
<1>1. Inv
  BY InitInv
<1>2. n = 0
  BY <1>1, ChainTypes, NoneBusy DEF Init
<1>3. due = 0 /\ queued = 0 /\ updating = "idle"
  BY DEF Init
<1>4. /\ conf.service_speed # 0 => timer
      /\ conf.service_speed = 0 => ~timer
  BY Zenon DEF Init
<1>5. (timer => fresh = 1) /\ (~timer => fresh = 0)
  BY Zenon DEF Init
<1>6. Feeds = fresh
  <2>1. fresh \in Nat
    BY <1>1, ChainTypes
  <2> HIDE DEF n
  <2>2. Feeds = fresh + due + queued + n
    BY DEF Feeds, n
  <2> QED
    BY ONLY <1>2, <1>3, <2>1, <2>2
<1>7. Feeds \in {0, 1} /\ (conf.service_speed # 0 => Feeds = 1)
  BY <1>4, <1>5, <1>6
<1> QED
  BY <1>3, <1>7 DEF ChainInv

\* Time keeps the number of feeds under way.
LEMMA ChainSecond ==
  ASSUME Inv, Second \/ Expire
  PROVE  Feeds' = Feeds /\ UNCHANGED <<conf, updating>>
<1> DEFINE n == Cardinality(Busy(feeding))
<1>1. fresh \in Nat /\ due \in Nat /\ queued \in Nat /\ n \in Nat
  BY ChainTypes
<1>2. UNCHANGED <<conf, updating, feeding>>
  BY Zenon DEF Second, Expire, feedVars, updateVars
<1>3. \/ fresh' = 0 /\ due' = due + fresh /\ queued' = queued
      \/ fresh' = fresh /\ due' = 0 /\ queued' = queued + due
  BY DEF Second, Expire
<1>4. Feeds = fresh + due + queued + n /\ Feeds' = fresh' + due' + queued' + n
  BY <1>2 DEF Feeds, Busy
<1> HIDE DEF n
<1>5. Feeds' = Feeds
  BY <1>1, <1>3, <1>4
<1> QED
  BY <1>2, <1>5

\* A handler keeps the number of feeds under way; only one that has no speed limit
\* ends the chain.
LEMMA ChainFeed ==
  ASSUME Inv, TimerInv, ChainInv, updates <= 1 \/ Fixed,
         NEW f \in Feeders, FeedStep(f)
  PROVE  /\ UNCHANGED <<conf, updating>>
         /\ Feeds' = Feeds \/ (Feeds' = Feeds - 1 /\ conf.service_speed = 0)
<1> USE DEF timerVars, feedVars, updateVars
<1> DEFINE n == Cardinality(Busy(feeding))
           m == Cardinality(Busy(feeding'))
<1>1. fresh \in Nat /\ due \in Nat /\ queued \in Nat /\ n \in Nat
  BY ChainTypes
<1>2. feeding \in [Feeders -> {"idle", "drop", "read", "feed", "wait"}]
  BY ChainTypes
<1>3. UNCHANGED <<conf, updating>>
  BY Zenon DEF FeedStep, BeginFeed, DropTimer, ReadSpeed, feed_service_token,
     WaitAgain
<1>4. Feeds = fresh + due + queued + n /\ Feeds' = fresh' + due' + queued' + m
  BY DEF Feeds, Busy
<1>5. CASE BeginFeed(f)
  <2>1. /\ feeding[f] = "idle" /\ queued' = queued - 1 /\ fresh' = fresh
        /\ due' = due
        /\ \E x \in {"drop", "read"} : feeding' = [feeding EXCEPT ![f] = x]
    BY <1>5 DEF BeginFeed
  <2>2. m = n + 1
    <3>1. PICK x \in {"drop", "read"} : feeding' = [feeding EXCEPT ![f] = x]
      BY <2>1
    <3>2. x # "idle"
      OBVIOUS
    <3> QED
      BY <1>2, <2>1, <3>1, <3>2, BusyExcept
  <2> HIDE DEF n, m
  <2>3. Feeds' = Feeds
    BY <1>1, <1>4, <2>1, <2>2
  <2> QED
    BY <1>3, <2>3
<1>6. CASE ReadSpeed(f) \/ feed_service_token(f)
  <2>1. /\ feeding[f] # "idle" /\ fresh' = fresh /\ due' = due /\ queued' = queued
        /\ \E x \in {"feed", "wait"} : feeding' = [feeding EXCEPT ![f] = x]
    BY <1>6 DEF ReadSpeed, feed_service_token
  <2>2. m = n
    <3>1. PICK x \in {"feed", "wait"} : feeding' = [feeding EXCEPT ![f] = x]
      BY <2>1
    <3>2. x # "idle"
      OBVIOUS
    <3> QED
      BY <1>2, <2>1, <3>1, <3>2, BusyExcept
  <2> QED
    BY <1>3, <1>4, <2>1, <2>2
<1>7. CASE DropTimer(f)
  <2>1. /\ feeding[f] = "drop" /\ queued' = queued + fresh + due
        /\ fresh' = 0 /\ due' = 0
        /\ feeding' = [feeding EXCEPT ![f] = "idle"]
    BY <1>7 DEF DropTimer, AbortWaits
  <2>2. m = n - 1
    BY <1>2, <2>1, BusyExcept
  <2>3. conf.service_speed = 0
    BY <2>1 DEF TimerInv
  <2> HIDE DEF n, m
  <2>4. Feeds' = Feeds - 1
    BY <1>1, <1>4, <2>1, <2>2
  <2> QED
    BY <1>3, <2>3, <2>4
<1>8. CASE WaitAgain(f)
  <2>1. feeding[f] = "wait" /\ feeding' = [feeding EXCEPT ![f] = "idle"]
    BY <1>8 DEF WaitAgain
  <2>2. m = n - 1
    BY <1>2, <2>1, BusyExcept
  <2>3. fresh = 0 /\ due = 0 /\ queued = 0 /\ Feeds = 1 /\ ~NoFeeds
    BY <2>1, SoleFeed DEF ChainInv, NoFeeds
  <2>4. CASE timer
    <3>1. queued' = queued + fresh + due /\ fresh' = 1 /\ due' = 0
      BY <1>8, <2>4 DEF WaitAgain, StartWait
    <3> HIDE DEF n, m
    <3>2. Feeds' = Feeds
      BY <1>1, <1>4, <2>2, <2>3, <3>1
    <3> QED
      BY <1>3, <3>2
  <2>5. CASE ~timer
    <3>1. queued' = queued /\ fresh' = fresh /\ due' = due
      BY <1>8, <2>5 DEF WaitAgain, StartWait
    <3>2. conf.service_speed = 0
      BY <2>3, <2>5, Zenon DEF TimerInv
    <3> HIDE DEF n, m
    <3>3. Feeds' = Feeds - 1
      BY <1>1, <1>4, <2>2, <2>3, <3>1
    <3> QED
      BY <1>3, <3>2, <3>3
  <2> QED
    BY <2>4, <2>5
<1> QED
  BY <1>5, <1>6, <1>7, <1>8 DEF FeedStep

\* module_runtime keeps the chain: it sets the limit when nothing is under way.
LEMMA ChainUpdate ==
  ASSUME Inv, SpeedInv, TimerInv, ChainInv, NEW s, OneLimit(s), UpdateStep
  PROVE  ChainInv'
<1> USE DEF GoUpdate, timerVars, feedVars
<1> DEFINE n == Cardinality(Busy(feeding))
<1>0. updates <= 1 \/ Fixed
  BY FewUpdates
<1>1. /\ fresh \in Nat /\ due \in Nat /\ queued \in Nat /\ n \in Nat
      /\ conf \in Loaded /\ newconf \in Loaded
  BY ChainTypes DEF Inv, TypeOK, ConfTypeOK, UpdateStep, CopySafeIp, CopySpeed,
     NewTimer, FirstWait, NoTimer, CopyLimit
<1>2. feeding' = feeding
  BY Zenon DEF UpdateStep, CopySafeIp, CopySpeed, NewTimer, FirstWait, NoTimer,
     CopyLimit
<1>3. Feeds = fresh + due + queued + n /\ Feeds' = fresh' + due' + queued' + n
  BY <1>2 DEF Feeds, Busy
<1>4. ASSUME UNCHANGED <<fresh, due, queued>> PROVE Feeds' = Feeds
  BY <1>3, <1>4
<1>5. CASE CopySafeIp \/ CopyLimit
  <2>1. conf'.service_speed = conf.service_speed
    BY <1>1, <1>5 DEF CopySafeIp, CopyLimit, Loaded
  <2>2. /\ updating \in {"copy", "limit"} /\ updating' \in {"speed", "idle"}
        /\ UNCHANGED <<fresh, due, queued>>
    BY <1>5 DEF CopySafeIp, CopyLimit
  <2>3. /\ updating \notin {"new timer", "wait"}
        /\ updating' \notin {"new timer", "wait"}
    BY <2>2
  <2> QED
    BY <1>4, <2>1, <2>2, <2>3 DEF ChainInv
<1>6. CASE CopySpeed
  <2>1. conf'.service_speed = newconf.service_speed
    BY <1>1, <1>6 DEF CopySpeed, Loaded
  <2>2. updating = "speed" /\ UNCHANGED <<fresh, due, queued>>
    BY <1>6 DEF CopySpeed
  <2>3. \/ /\ newconf.service_speed = conf.service_speed /\ updating' = "limit"
        \/ /\ newconf.service_speed # conf.service_speed
           /\ newconf.service_speed # 0 /\ updating' = "new timer"
        \/ /\ newconf.service_speed # conf.service_speed
           /\ newconf.service_speed = 0 /\ updating' = "no timer"
    BY <1>6 DEF CopySpeed
  <2>4. conf.service_speed \in {0, s} /\ newconf.service_speed \in {0, s}
    BY <2>2, TwoSpeeds
  <2>5. conf.service_speed = 0 => Feeds = 0
    BY <1>0, <2>2, NoFeedsZero DEF TimerInv, Untouched
  <2>6. Feeds' = Feeds
    BY <1>4, <2>2
  <2>7. Feeds <= 1 /\ (conf.service_speed # 0 => Feeds = 1)
    BY <2>2 DEF ChainInv
  <2> QED
    BY <2>1, <2>3, <2>4, <2>5, <2>6, <2>7 DEF ChainInv
<1>7. CASE NewTimer \/ NoTimer
  <2>1. /\ conf' = conf /\ queued' = queued + fresh + due /\ fresh' = 0 /\ due' = 0
        /\ \/ updating = "new timer" /\ updating' = "wait"
           \/ updating = "no timer" /\ updating' = "limit"
    BY <1>7 DEF NewTimer, NoTimer, AbortWaits
  <2>2. Feeds' = Feeds
    <3> HIDE DEF n
    <3>1. queued' = queued + fresh + due /\ fresh' = 0 /\ due' = 0
      BY <2>1
    <3>2. fresh \in Nat /\ due \in Nat /\ queued \in Nat /\ n \in Nat
      BY <1>1
    <3> QED
      BY ONLY <1>3, <3>1, <3>2
  <2>3. updating = "no timer" => conf.service_speed = 0
    BY <1>0 DEF TimerInv
  <2> QED
    BY <2>1, <2>2, <2>3 DEF ChainInv
<1>8. CASE FirstWait
  <2>1. conf' = conf /\ updating = "wait" /\ updating' = "limit"
    BY <1>8 DEF FirstWait
  <2>2. timer
    BY <1>0, <2>1, Zenon DEF TimerInv
  <2>3. queued' = queued + fresh + due /\ fresh' = 1 /\ due' = 0
    BY <1>8, <2>2 DEF FirstWait, StartWait
  <2>4. Feeds = 0
    BY <2>1 DEF ChainInv
  <2>5. Feeds' = 1
    <3> HIDE DEF n
    <3> QED
      BY <1>1, <1>3, <2>3, <2>4
  <2> QED
    BY <2>1, <2>5 DEF ChainInv
<1> QED
  BY <1>5, <1>6, <1>7, <1>8 DEF UpdateStep

\* Every step of the server keeps the chain.
LEMMA ChainNext ==
  ASSUME NEW s, OneLimit(s)
  PROVE  Inv /\ SpeedInv /\ TimerInv /\ ChainInv /\ [Next]_vars => ChainInv'
<1> SUFFICES ASSUME Inv, SpeedInv, TimerInv, ChainInv, [Next]_vars
             PROVE  ChainInv'
  OBVIOUS
<1>0. Feeds \in Nat
  BY ChainTypes DEF Feeds
<1>1. CASE UNCHANGED <<conf, updating, fresh, due, queued, feeding>>
  BY <1>1, Zenon DEF ChainInv, Feeds, Busy
<1>2. CASE Second \/ Expire
  BY <1>2, ChainSecond DEF ChainInv
<1>3. CASE \E f \in Feeders : FeedStep(f)
  <2>1. /\ UNCHANGED <<conf, updating>>
        /\ Feeds' = Feeds \/ (Feeds' = Feeds - 1 /\ conf.service_speed = 0)
    BY <1>3, ChainFeed, FewUpdates
  <2>2. updating \in {"new timer", "wait"} => conf.service_speed # 0
    BY FewUpdates DEF TimerInv
  <2>3. CASE Feeds' = Feeds
    BY <2>1, <2>3, Zenon DEF ChainInv
  <2>4. CASE Feeds' = Feeds - 1 /\ conf.service_speed = 0
    <3>1. Feeds' <= 1
      <4>1. Feeds <= 1 /\ Feeds' = Feeds - 1
        BY <2>4 DEF ChainInv
      <4> QED
        BY ONLY <1>0, <4>1
    <3> QED
      BY <2>1, <2>2, <2>4, <3>1, Zenon DEF ChainInv
  <2> QED
    BY <2>1, <2>3, <2>4
<1>4. CASE UpdateStep
  BY <1>4, ChainUpdate
<1>5. CASE \E c \in NewConfs : Update(c)
  <2>1. /\ UNCHANGED <<conf, fresh, due, queued, feeding>>
        /\ updating = "idle" /\ updating' \in {"idle", "copy"}
    BY <1>5 DEF Update, GoUpdate, timerVars, feedVars
  <2>2. Feeds' = Feeds
    BY <2>1 DEF Feeds, Busy
  <2>3. /\ updating \notin {"new timer", "wait"}
        /\ updating' \notin {"new timer", "wait"}
    BY <2>1
  <2> QED
    BY <2>1, <2>2, <2>3, Zenon DEF ChainInv
<1>6. CASE AcceptStep \/ Release \/ AcceptFails \/ \E ip \in Ips : Accept(ip)
  BY <1>6, <1>1, AcceptFrame
<1>7. CASE UNCHANGED vars
  BY <1>7, <1>1, Zenon DEF vars, timerVars, feedVars, updateVars
<1> QED
  BY <1>2, <1>3, <1>4, <1>5, <1>6, <1>7 DEF Next

\* With one speed limit, set or lifted at most once or left alone by any number of
\* updates, there is one feed under way, however many threads run the handler.
THEOREM FeedChainSafe ==
  ASSUME NEW s, OneLimit(s)
  PROVE  Spec => []OneFeedChain
<1>1. ChainInv => OneFeedChain
  BY DEF ChainInv, OneFeedChain, Feeds, Busy
<1>2. Inv /\ SpeedInv /\ TimerInv /\ ChainInv /\ [Next]_vars => ChainInv'
  BY ChainNext
<1> QED
  BY <1>1, <1>2, InitInv, NextInv, SpeedInit, SpeedNext, TimerInit, TimerNext,
     ChainInit, PTL DEF Spec

\* One feed in a second: once it is made, the chain waits for a timer that began
\* in this second.
FedInv ==
  /\ fed <= 1
  /\ fed = 1 => /\ \A f \in Feeders : feeding[f] \notin {"read", "feed"}
                /\ conf.service_speed # 0 => due = 0 /\ queued = 0

\* What this second's connections may have taken: the tokens that were left, and
\* those of the one feed.
Cap(s) == IF fed = 0 THEN s ELSE s + s

\* Tokens taken and tokens there together stay within it, and so does what the
\* acceptor is about to take.
GrantInv(s) ==
  /\ granted <= Cap(s) /\ granted + token <= Cap(s)
  /\ accepting \in {"token", "read", "take"} => s >= 1
  /\ accepting \in {"read", "take"} => granted + 1 <= Cap(s)
  /\ accepting = "take" => granted + token_read <= Cap(s)

\* A chain of length zero, in particular, has no wait that is due.
LEMMA FeedsZero ==
  ASSUME Inv, Feeds = 0
  PROVE  fresh = 0 /\ due = 0 /\ queued = 0
  BY NoFeedsZero DEF NoFeeds

\* The steps of a feed handler: a second feed would need a second chain.
LEMMA FedFeed ==
  ASSUME Inv, TimerInv, ChainInv, FedInv, updates <= 1 \/ Fixed,
         NEW f \in Feeders, FeedStep(f)
  PROVE  FedInv'
<1> USE DEF timerVars, feedVars, history
<1>1. /\ fresh \in Nat /\ due \in Nat /\ queued \in Nat /\ fed \in Nat
      /\ feeding \in [Feeders -> {"idle", "drop", "read", "feed", "wait"}]
  BY ChainTypes DEF Inv, TypeOK, CountTypeOK
<1>2. conf' = conf
  BY Zenon DEF FeedStep, BeginFeed, DropTimer, ReadSpeed, feed_service_token,
     WaitAgain
<1>3. CASE BeginFeed(f)
  <2>1. /\ fed' = fed /\ due' = due /\ queued > 0
        /\ feeding' = [feeding EXCEPT ![f] =
                         IF conf.service_speed = 0 THEN "drop" ELSE "read"]
    BY <1>3 DEF BeginFeed
  <2>2. fed = 1 => conf.service_speed = 0
    BY <1>1, <2>1 DEF FedInv
  <2>3. fed = 1 => \A g \in Feeders : feeding'[g] \notin {"read", "feed"}
    BY <1>1, <2>1, <2>2 DEF FedInv
  <2> QED
    BY <1>2, <2>1, <2>2, <2>3 DEF FedInv
<1>4. CASE DropTimer(f)
  <2>1. /\ fed' = fed /\ feeding[f] = "drop"
        /\ feeding' = [feeding EXCEPT ![f] = "idle"]
    BY <1>4 DEF DropTimer
  <2>2. conf.service_speed = 0
    BY <2>1 DEF TimerInv
  <2>3. fed = 1 => \A g \in Feeders : feeding'[g] \notin {"read", "feed"}
    BY <1>1, <2>1 DEF FedInv
  <2> QED
    BY <1>2, <2>1, <2>2, <2>3 DEF FedInv
<1>5. CASE ReadSpeed(f)
  <2>1. fed' = fed /\ feeding[f] = "read"
    BY <1>5 DEF ReadSpeed
  <2>2. fed = 0
    BY <1>1, <2>1 DEF FedInv
  <2> QED
    BY <2>1, <2>2 DEF FedInv
<1>6. CASE feed_service_token(f)
  <2>1. /\ fed' = fed + 1 /\ feeding[f] = "feed" /\ due' = due /\ queued' = queued
        /\ feeding' = [feeding EXCEPT ![f] = "wait"]
    BY <1>6 DEF feed_service_token
  <2>2. fed = 0
    BY <1>1, <2>1 DEF FedInv
  <2>3. /\ due = 0 /\ queued = 0
        /\ \A g \in Feeders : g # f => feeding[g] = "idle"
    BY <2>1, SoleFeed DEF ChainInv
  <2>4. \A g \in Feeders : feeding'[g] \notin {"read", "feed"}
    BY <1>1, <2>1, <2>3
  <2>5. fed' <= 1
    BY <2>1, <2>2
  <2> QED
    BY <2>1, <2>3, <2>4, <2>5 DEF FedInv
<1>7. CASE WaitAgain(f)
  <2>1. /\ fed' = fed /\ feeding[f] = "wait"
        /\ feeding' = [feeding EXCEPT ![f] = "idle"]
    BY <1>7 DEF WaitAgain
  <2>2. fresh = 0 /\ due = 0 /\ queued = 0
    BY <2>1, SoleFeed DEF ChainInv
  <2>3. due' = 0 /\ queued' = 0
    BY <1>7, <2>2 DEF WaitAgain, StartWait
  <2>4. fed = 1 => \A g \in Feeders : feeding'[g] \notin {"read", "feed"}
    BY <1>1, <2>1 DEF FedInv
  <2> QED
    BY <2>1, <2>3, <2>4 DEF FedInv
<1> QED
  BY <1>3, <1>4, <1>5, <1>6, <1>7 DEF FeedStep

\* module_runtime: a limit that is set, like one that is kept, finds no wait due.
LEMMA FedUpdate ==
  ASSUME Inv, TimerInv, ChainInv, FedInv, updates <= 1 \/ Fixed, UpdateStep
  PROVE  FedInv'
<1> USE DEF GoUpdate, timerVars, feedVars, history
<1>1. /\ fresh \in Nat /\ due \in Nat /\ queued \in Nat
      /\ conf \in Loaded /\ newconf \in Loaded
  BY ChainTypes DEF Inv, TypeOK, ConfTypeOK, UpdateStep, CopySafeIp, CopySpeed,
     NewTimer, FirstWait, NoTimer, CopyLimit
<1>2. fed' = fed /\ feeding' = feeding
  BY Zenon DEF UpdateStep, CopySafeIp, CopySpeed, NewTimer, FirstWait, NoTimer,
     CopyLimit
<1> SUFFICES ASSUME fed = 1
             PROVE  conf'.service_speed # 0 => due' = 0 /\ queued' = 0
  BY <1>2 DEF FedInv
<1>3. CASE CopySafeIp \/ CopyLimit
  <2>1. conf'.service_speed = conf.service_speed /\ UNCHANGED <<due, queued>>
    BY <1>1, <1>3 DEF CopySafeIp, CopyLimit, Loaded
  <2> QED
    BY <2>1 DEF FedInv
<1>4. CASE CopySpeed
  <2>1. updating = "speed" /\ UNCHANGED <<due, queued>>
    BY <1>4 DEF CopySpeed
  <2>2. conf.service_speed = 0 => due = 0 /\ queued = 0
    BY <2>1 DEF TimerInv, Untouched, NoFeeds
  <2> QED
    BY <2>1, <2>2 DEF FedInv
<1>5. CASE NewTimer
  <2>1. /\ updating = "new timer" /\ due' = 0
        /\ queued' = queued + fresh + due
    BY <1>5 DEF NewTimer, AbortWaits
  <2>2. fresh = 0 /\ due = 0 /\ queued = 0
    BY <2>1, FeedsZero DEF ChainInv
  <2>3. queued' = 0
    <3>1. queued' = queued + fresh + due
      BY <2>1
    <3> QED
      BY ONLY <2>2, <3>1
  <2> QED
    BY <2>1, <2>3
<1>6. CASE FirstWait
  <2>1. updating = "wait"
    BY <1>6 DEF FirstWait
  <2>2. fresh = 0 /\ due = 0 /\ queued = 0
    BY <2>1, FeedsZero DEF ChainInv
  <2>3. due' = 0 /\ queued' = 0
    BY <1>6, <2>2 DEF FirstWait, StartWait
  <2> QED
    BY <2>3
<1>7. CASE NoTimer
  <2>1. updating = "no timer" /\ conf' = conf
    BY <1>7 DEF NoTimer
  <2>2. conf.service_speed = 0
    BY <2>1 DEF TimerInv
  <2> QED
    BY <2>1, <2>2
<1> QED
  BY <1>3, <1>4, <1>5, <1>6, <1>7 DEF UpdateStep

\* Every step of the server keeps FedInv.
LEMMA FedNext ==
  ASSUME NEW s, OneLimit(s)
  PROVE  Inv /\ TimerInv /\ ChainInv /\ FedInv /\ [Next]_vars => FedInv'
<1> SUFFICES ASSUME Inv, TimerInv, ChainInv, FedInv, [Next]_vars
             PROVE  FedInv'
  OBVIOUS
<1> USE DEF timerVars, feedVars, history
<1>1. CASE UNCHANGED <<conf, due, queued, feeding, fed>>
  BY <1>1, Zenon DEF FedInv
<1>2. CASE Second
  <2>1. fed' = 0
    BY <1>2 DEF Second
  <2> QED
    BY <2>1 DEF FedInv
<1>3. CASE Expire
  <2>1. UNCHANGED <<conf, feeding, fed>> /\ due > 0
    BY <1>3 DEF Expire
  <2>2. fed = 1 => conf.service_speed = 0
    BY <2>1 DEF FedInv
  <2> QED
    BY <2>1, <2>2 DEF FedInv
<1>4. CASE \E f \in Feeders : FeedStep(f)
  BY <1>4, FedFeed, FewUpdates
<1>5. CASE UpdateStep
  BY <1>5, FedUpdate, FewUpdates
<1>6. CASE \E c \in NewConfs : Update(c)
  BY <1>6, <1>1, Zenon DEF Update
<1>7. CASE AcceptStep \/ Release \/ AcceptFails \/ \E ip \in Ips : Accept(ip)
  BY <1>7, <1>1, AcceptFrame
<1>8. CASE UNCHANGED vars
  BY <1>8, <1>1, Zenon DEF vars
<1> QED
  BY <1>2, <1>3, <1>4, <1>5, <1>6, <1>7, <1>8 DEF Next

\* The speeds and tokens of one limit do not exceed it.
LEMMA AllowedLimit ==
  ASSUME NEW s, OneLimit(s), NEW x \in Int, Allowed(x)
  PROVE  x <= s
<1>1. PICK c \in AllConfs : x <= c.service_speed
  BY DEF Allowed
<1>2. c.service_speed \in Int
  BY ConfAssumption DEF Config
<1>3. s \in Nat /\ (c.service_speed <= 0 \/ c.service_speed = s)
  BY DEF OneLimit
<1> QED
  BY <1>1, <1>2, <1>3

\* What the types and the ranges say of the tokens.
LEMMA GrantTypes ==
  ASSUME Inv, NEW s, OneLimit(s)
  PROVE  /\ s \in Nat /\ granted \in Nat /\ fed \in Nat
         /\ token \in Int /\ token_read \in Int /\ token <= s
         /\ accepting = "take" => token_read <= s
         /\ \A f \in Feeders : speed_read[f] \in Int
         /\ \A f \in Feeders : feeding[f] = "feed" => speed_read[f] <= s
<1>1. /\ s \in Nat /\ granted \in Nat /\ fed \in Nat /\ token \in Int
      /\ token_read \in Int /\ \A f \in Feeders : speed_read[f] \in Int
  BY DEF OneLimit, Inv, TypeOK, CountTypeOK, TokenTypeOK
<1>2. /\ Allowed(token) /\ (accepting = "take" => Allowed(token_read))
      /\ \A f \in Feeders : feeding[f] = "feed" => Allowed(speed_read[f])
  BY DEF Inv, TokenInv
<1> QED
  BY <1>1, <1>2, AllowedLimit

\* Every step of the server keeps the tokens taken within the limit.
LEMMA GrantNext ==
  ASSUME NEW s, OneLimit(s)
  PROVE  Inv /\ SpeedInv /\ FedInv /\ GrantInv(s) /\ [Next]_vars => GrantInv(s)'
<1> SUFFICES ASSUME Inv, SpeedInv, FedInv, GrantInv(s), [Next]_vars
             PROVE  GrantInv(s)'
  OBVIOUS
<1> USE DEF GoAccept, acceptVars, history
<1>0. /\ s \in Nat /\ granted \in Nat /\ fed \in Nat
      /\ token \in Int /\ token_read \in Int /\ token <= s
      /\ accepting = "take" => token_read <= s
  BY GrantTypes
<1>1. ASSUME UNCHANGED <<token, token_read, fed, granted>>,
             accepting' = accepting
             \/ accepting' \in {"listen", "enabled", "limit", "connect", "do_accept"}
      PROVE  GrantInv(s)'
  BY <1>1 DEF GrantInv, Cap
<1>2. CASE Second
  <2>1. fed' = 0 /\ granted' = 0 /\ UNCHANGED <<token, token_read, accepting>>
    BY <1>2 DEF Second
  <2> QED
    BY <1>0, <2>1 DEF GrantInv, Cap
<1>3. CASE \E f \in Feeders : FeedStep(f)
  <2>1. PICK f \in Feeders : FeedStep(f)
    BY <1>3
  <2>2. CASE feed_service_token(f)
    <3>1. /\ fed' = fed + 1 /\ token' = speed_read[f] /\ feeding[f] = "feed"
          /\ UNCHANGED <<granted, accepting, token_read>>
      BY <2>2 DEF feed_service_token
    <3>2. fed = 0
      BY <1>0, <3>1 DEF FedInv
    <3>3. token' \in Int /\ token' <= s
      BY <3>1, GrantTypes
    <3>4. Cap(s) = s /\ Cap(s)' = s + s
      BY <3>1, <3>2 DEF Cap
    <3>5. granted <= s /\ (accepting \in {"read", "take"} => granted + 1 <= s)
      BY <3>4 DEF GrantInv
    <3>6. accepting \in {"token", "read", "take"} => s >= 1
      BY DEF GrantInv
    <3>7. granted' <= s + s /\ granted' + token' <= s + s
      BY <1>0, <3>1, <3>3, <3>5
    <3>8. accepting' \in {"read", "take"} => granted' + 1 <= s + s
      BY <1>0, <3>1, <3>5
    <3>9. accepting' = "take" => granted' + token_read' <= s + s
      BY <1>0, <3>1, <3>5
    <3> QED
      BY <3>1, <3>4, <3>6, <3>7, <3>8, <3>9 DEF GrantInv
  <2>3. CASE BeginFeed(f) \/ DropTimer(f) \/ ReadSpeed(f) \/ WaitAgain(f)
    <3>1. UNCHANGED <<token, token_read, fed, granted, accepting>>
      BY <2>3, Zenon DEF BeginFeed, DropTimer, ReadSpeed, WaitAgain
    <3> QED
      BY <1>1, <3>1
  <2> QED
    BY <2>1, <2>2, <2>3 DEF FeedStep
<1>4. CASE TestEnabled
  <2>1. /\ UNCHANGED <<token, token_read, fed, granted>>
        /\ accepting' \in {"do_accept", "limit", "token"}
        /\ accepting' = "token" => conf.service_speed # 0
    BY <1>4 DEF TestEnabled
  <2>2. accepting' = "token" => s >= 1
    BY <1>0, <2>1, TwoSpeeds
  <2> QED
    BY <2>1, <2>2 DEF GrantInv, Cap
<1>5. CASE TestToken
  <2>1. /\ UNCHANGED <<token, token_read, fed, granted>> /\ accepting = "token"
        /\ accepting' \in {"do_accept", "read"}
        /\ accepting' = "read" => ~(token <= 0)
    BY <1>5 DEF TestToken
  <2>2. granted + token <= Cap(s) /\ Cap(s) \in Nat
    BY <1>0 DEF GrantInv, Cap
  <2>3. accepting' = "read" => granted + 1 <= Cap(s)
    BY <1>0, <2>1, <2>2
  <2> QED
    BY <2>1, <2>3 DEF GrantInv, Cap
<1>6. CASE ReadToken
  <2>1. /\ UNCHANGED <<token, fed, granted>> /\ accepting = "read"
        /\ accepting' = "take" /\ token_read' = token
    BY <1>6 DEF ReadToken
  <2> QED
    BY <2>1 DEF GrantInv, Cap
<1>7. CASE TakeToken
  <2>1. /\ fed' = fed /\ accepting = "take" /\ accepting' = "limit"
        /\ token' = token_read - 1 /\ granted' = granted + 1
    BY <1>7 DEF TakeToken
  <2>2. /\ granted + 1 <= Cap(s) /\ granted + token_read <= Cap(s)
        /\ Cap(s) \in Nat /\ Cap(s)' = Cap(s)
    BY <1>0, <2>1 DEF GrantInv, Cap
  <2>3. granted' <= Cap(s) /\ granted' + token' <= Cap(s)
    BY <1>0, <2>1, <2>2
  <2> QED
    BY <2>1, <2>2, <2>3 DEF GrantInv
<1>8. CASE TestLimit \/ Connect \/ do_accept \/ AcceptFails \/ Release
           \/ \E ip \in Ips : Accept(ip)
  <2>1. /\ UNCHANGED <<token, token_read, fed, granted>>
        /\ \/ accepting' = accepting
           \/ accepting' \in {"listen", "enabled", "limit", "connect", "do_accept"}
    BY <1>8 DEF TestLimit, Connect, do_accept, AcceptFails, Release, Accept
  <2> QED
    BY <1>1, <2>1
<1>9. CASE Expire \/ UpdateStep \/ \E c \in NewConfs : Update(c)
  <2>1. UNCHANGED <<token, token_read, fed, granted, accepting>>
    BY <1>9, Zenon DEF Expire, UpdateStep, CopySafeIp, CopySpeed, NewTimer,
       FirstWait, NoTimer, CopyLimit, Update
  <2> QED
    BY <1>1, <2>1
<1>10. CASE UNCHANGED vars
  <2>1. UNCHANGED <<token, token_read, fed, granted, accepting>>
    BY <1>10, Zenon DEF vars
  <2> QED
    BY <1>1, <2>1
<1> QED
  BY <1>2, <1>3, <1>4, <1>5, <1>6, <1>7, <1>8, <1>9, <1>10 DEF Next, AcceptStep

\* With one speed limit, set or lifted at most once or left alone by any number of
\* updates, a second's connections take no more than twice the limit in tokens,
\* although the token count is read, lowered and restored without a lock.
THEOREM SpeedLimitSafe ==
  ASSUME NEW s, OneLimit(s)
  PROVE  Spec => []SpeedLimit
<1>1. Init => FedInv /\ GrantInv(s)
  BY DEF Init, FedInv, GrantInv, Cap, OneLimit
<1>2. Inv /\ GrantInv(s) => SpeedLimit
  <2> SUFFICES ASSUME Inv, GrantInv(s) PROVE SpeedLimit
    OBVIOUS
  <2>1. PICK c \in AllConfs : c.service_speed = s
    BY DEF OneLimit
  <2>2. s \in Nat /\ granted \in Nat /\ granted <= Cap(s)
    BY GrantTypes DEF GrantInv
  <2>3. granted <= 2 * s
    BY <2>2 DEF Cap
  <2> QED
    BY <2>1, <2>3 DEF SpeedLimit
<1>3. Inv /\ SpeedInv /\ TimerInv /\ ChainInv /\ [Next]_vars => ChainInv'
  BY ChainNext
<1>4. Inv /\ TimerInv /\ ChainInv /\ FedInv /\ [Next]_vars => FedInv'
  BY FedNext
<1>5. Inv /\ SpeedInv /\ FedInv /\ GrantInv(s) /\ [Next]_vars => GrantInv(s)'
  BY GrantNext
<1> QED
  BY <1>1, <1>2, <1>3, <1>4, <1>5, InitInv, NextInv, SpeedInit, SpeedNext,
     TimerInit, TimerNext, ChainInit, PTL DEF Spec
=============================================================================
