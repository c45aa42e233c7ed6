---------------------------- MODULE SessionProofs ----------------------------
(***************************************************************************)
(* Proofs about Session, for every configuration and every assumption on   *)
(* the client's latency.  TLC tries a few; here the timeouts are any       *)
(* natural numbers.                                                        *)
(***************************************************************************)
EXTENDS Session, TLAPS

\* A dead client has no Ping to answer, which keeps their ages bounded.
SessionInv == SessionTypeOK /\ (mute => pings = {})

\* The record fields of a configuration and of a world are numbers.
LEMMA ConfigType ==
    ASSUME SessionTypeOK
    PROVE  /\ config.auth \in Nat /\ config.interval \in Nat /\ config.timeout \in Nat
           /\ world.latency \in Nat /\ world.delay \in Nat
BY SessionAssumption DEF SessionTypeOK

\* Every step of the task, the client and the clock is well typed.
LEMMA SessionInvStep == SessionInv /\ [SessionNext]_tvars => SessionInv'
<1> SUFFICES ASSUME SessionInv, [SessionNext]_tvars PROVE SessionInv'
  OBVIOUS
<1> USE DEF SessionInv, SessionTypeOK, clock, client
<1>a. /\ config.auth \in Nat /\ config.interval \in Nat /\ config.timeout \in Nat
      /\ world.latency \in Nat /\ world.delay \in Nat /\ MaxUnread \in Nat \ {0}
  BY ConfigType, SessionAssumption
<1>1. CASE Upgrade
  BY <1>1 DEF Upgrade, Places
<1>2. CASE AuthTimeout
  BY <1>2 DEF AuthTimeout, Places
<1>3. CASE FirstMessage
  BY <1>3 DEF FirstMessage, Places
<1>4. CASE Refused
  BY <1>4 DEF Refused, Places
<1>5. CASE Begin
  BY <1>5, <1>a DEF Begin, Places
<1>6. CASE Outbound
  BY <1>6 DEF Outbound, Write, Places
<1>7. CASE Inbound
  <2>1. unread' \in 0..MaxUnread /\ silence' \in 0..(config.timeout + 1)
    BY <1>7, <1>a DEF Inbound
  <2>2. /\ pc' \in Places /\ writing' \in {"none", "frame", "pong", "ping"}
        /\ waited' \in Nat
        /\ why' \in {"none", "client", "socket", "write", "slow", "heartbeat"}
    <3>1. \/ pc' = "writing" /\ writing' = "pong" /\ waited' = 0 /\ why' = why
          \/ pc' = "check" /\ UNCHANGED <<writing, waited, why>>
          \/ pc' = "ended" /\ why' = "client" /\ UNCHANGED <<writing, waited>>
      BY <1>7, Zenon DEF Inbound, Write
    <3>2. QED
      BY <3>1 DEF Places
  <2>3. queued' \in BOOLEAN
    BY <1>7, Zenon DEF Inbound
  <2>4. QED
    BY <1>7, <2>1, <2>2, <2>3 DEF Inbound
<1>8. CASE Tick
  BY <1>8, <1>a DEF Tick, TickWith, Write, Places
<1>9. CASE WriteDone
  BY <1>9, <1>a DEF WriteDone, Places
<1>10. CASE WriteTimeout
  BY <1>10 DEF WriteTimeout, Places
<1>11. CASE Check
  BY <1>11 DEF Check, Places
<1>12. CASE Closed
  BY <1>12 DEF Closed, Places
<1>13. CASE SocketFails
  BY <1>13 DEF SocketFails, Places
<1>14. CASE Enqueue
  BY <1>14 DEF Enqueue
<1>15. CASE GoMute
  BY <1>15 DEF GoMute
<1>16. CASE Chatter
  BY <1>16, <1>a DEF Chatter
<1>17. CASE Answer
  <2>1. unread' \in 0..MaxUnread
    BY <1>17, <1>a DEF Answer, Lesser
  <2>2. pings' \subseteq pings
    BY <1>17 DEF Answer
  <2>3. QED
    BY <1>17, <2>1, <2>2 DEF Answer
<1>18. CASE Pass
  <2>1. pings' \subseteq 0..world.latency
    <3>1. CASE mute
      BY <1>18, <3>1 DEF Pass
    <3>2. CASE ~mute
      <4>1. \A a \in pings : a + 1 \in 0..world.latency
        BY <1>18, <1>a, <3>2 DEF Pass, ClientInTime
      <4>2. QED
        BY <1>18, <4>1 DEF Pass
    <3>3. QED
      BY <3>1, <3>2
  <2>2. (mute => pings = {})'
    BY <1>18 DEF Pass
  <2>3. silence' \in 0..(config.timeout + 1) /\ until' \in 0..config.interval
    BY <1>18, <1>a DEF Pass, Lesser
  <2>4. held' \in 0..(2 * config.auth + 1) /\ waited' \in Nat
    BY <1>18, <1>a DEF Pass, Lesser
  <2>5. QED
    BY <1>18, <2>1, <2>2, <2>3, <2>4 DEF Pass
<1>19. CASE UNCHANGED tvars
  BY <1>19 DEF tvars
<1>20. QED
  BY <1>1, <1>2, <1>3, <1>4, <1>5, <1>6, <1>7, <1>8, <1>9,
     <1>10, <1>11, <1>12, <1>13, <1>14, <1>15, <1>16, <1>17, <1>18, <1>19 DEF SessionNext

LEMMA SessionInvHolds == SessionSpec => []SessionInv
<1>1. SessionInit => SessionInv
  <2> SUFFICES ASSUME SessionInit PROVE SessionInv
    OBVIOUS
  <2>1. config \in Configs /\ world \in Worlds
    BY DEF SessionInit
  <2>2. /\ config.auth \in Nat /\ config.timeout \in Nat /\ config.interval \in Nat
        /\ MaxUnread \in Nat
    BY <2>1, SessionAssumption
  <2>3. silence \in 0..(config.timeout + 1) /\ until \in 0..config.interval
    BY <2>2 DEF SessionInit
  <2>4. unread \in 0..MaxUnread /\ pings \subseteq 0..world.latency
    BY <2>2 DEF SessionInit
  <2>5. held \in 0..(2 * config.auth + 1) /\ waited \in Nat
    BY <2>2 DEF SessionInit
  <2>6. queued \in BOOLEAN /\ mute \in BOOLEAN
    BY DEF SessionInit
  <2>7. QED
    BY <2>1, <2>3, <2>4, <2>5, <2>6 DEF SessionInit, SessionInv, SessionTypeOK, Places
<1>2. QED
  BY <1>1, SessionInvStep, PTL DEF SessionSpec

\* Every reachable state of a session's clocks is well typed: in particular no
\* Ping is left unanswered for longer than the latency allows.
THEOREM SessionTypeCorrect == SessionSpec => []SessionTypeOK
BY SessionInvHolds, PTL DEF SessionInv

-----------------------------------------------------------------------------
(* How long an unauthenticated client is waited for.                       *)

\* Each of the two waits is within auth_timeout, and the second begins after
\* at most that long.
AuthInv ==
    /\ pc = "handshake" => held = waited /\ waited <= config.auth
    /\ pc = "auth" => held <= config.auth + waited /\ waited <= config.auth

LEMMA AuthStep == SessionInv /\ AuthInv /\ [SessionNext]_tvars => AuthInv'
<1> SUFFICES ASSUME SessionInv, AuthInv, [SessionNext]_tvars PROVE AuthInv'
  OBVIOUS
<1>a. config.auth \in Nat /\ held \in Nat /\ waited \in Nat
  BY ConfigType DEF SessionInv, SessionTypeOK
<1>1. CASE Upgrade
  BY <1>1, <1>a DEF Upgrade, AuthInv
<1>2. CASE Pass
  BY <1>2, <1>a DEF Pass, Waiting, Deadline, Joined, Lesser, AuthInv
<1>3. CASE UNCHANGED <<config, pc, held, waited>>
  BY <1>3 DEF AuthInv
<1>4. CASE pc' \notin {"handshake", "auth"}
  BY <1>4 DEF AuthInv
<1>5. QED
  BY <1>1, <1>2, <1>3, <1>4
     DEF SessionNext, AuthTimeout, FirstMessage, Refused, Begin, Outbound, Inbound, Tick,
         TickWith, Write, WriteDone, WriteTimeout, Check, Closed, SocketFails, Enqueue,
         Chatter, Answer, GoMute, clock, tvars

(***************************************************************************)
(* The waits for the upgrade and for the first message last at most twice  *)
(* auth_timeout together, whatever auth_timeout is and whenever the        *)
(* upgrade completes: not once, as Config::auth_timeout is documented, but *)
(* never more.  What is written after them, the refusal or the             *)
(* acknowledgement, has no deadline, and nothing is claimed of it.         *)
(***************************************************************************)
THEOREM AuthWaitsBounded ==
    SessionSpec => [](pc \in {"handshake", "auth"} => held <= 2 * config.auth)
<1>1. SessionInit => AuthInv
  BY SessionAssumption DEF SessionInit, AuthInv
<1>2. SessionInv /\ AuthInv => (pc \in {"handshake", "auth"} => held <= 2 * config.auth)
  BY ConfigType DEF SessionInv, SessionTypeOK, AuthInv
<1>3. QED
  BY <1>1, <1>2, AuthStep, SessionInvHolds, PTL DEF SessionSpec

-----------------------------------------------------------------------------
(* Who is closed for silence.                                              *)

\* The Pings to be answered, one being written included: with writes that take
\* no time it is as good as sent.
Outstanding == IF pc = "writing" /\ writing = "ping" THEN pings \cup {0} ELSE pings

(***************************************************************************)
(* How long a live client of a responsive world can have been silent.  The *)
(* answer to the newest answered Ping ended the silence before, so it is   *)
(* no longer than the time since the last tick, or, with Pings out, one    *)
(* interval more than the age of one of them.  While a message is waiting  *)
(* to be read no time passes, and only the overall bound is needed.        *)
(***************************************************************************)
SilenceBounded ==
    /\ silence <= config.interval + world.latency
    /\ (unread = 0 /\ Outstanding = {}) => silence <= config.interval - until
    /\ (unread = 0 /\ Outstanding # {}) =>
            \E a \in Outstanding : silence <= config.interval + a

Responsive == world.delay = 0 /\ config.interval + world.latency < config.timeout

ResponsiveInv ==
    Responsive => /\ why = "heartbeat" => mute
                  /\ (~mute /\ pc \in Joined) => SilenceBounded

\* Neither the configuration nor what is assumed of the client changes.
LEMMA ConfigKept == [SessionNext]_tvars => UNCHANGED <<config, world>>
<1>1. Upgrade \/ AuthTimeout \/ FirstMessage \/ Refused \/ Begin => UNCHANGED <<config, world>>
  BY DEF Upgrade, AuthTimeout, FirstMessage, Refused, Begin
<1>2. Outbound \/ Inbound \/ Tick \/ WriteDone \/ WriteTimeout => UNCHANGED <<config, world>>
  BY DEF Outbound, Inbound, Tick, TickWith, WriteDone, WriteTimeout
<1>3. Check \/ Closed \/ SocketFails \/ Enqueue \/ Chatter => UNCHANGED <<config, world>>
  BY DEF Check, Closed, SocketFails, Enqueue, Chatter
<1>4. Answer \/ GoMute \/ Pass => UNCHANGED <<config, world>>
  BY DEF Answer, GoMute, Pass
<1>5. QED
  BY <1>1, <1>2, <1>3, <1>4 DEF SessionNext, tvars

\* No step closes a responsive client for silence.
LEMMA ResponsiveStep == SessionInv /\ ResponsiveInv /\ [SessionNext]_tvars => ResponsiveInv'
<1> SUFFICES ASSUME SessionInv, ResponsiveInv, [SessionNext]_tvars, Responsive
             PROVE  ResponsiveInv'
  BY ConfigKept DEF ResponsiveInv, Responsive
<1> USE DEF clock, client
<1>a. /\ config.interval \in Nat /\ config.timeout \in Nat /\ world.latency \in Nat
      /\ silence \in Nat /\ until \in 0..config.interval /\ unread \in Nat
      /\ pings \subseteq 0..world.latency /\ MaxUnread \in Nat \ {0} /\ waited \in Nat
  BY ConfigType, SessionAssumption DEF SessionInv, SessionTypeOK
<1>b. /\ world.delay = 0 /\ config.interval + world.latency < config.timeout
      /\ why = "heartbeat" => mute
      /\ (~mute /\ pc \in Joined) => SilenceBounded
  BY DEF ResponsiveInv, Responsive
<1>c. ASSUME silence' = 0, until' \in 0..config.interval, Outstanding' \subseteq Nat
      PROVE  SilenceBounded'
  <2>1. UNCHANGED <<config, world>>
    BY ConfigKept
  <2>2. \A a \in Outstanding' : 0 <= config.interval + a
    BY <1>a, <1>c
  <2>3. 0 <= config.interval + world.latency /\ 0 <= config.interval - until'
    BY <1>a, <1>c
  <2>4. QED
    BY <1>c, <2>1, <2>2, <2>3 DEF SilenceBounded
<1>1. CASE pc' \notin Joined /\ why' \in {why, "client", "socket", "write", "slow"} /\ mute' = mute
  BY <1>1, <1>b DEF ResponsiveInv
<1>2. CASE Begin
  <2>1. SilenceBounded'
    BY <1>2, <1>a, <1>c DEF Begin, Outstanding
  <2>2. QED
    BY <1>2, <1>b, <2>1 DEF Begin, ResponsiveInv
<1>3. CASE Outbound
  BY <1>3, <1>b DEF Outbound, Write, Joined, SilenceBounded, Outstanding, ResponsiveInv
<1>4. CASE Inbound
  <2>1. SilenceBounded'
    <3>1. silence' = 0 /\ until' = until /\ pings' = pings
      BY <1>4 DEF Inbound
    <3>2. Outstanding' \subseteq Nat
      BY <1>a, <3>1 DEF Outstanding
    <3>3. QED
      BY <1>a, <1>c, <3>1, <3>2
  <2>2. QED
    BY <1>4, <1>b, <2>1 DEF Inbound, Write, ResponsiveInv
<1>5. CASE Tick
  <2>1. CASE mute
    BY <1>5, <2>1 DEF Tick, TickWith, ResponsiveInv
  <2>2. CASE ~mute
    <3>1. SilenceBounded /\ pc = "select" /\ until = 0
      BY <1>5, <1>b, <2>2 DEF Tick, TickWith, Joined
    <3>2. ~(silence > config.timeout) /\ silence # config.timeout
      BY <1>a, <1>b, <3>1 DEF SilenceBounded
    <3>3. /\ pc' = "writing" /\ writing' = "ping" /\ until' = config.interval
          /\ UNCHANGED <<config, world, silence, unread, pings, mute, why>>
      BY <1>5, <3>2 DEF Tick, TickWith, Write
    <3>4. Outstanding = pings /\ Outstanding' = pings \cup {0}
      BY <3>1, <3>3 DEF Outstanding
    <3>5. SilenceBounded'
      BY <1>a, <3>1, <3>3, <3>4 DEF SilenceBounded
    <3>6. QED
      BY <1>b, <3>3, <3>5 DEF ResponsiveInv
  <2>3. QED
    BY <2>1, <2>2
<1>6. CASE WriteDone
  <2>1. ~mute => Outstanding' = Outstanding
    BY <1>6 DEF WriteDone, Outstanding
  <2>2. QED
    BY <1>6, <1>b, <2>1 DEF WriteDone, Joined, SilenceBounded, ResponsiveInv
<1>7. CASE Check
  BY <1>7, <1>b DEF Check, Joined, SilenceBounded, Outstanding, ResponsiveInv
<1>8. CASE Enqueue
  BY <1>8, <1>b DEF Enqueue, SilenceBounded, Outstanding, ResponsiveInv
<1>9. CASE Chatter \/ Answer
  <2>1. unread' # 0 /\ UNCHANGED <<config, world, pc, silence, mute, why>>
    BY <1>9, <1>a DEF Chatter, Answer, Lesser
  <2>2. QED
    BY <1>b, <2>1 DEF SilenceBounded, ResponsiveInv
<1>10. CASE GoMute
  BY <1>10 DEF GoMute, ResponsiveInv
<1>11. CASE Pass
  <2>1. UNCHANGED <<config, world, pc, writing, unread, mute, why>>
    BY <1>11 DEF Pass
  <2>2. ASSUME ~mute, pc \in Joined PROVE SilenceBounded'
    <3>1. pc = "select" /\ unread = 0 /\ until > 0
      BY <1>11, <1>a, <1>b, <2>2 DEF Pass, Waiting, ClientInTime, Joined
    <3>2. Outstanding = pings /\ Outstanding' = pings'
      BY <2>1, <3>1 DEF Outstanding
    <3>3. /\ silence' <= silence + 1 /\ silence' \in Nat
          /\ until' = until - 1 /\ pings' = {a + 1 : a \in pings}
      BY <1>11, <1>a, <3>1 DEF Pass, Joined, Lesser
    <3>4. SilenceBounded
      BY <1>b, <2>2
    <3>5. CASE pings = {}
      BY <1>a, <2>1, <3>1, <3>2, <3>3, <3>4, <3>5 DEF SilenceBounded
    <3>6. CASE pings # {}
      <4>1. PICK a \in pings : silence <= config.interval + a
        BY <3>1, <3>2, <3>4, <3>6 DEF SilenceBounded
      <4>2. a + 1 \in pings' /\ silence' <= config.interval + (a + 1)
        BY <1>a, <3>3, <4>1
      <4>3. a + 1 <= world.latency
        BY <1>11, <1>a, <2>2, <4>1 DEF Pass, ClientInTime
      <4>4. QED
        BY <1>a, <2>1, <3>2, <3>3, <4>2, <4>3 DEF SilenceBounded
    <3>7. QED
      BY <3>5, <3>6
  <2>3. QED
    BY <1>b, <2>1, <2>2 DEF ResponsiveInv
<1>12. CASE UNCHANGED tvars
  BY <1>12, <1>b DEF tvars, SilenceBounded, Outstanding, ResponsiveInv
<1>13. CASE Upgrade \/ AuthTimeout \/ FirstMessage \/ Refused \/ WriteTimeout \/ Closed
            \/ SocketFails
  <2>1. pc' \notin Joined /\ why' \in {why, "client", "socket", "write", "slow"} /\ mute' = mute
    BY <1>13 DEF Upgrade, AuthTimeout, FirstMessage, Refused, WriteTimeout, Closed,
                 SocketFails, Joined
  <2>2. QED
    BY <1>1, <2>1
<1>14. QED
  BY <1>2, <1>3, <1>4, <1>5, <1>6, <1>7, <1>8, <1>9, <1>10, <1>11, <1>12, <1>13
     DEF SessionNext

\* A live client that answers within the latency, over a socket that takes
\* writes at once, is never closed for silence when heartbeat_timeout is more
\* than heartbeat_interval plus that latency: for every such configuration,
\* whatever is published and in whatever order select! picks.
THEOREM ResponsiveAlwaysKept == SessionSpec => []ResponsiveKept
<1>1. SessionInit => ResponsiveInv
  BY DEF SessionInit, ResponsiveInv, Joined
<1>2. ResponsiveInv => ResponsiveKept
  BY DEF ResponsiveInv, Responsive, ResponsiveKept
<1>3. QED
  BY <1>1, <1>2, ResponsiveStep, SessionInvHolds, PTL DEF SessionSpec

=============================================================================
