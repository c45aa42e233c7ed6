------------------------------ MODULE Session ------------------------------
(***************************************************************************)
(* The clocks of one connection (src/server.rs: connection, authenticate,  *)
(* send_now, session): auth_timeout, the heartbeat interval and timeout,   *)
(* and the deadline on writes, which share one loop.  What the messages    *)
(* say and what the registry holds is Server's business; here a message is *)
(* something to read or to write, and time passes in whole units.          *)
(*                                                                         *)
(* Computing takes no time: a unit of time passes only while the task has  *)
(* nothing it could do.  A timer fires less than a unit late, if at all,   *)
(* which decides the one comparison that depends on it (Tick).             *)
(***************************************************************************)
EXTENDS Integers, FiniteSets

CONSTANTS
    Configs,     \* values of Config: auth_timeout, interval and timeout
    Worlds,      \* what is assumed of a live client: latency and delay
    MaxUnread    \* bound: messages kept unread in the socket

ASSUME SessionAssumption ==
    /\ Configs \subseteq [auth : Nat, interval : Nat, timeout : Nat]
    /\ Worlds \subseteq [latency : Nat, delay : Nat]
    /\ MaxUnread \in Nat \ {0}

VARIABLES
    config,    \* Shared::config
    world,     \* latency: a Ping is answered within it; delay: a write takes no longer
    pc,        \* where the task is, see Places
    writing,   \* the message send_now is writing
    held,      \* time since accept, kept up to one past twice auth_timeout
    waited,    \* time in the current wait that has a deadline
    silence,   \* last_seen.elapsed(), kept up to one past the timeout
    until,     \* time to the next heartbeat tick, 0 when it is due
    queued,    \* rx holds a frame
    unread,    \* messages that arrived and were not read
    pings,     \* ages of the Pings the client has still to answer
    mute,      \* the client is dead: it sends nothing and need not read
    why        \* what ended the session

clock == <<held, waited, silence, until>>
client == <<queued, unread, pings, mute>>
tvars == <<config, world, pc, writing, clock, client, why>>

Lesser(a, b) == IF a < b THEN a ELSE b

\* "refusing": writing the error and closing after a failed auth.
Places == {"handshake", "auth", "refusing", "ack", "select", "writing", "check",
           "closing", "ended"}

Joined == {"select", "writing", "check"}

\* Config::validate, for the fields of this module.
Valid(k) == k.interval # 0

\* What a wait may take: auth_timeout for the upgrade and for the first
\* message, heartbeat_timeout for a write.
Deadline == IF pc \in {"handshake", "auth"} THEN config.auth ELSE config.timeout

SessionInit ==
    /\ config \in {k \in Configs : Valid(k)}
    /\ world \in Worlds
    /\ pc = "handshake" /\ writing = "none" /\ why = "none"
    /\ held = 0 /\ waited = 0 /\ silence = 0 /\ until = 0
    /\ queued = FALSE /\ unread = 0 /\ pings = {} /\ mute = FALSE

-----------------------------------------------------------------------------
(* Up to the session.                                                      *)

\* The upgrade is complete: authenticate waits under a timeout of its own.
Upgrade ==
    /\ pc = "handshake" /\ ~mute
    /\ pc' = "auth" /\ waited' = 0
    /\ UNCHANGED <<config, world, writing, held, silence, until, client, why>>

\* Mutant: the upgrade is not on the auth clock.
AuthTimeoutNotForUpgrade ==
    /\ pc = "auth" /\ waited = Deadline
    /\ pc' = "refusing"
    /\ UNCHANGED <<config, world, writing, clock, client, why>>

\* auth_timeout has run out, on the handshake or on the auth message.
AuthTimeout ==
    /\ pc \in {"handshake", "auth"} /\ waited = Deadline
    /\ pc' = IF pc = "auth" THEN "refusing" ELSE "ended"
    /\ UNCHANGED <<config, world, writing, clock, client, why>>

\* The first message came: a valid auth, something else, or a token on which
\* the validator panics.
FirstMessage ==
    /\ pc = "auth" /\ ~mute
    /\ pc' \in {"ack", "refusing", "ended"}
    /\ UNCHANGED <<config, world, writing, clock, client, why>>

\* The refusal was written, or could not be.
Refused ==
    /\ pc = "refusing" /\ pc' = "ended"
    /\ UNCHANGED <<config, world, writing, clock, client, why>>

\* `authenticated` was written; the first tick is skipped, last_seen is now.
Begin ==
    /\ pc = "ack" /\ pc' = "select"
    /\ held' = 0 /\ waited' = 0 /\ silence' = 0 /\ until' = config.interval
    /\ UNCHANGED <<config, world, writing, client, why>>

-----------------------------------------------------------------------------
(* The loop.  select! picks any branch that is ready.                      *)

Write(m) == pc' = "writing" /\ writing' = m /\ waited' = 0

Outbound ==
    /\ pc = "select" /\ queued
    /\ Write("frame") /\ queued' = FALSE
    /\ UNCHANGED <<config, world, held, silence, until, unread, pings, mute, why>>

\* Mutant: a Pong frame is not a sign of life.
InboundNotPong ==
    /\ pc = "select" /\ unread > 0
    /\ unread' = unread - 1
    /\ \/ Write("pong") /\ silence' = 0 /\ UNCHANGED <<queued, why>>
       \/ pc' = "check" /\ UNCHANGED <<silence, queued, writing, waited, why>>
       \/ pc' = "check" /\ silence' = 0 /\ queued' = TRUE /\ UNCHANGED <<writing, waited, why>>
       \/ pc' = "ended" /\ silence' = 0 /\ why' = "client" /\ UNCHANGED <<writing, waited, queued>>
    /\ UNCHANGED <<config, world, held, until, pings, mute>>

\* A message is read: a Ping to answer; a Pong, or a text or binary message,
\* whose reply if any is queued; a Close, or a message whose handler panics.
Inbound ==
    /\ pc = "select" /\ unread > 0
    /\ unread' = unread - 1 /\ silence' = 0
    /\ \/ Write("pong") /\ UNCHANGED <<queued, why>>
       \/ pc' = "check" /\ queued' \in {queued, TRUE} /\ UNCHANGED <<writing, waited, why>>
       \/ pc' = "ended" /\ why' = "client" /\ UNCHANGED <<writing, waited, queued>>
    /\ UNCHANGED <<config, world, held, until, pings, mute>>

\* The answer to a tick that finds the client silent, or not.
TickWith(silent) ==
    /\ pc = "select" /\ until = 0
    /\ IF silent
       THEN pc' = "closing" /\ why' = "heartbeat" /\ UNCHANGED <<writing, waited>>
       ELSE Write("ping") /\ UNCHANGED why
    /\ UNCHANGED <<config, world, held, silence, client>>

\* Mutant: the ticks come every heartbeat_timeout.
TickWrongPeriod == TickWith(silence > config.timeout) /\ until' = config.timeout

\* The heartbeat.  It is a little late or not, so that a silence of
\* heartbeat_timeout may be found longer than that or not.
\* MissedTickBehavior::Delay: the next tick is one interval on.
Tick ==
    /\ \E late \in BOOLEAN :
            TickWith(silence > config.timeout \/ (late /\ silence = config.timeout))
    /\ until' = config.interval

\* Mutant: what was written counts as a sign of life.
WriteDoneIsLife ==
    /\ pc = "writing" /\ pc' = "check"
    /\ pings' = IF writing = "ping" /\ ~mute THEN pings \cup {0} ELSE pings
    /\ writing' = "none" /\ silence' = 0 /\ waited' = 0
    /\ UNCHANGED <<config, world, held, until, queued, unread, mute, why>>

\* The socket took the message; a Ping is now on its way to the client.
WriteDone ==
    /\ pc = "writing" /\ pc' = "check"
    /\ pings' = IF writing = "ping" /\ ~mute THEN pings \cup {0} ELSE pings
    /\ writing' = "none" /\ waited' = 0
    /\ UNCHANGED <<config, world, held, silence, until, queued, unread, mute, why>>

\* Mutant: a message of the queue is written without a deadline.
WriteTimeoutNotForFrames ==
    /\ pc = "writing" /\ writing # "frame" /\ waited = Deadline
    /\ pc' = "ended" /\ writing' = "none" /\ why' = "write"
    /\ UNCHANGED <<config, world, clock, client>>

\* send_now gives up, and with it the session.
WriteTimeout ==
    /\ pc = "writing" /\ waited = Deadline
    /\ pc' = "ended" /\ writing' = "none" /\ why' = "write"
    /\ UNCHANGED <<config, world, clock, client>>

\* The end of a turn: on, or close a client with too many drops.
Check ==
    /\ pc = "check"
    /\ \/ pc' = "select" /\ UNCHANGED why
       \/ pc' = "closing" /\ why' = "slow"
    /\ UNCHANGED <<config, world, writing, clock, client>>

\* sink.close returned.
Closed ==
    /\ pc = "closing" /\ pc' = "ended"
    /\ UNCHANGED <<config, world, writing, clock, client, why>>

\* The socket fails under any read or write.
SocketFails ==
    /\ pc \in {"handshake", "auth", "ack", "select", "writing"}
    /\ pc' = IF pc = "auth" THEN "refusing" ELSE "ended"
    /\ writing' = "none" /\ why' = "socket"
    /\ UNCHANGED <<config, world, clock, client>>

-----------------------------------------------------------------------------
(* The publishers, the client and the clock.                               *)

Enqueue ==
    /\ pc \in Joined /\ ~queued /\ queued' = TRUE
    /\ UNCHANGED <<config, world, pc, writing, clock, unread, pings, mute, why>>

\* A message of the client arrives: of its own accord ...
Chatter ==
    /\ pc \in Joined /\ ~mute /\ unread < MaxUnread
    /\ unread' = unread + 1
    /\ UNCHANGED <<config, world, pc, writing, clock, queued, pings, mute, why>>

\* ... or the answer to a Ping, which also stands for the answers to the
\* Pings before it.  Past the bound it merges with those unread.
Answer ==
    /\ pc \in Joined /\ ~mute
    /\ unread' = Lesser(unread + 1, MaxUnread)
    /\ \E a \in pings : pings' = {b \in pings : b < a}
    /\ UNCHANGED <<config, world, pc, writing, clock, queued, mute, why>>

GoMute ==
    /\ ~mute /\ mute' = TRUE /\ pings' = {}
    /\ UNCHANGED <<config, world, pc, writing, clock, queued, unread, why>>

\* A live client answers and reads in time.
ClientInTime ==
    ~mute => /\ world.latency \notin pings
             /\ pc = "writing" => waited < world.delay

\* The task waits, and no deadline it waits under has come.  The writes of a
\* refusal and of `authenticated` have none.
Waiting ==
    CASE pc \in {"handshake", "auth", "writing"} -> waited < Deadline
      [] pc \in {"refusing", "ack"} -> TRUE
      [] pc = "select"  -> ~queued /\ unread = 0 /\ until > 0
      [] OTHER -> FALSE

\* One unit of time.  The wait in sink.close is left out: the session is over
\* and no clock of it is read any more.
Pass ==
    /\ Waiting /\ ClientInTime
    /\ held' = IF pc \in Joined THEN held ELSE Lesser(held + 1, 2 * config.auth + 1)
    /\ waited' = IF pc \in {"handshake", "auth", "writing"} THEN waited + 1 ELSE waited
    /\ silence' = IF pc \in Joined THEN Lesser(silence + 1, config.timeout + 1) ELSE silence
    /\ until' = IF until = 0 THEN 0 ELSE until - 1
    /\ pings' = {a + 1 : a \in pings}
    /\ UNCHANGED <<config, world, pc, writing, queued, unread, mute, why>>

SessionNext ==
    \/ Upgrade \/ AuthTimeout \/ FirstMessage \/ Refused \/ Begin
    \/ Outbound \/ Inbound \/ Tick \/ WriteDone \/ WriteTimeout
    \/ Check \/ Closed \/ SocketFails
    \/ Enqueue \/ Chatter \/ Answer \/ GoMute \/ Pass

(***************************************************************************)
(* The runtime runs the task and its timers, and time goes on whenever the *)
(* task waits.  select! picks at random, so a branch that is ready again   *)
(* and again is picked in the end: strong fairness of Tick.  A live client *)
(* reads and answers, so that time does not stop at ClientInTime.  Nothing *)
(* is assumed of a dead one, or of the writes without a deadline: those of *)
(* a refusal and of `authenticated`, and sink.close.                       *)
(***************************************************************************)
SessionFairness ==
    /\ SF_tvars(Pass) /\ SF_tvars(Tick) /\ WF_tvars(AuthTimeout)
    /\ WF_tvars(Outbound \/ Inbound) /\ WF_tvars(WriteTimeout) /\ WF_tvars(Check)
    /\ WF_tvars(~mute /\ WriteDone) /\ WF_tvars(Answer)

SessionSpec == SessionInit /\ [][SessionNext]_tvars /\ SessionFairness

-----------------------------------------------------------------------------
SessionTypeOK ==
    /\ config \in Configs /\ world \in Worlds
    /\ pc \in Places
    /\ writing \in {"none", "frame", "pong", "ping"}
    /\ held \in 0..(2 * config.auth + 1)
    /\ waited \in Nat
    /\ silence \in 0..(config.timeout + 1)
    /\ until \in 0..config.interval
    /\ queued \in BOOLEAN
    /\ unread \in 0..MaxUnread
    /\ pings \subseteq 0..world.latency
    /\ mute \in BOOLEAN
    /\ why \in {"none", "client", "socket", "write", "slow", "heartbeat"}

(***************************************************************************)
(* "Liveness is any inbound traffic": a client that answers every Ping     *)
(* within the latency is never closed for silence, whatever else is sent   *)
(* and however select! picks, provided its socket takes writes at once and *)
(* heartbeat_timeout is more than heartbeat_interval plus the latency,     *)
(* which Config::validate does not ask for.                                *)
(***************************************************************************)
ResponsiveKept ==
    (world.delay = 0 /\ config.interval + world.latency < config.timeout)
        => (why = "heartbeat" => mute)

(***************************************************************************)
(* "a client that opens a socket and never completes the upgrade would     *)
(* otherwise hold its permit forever": the waits for the upgrade and for   *)
(* the first message come to an end, whatever the client does.             *)
(***************************************************************************)
AuthWaitEnds == pc \in {"handshake", "auth"} ~> pc \notin {"handshake", "auth"}

(***************************************************************************)
(* A client that went dead is dropped, whether or not its socket still     *)
(* takes what is written to it, however much is published to it, and for   *)
(* every relation between the interval and the timeout.                    *)
(***************************************************************************)
SilentDropped == (mute /\ pc \in Joined) ~> pc \in {"closing", "ended"}

(***************************************************************************)
(* send_now: "An unbounded `send` on a peer that has stopped reading would *)
(* park the heartbeat, the inbound reads and the slow-client check".  The  *)
(* loop always gets to its check or ends, whatever the client does and     *)
(* however quiet it is.  Server assumes this as fairness (SessionTurn).    *)
(***************************************************************************)
TurnsGoOn == pc \in {"select", "writing"} ~> pc \in {"check", "closing", "ended"}

-----------------------------------------------------------------------------
(* What the documentation says and the code does not do.                   *)

(***************************************************************************)
(* docs/protocol.md: "a browser client that only listens is kept alive".   *)
(* As ResponsiveKept, but for a client whose socket may take a moment for  *)
(* what is written: every Ping is written within the delay and answered    *)
(* within the latency, and the answer is there before heartbeat_timeout.   *)
(***************************************************************************)
ListenerKept ==
    (config.interval + world.delay + world.latency < config.timeout)
        => (why = "heartbeat" => mute)

=============================================================================
