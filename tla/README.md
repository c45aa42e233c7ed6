# ws-fanout in TLA+

TLA+ specifications of ws-fanout, a WebSocket fan-out server: publishers hand it
payloads for named channels, and every authenticated client that subscribed to a channel
gets them through a bounded queue of its own. The modules model the code under `src/src/`;
TLC checks them on small instances; TLAPS proves for every instance each safety property
and each refinement that those runs check. `PROJECT.json` lists the runs, the source lines behind each definition, the
hazards, the findings and the theorems.

## The system

| Part | State | Operations | Talks to |
| --- | --- | --- | --- |
| Registry (`registry.rs`) | connections and their channel sets, channel index, queue senders, drop streak, counters; one `RwLock` | `add`, `remove`, `subscribe`, `unsubscribe` (write lock); `publish`, `broadcast`, `send`, `drops` (read lock) | called by connection tasks and publishers |
| Accept loop (`server.rs: serve`) | semaphore of `max_connections` permits | accept, refuse, spawn | one task per connection |
| Connection task (`connection`, `session`, `handle`) | socket, queue receiver, last inbound time | handshake, auth, acknowledge, `select!` over queue, socket and heartbeat, slow-client check, cleanup by guard | registry, validator, authorizer, snapshot source |
| Server handle (`lib.rs`) | shared state, accept loop handle | `publish`, `resync`, `resync_all`, drop | registry |
| Snapshot source (`snapshot.rs`) | last payload per channel | `record`, `snapshot` | feeds write, tasks read |
| Authentication (`auth.rs`) | none | `validate`, `may_subscribe` | called by tasks |
| Wire protocol (`protocol.rs`) | none | messages to and from JSON | all |
| Outcry source (`outcry_source.rs`) | consumer, clone of the server, weak count | read, decode, publish, resync on overrun | server handle |
| Configuration (`Config`, `Builder`) | limits and timeouts | `validate`, `bind` | all |

Hard behaviour, and what would make it correct:

- *Registry.* Deliveries run concurrently under a read lock and touch the queue, the
  counters and the streak separately. The index must agree with the connections' sets, a
  call must reach exactly its recipients, and no delivery may wait.
- *Connection task.* It has many exits (timeouts, errors, panics in callbacks, a closed
  socket) and holds a permit and a registry entry. Both must be given back exactly once,
  and a client must be closed when it is too slow even if it does nothing.
- *Subscribe.* The registry change, the acknowledgement and the snapshots are separate
  steps, and publishers run in between.
- *Timing.* Three clocks share one `select!` loop.
- *Outcry source.* Threads hold the server they wait to see dropped.

## Modules

| Module | Models |
| --- | --- |
| `Subscriptions` | what `subscribe` and `unsubscribe` compute from a set and a list, in closed form |
| `SubscribeLoop` | the two loops as written, one list entry per step, compared with the closed forms |
| `Registry` | `registry.rs`; extends `Subscriptions` |
| `Fanout` | what the registry promises, as an abstract specification: no lock, index, counters or steps inside a delivery |
| `RegistryFanout` | the mapping under which `Registry` implements `Fanout` |
| `Server` | `server.rs`, `snapshot.rs` and the publishing half of `lib.rs`, on top of `Registry` |
| `Session` | the clocks of one connection: `auth_timeout`, heartbeat, write deadline |
| `OutcrySource` | `outcry_source.rs`, and the clones of `Server` that keep things running |
| `RegistryProofs`, `LimitProofs` | theorems about `Registry`: types, index and recipients; what it counts |
| `FanoutProofs` | `Registry` implements `Fanout` |
| `LoopProofs` | theorems about `SubscribeLoop` |
| `ServerProofs`, `DeliveryProofs` | theorems about `Server`: refinement, permits, registration; what enters the queues |
| `SessionProofs`, `OutcryProofs` | theorems about `Session` and `OutcrySource` |
| `MCRegistry`, `MCServer`, `MCSession` | bounds and constant values for TLC |

**Registry.** An operation under the write lock is one step, guarded by `NoReader`: no
call is in progress. `publish`, `broadcast` and `send` are calls that fix their
recipients, visit them in any order (the code iterates hash maps), and make two steps per
recipient: `TrySend` (the frame enters the queue, is refused, or the queue is closed)
and `Tally` (counters and streak). `add` counts after it released the lock, so it is two
steps. `Tally` updates a counter and the streak, two atomics, in one step: nothing reads
both. An element of `Conns` is one `ConnectionId`, which the code never reuses. A `Vec`
result is a set, and `SubscribeLoop` accounts for order and repetition. `streak`, and the
field `missed` of a call, are history.

**Server.** `pc` is where a connection's task is; an action that reaches the registry is
the registry's action joined with the task's control. Time is left out: wherever the code
waits under a timeout, the timeout may happen at any moment. Every exit is kept, panics
in the validator, authorizer and snapshot source included. `TakeSnapshot` and `Reply` are
separate because the code reads the source and then queues the frame. A payload is its
number in the order of publication on its channel. A task that is to take the write lock
stands at a place of its own (`adding`, `locking`, `removing`), where it does nothing
else, and the content of a request is chosen when the lock is taken. `parked` are the
tasks asleep in `Registry::write`: one that meets a reader goes to sleep (`Park`), while
anyone sleeps no new reader is let in (`ReadLock`, a guard of everything that reads), and
the last reader to leave wakes them all; they then race with whoever else wants the lock
and may have to sleep again. `view` is history: for each
connection and channel the highest and the latest payload queued and whether one was
lost to a full queue. The feed records a payload before it publishes it, as the decoder
of `examples/gateway.rs` does. The list given to `Server::resync` is a set.

**Fanout.** A publication is owed to exactly the members that hold its channel when it is
made. Each gets it once, or loses it because its inbox is full or its task has ended, and
its subscriptions do not move while something is owed to it. `Registry` implements it: a
call in progress owes its frame to the recipients not yet visited, and everything else of
the registry's state is forgotten. `Server` implements `Registry!Spec`, and so `Fanout`.

**Session.** One connection with time in whole units. Messages have no content: there is
something to read, something queued, something being written. `config` is chosen among
the configurations `Config::validate` accepts, `world` says how fast a live client reads
and answers; a client may go `mute` at any moment and then sends nothing and need not
read. Computing takes no time: `Pass` is possible only while the task waits and no
deadline has come. A tick comes less than a unit late, if at all, so that a silence of
exactly `heartbeat_timeout` may be found too long or not. `select!` picks any branch that
is ready.
`MissedTickBehavior::Delay` is in `Tick`: the next tick is one interval after this one was
handled. Writing the refusal and writing `authenticated` have no deadline and may take any
time; only the response to the upgrade has been written to the socket before them. In
`sink.close`, whose wait has no deadline either, no time passes, since the session is over
and none of its clocks is read again.

**OutcrySource.** Each thread's loop, one step per outcome of `try_read`. The queue is
external: a ring of the newest `RingSize` frames; `consumer.resync()` moves the consumer
to any position still in it; a frame too large for the buffer stays to be read again.
`StrongCount` is `alive.strong_count()`: the callers' clones and one per running thread.
`Break` is a queue error or a panic of the decoder. `told` is history: the frames and
resyncs a thread passed to the server, in order.

Some definitions are marked *Mutant*: variants of the definition that follows, each with
a plausible mistake. `PROJECT.json` pairs each with the property that detects it. No
specification uses them.

## Runs that pass

| Run | Instance | Shows |
| --- | --- | --- |
| `registry` | 2 connections, 2 publishers, 2 channels, queue of 1, limit 1 | `IndexInStep`, `RecipientsPinned`, `ActiveExact`, `SubscriptionLimit`; `ImplementsFanout` |
| `subscribe_loop` | every list of up to 4 of 4 channels, limit 2 | `LoopAgrees`, `RefusedOnlyWhenFull` |
| `sessions` | 1 connection, 1 feed, 2 channels, 2 payloads each, queue of 2 | `NoGap`, `EnqueueHonest` |
| `lifecycle` | 3 clients, 2 places, 1 feed, a channel the authorizer refuses | `PlacesConserved`, `SessionRegistered`, `NothingUnauthorised` |
| `write_lock` | 1 connection, 2 publishers, 1 channel, queue of 1 | under fairness `PlaceReturned`, `HandlerReturns`, `OverflowNoticed`, `PublisherNeverBlocks` |
| `session_clock` | 4 valid configurations, 4 kinds of client | `ResponsiveKept`; under fairness `SilentDropped`, `TurnsGoOn`, `AuthWaitEnds` |
| `outcry_source` | 2 threads, 5 frames on a ring of 2, 2 clones | `NoSilentGap`, `HeldServerLives`; under fairness `DropStops` |

Bounds. `MaxFrames` stops new calls (`MCRegistry`), or new client messages and new
publishing jobs (`MCServer`), once that many deliveries were counted; what has begun
runs to its end, so no run is cut short in the middle of a handler. With a queue of one
or two, one to three deliveries are enough to fill it and overflow it; in `registry`, where
`MaxFrames` is 1, all four threads may be inside a call before the first delivery is
counted.
Two connections and two publishers give the pairs of threads that can meet in the
registry; a connection's own `send` is a further reader. Three clients for two places
give refusal and reuse. No run has a channel name that is too long, which is refused as one
the authorizer denies is; the theorems cover it. In `write_lock` the two publishers can keep the registry busy for
ever between them, since what goes to nobody or to an ended session is not counted by
`MaxFrames`; if sleeping writers did not keep new readers out, `PlaceReturned` would fail
there. `MaxVersion` is the number of payloads per channel: two are needed
for a stale snapshot. `MaxList` is the longest request. In `session_clock` the
configurations are a timeout one above interval and latency (for two intervals),
one shorter than the interval, an `auth_timeout` of zero, and one that `validate` refuses;
latencies are below, at and above the interval, and writes take no time or up to two units. A
`heartbeat_timeout` of zero, which `validate` accepts and under which the first tick closes
everybody, is not instantiated. `MaxUnread` is two: one message to be read behind another.
In `outcry_source` five frames on a ring of two give an overrun after frames were published, a
second one, a rejected frame and one too large on either side of it. Deadlock checking is off because
the bounded models end when everybody is done. Symmetry is used only for safety, over
sets whose elements the configuration does not tell apart.

Fairness (`Server!Fairness`). A publisher inside a call finishes it, since no step of a
call can wait. A task that is not waiting for its socket keeps running, and a publisher goes on with
what it began; both may have to wait for the lock of the registry. A writer that meets a
reader goes to sleep, which is a step of the model, and as no new reader is let in then, the
lock becomes free. Strong fairness of the steps that take the lock says no more than that
who finds it free again and again gets it in the end: a woken writer is not beaten to it
every time by a reader that came just then, nor a reader by one writer after another. This is
how `std::sync::RwLock` works on Linux; the standard library leaves the policy to the
platform. A session waiting for its socket takes a turn in the end,
because `send_now` has a deadline and the heartbeat ticks. `sink.close()` has neither,
so nothing is assumed about it. The client is not assumed to do anything. That a session
takes a turn in the end is not only assumed: `Session!TurnsGoOn` derives it from the clocks.

`Session!SessionFairness`: time goes on while the task waits, the task is run, and a tick
that is due again and again at the `select!` is picked in the end, because `select!` picks
at random; the two timeouts of `auth_timeout` fire. Nothing is assumed of the writes that
have no deadline. A live client reads and answers within the times of `world`; nothing is assumed
of a dead one. `OutcrySource!SourceSpec`: a source thread keeps running; callers and the
producer need not do anything.

## Disagreements between the code and its documentation

Each is a run that TLC refutes.

- `drop_streak`: `Connection::dropped` is not the number of consecutive failures when two
  deliveries overlap; the two updates can be made in the order opposite to the two
  `try_send`s.
- `two_sources`: a source thread goes on while it sees a clone of `Server` besides its own,
  so two threads keep each other alive after the callers dropped theirs, and the accept
  loop with them. One thread alone does stop (`DropStops`).
- `stale_snapshot`: a snapshot can be queued behind data newer than itself, so a client
  that takes every message as the state ends on an old one. `NoGap` still holds: nothing
  is missing, the order is wrong.
- `closing_without_deadline`: a session that decides to close a client that no longer
  reads may wait in `sink.close()` for ever, and keeps its permit and registry entry.
- `slow_writes`: a client that answers every Ping in time is closed for silence. Its answer
  lies in the socket while `select!` picks writes that each take a moment, and then the
  tick. The more writes are picked in a row, the larger the timeout this defeats. Where
  writes take no time it cannot happen (`ResponsiveKept`), if the timeout is above the
  interval plus the client's latency, which `validate` does not check.

Further disagreements show in the models without a run of their own:

- `resync_all` is "sent to all connections" (`lib.rs:151`) but, being a delivery like any
  other, is lost to a full queue (`Fanout!Lose`); the client then keeps state the upstream
  has declared lost. And no snapshot follows a resync by itself (`protocol.rs:83`).
- A re-subscribe "restores" what a resync made the client discard (`docs/protocol.md:35`),
  but subscribing to a channel already held adds nothing, so it brings no snapshot, and
  the acknowledgement leaves the channel out (`Server!OnSubscribe`).
- `auth_timeout` "covers the WebSocket handshake itself" (`docs/protocol.md:11`,
  `server.rs:37`) by being applied twice: a client has up to twice the time, and never more
  (`AuthWaitsBounded`).
- Data published between the registry change and the snapshot is queued before the
  snapshot, and before `subscribed` (`README.md:76`, `server.rs:363`); the run
  `stale_snapshot` passes through such states.

## What is proved

No theorem bounds the number of connections, publishers, channels, payloads or deliveries,
or the length of a request: the bounds of the MC modules are not part of the
specifications proved about. The assumptions are the ASSUMEs of the modules, which TLC
evaluates in the runs: limits are what `Config::validate` accepts
(`MaxSubscriptionsAssumption`, `RegistryAssumption`, `ServerAssumption`,
`SessionAssumption`); connections and publishers are different threads; requests are lists
of channels, and taking channels out of a request leaves a request (`KeptAssumption`);
the messages of the protocol are frames (`FramesAssumption`); a server has finitely many
source threads (`SourceAssumption`). The bounds that are constants of the
specifications themselves (`MaxList`, `MaxVersion`, `MaxUnread`, `MaxWrites`, `MaxClones`) may
be any numbers. A set of
connections or channels may be infinite: where something is counted, that it is finite is
proved along with it.

Each invariant is proved by one lemma per action or group of actions; the table says what
had to be added to make it inductive.

| Theorem | Shows | Inductive invariant |
| --- | --- | --- |
| `TypeCorrect` | `TypeOK` | itself |
| `IndexAlwaysInStep` | `IndexInStep` | `RegistryInv`: `Add` puts an id into the map, which keeps the index right only if that id holds nothing (`OutsidersHoldNothing`) |
| `RecipientsAlwaysPinned` | `RecipientsPinned` | `RegistryInv`: every action that moves a recipient requires `NoReader`; the end of a session, which does not, leaves the connection in the map until `Remove` |
| `LimitKept` | `SubscriptionLimit` | `LimitInv`: each set is finite as well |
| `ActiveAlwaysExact` | `ActiveExact` | `ActiveInv`: the set counted is finite as well |
| `RegistryImplementsFanout` | `ImplementsFanout` | a step simulation under `TypeOK`, `RegistryInv` and `LimitInv` |
| `LoopsAgree`, `RefusalsOnlyWhenFull` | `LoopAgrees`, `RefusedOnlyWhenFull` | `LoopInv`: until the first refusal everything listed is held; from then on the set is full |
| `ServerTypeCorrect` | `ServerTypeOK` | `ServerInv`: what a publisher or a call carries is a message of the protocol (`FramesInv`), or the history of a delivery has no type |
| `ServerImplementsRegistry` | `Spec` | a step simulation under `ServerInv`; the registry's variables are the server's |
| `ServerImplementsFanout` | `ImplementsFanout` | from the two refinements |
| `PlacesAlwaysConserved` | `PlacesConserved` | `PlacesInv`: the tasks with a permit are finitely many; `SessionRegistered` bounds the connections by them |
| `SessionsAlwaysRegistered` | `SessionRegistered` | part of `ServerInv`; every exit of a task is one of the cases of `Moves` |
| `QueuedFramesHonest` | `EnqueueHonest`, an action property | `HonestInv`: a reply in the making is true of its connection and a frame in flight of everyone still to get it, which no one can change while the call is in progress |
| `NothingEverUnauthorised` | `NothingUnauthorised` | `HonestInv`: what is held is allowed |
| `NeverAGap` | `NoGap` | `GapInv`, below |
| `SessionTypeCorrect` | `SessionTypeOK` | `SessionInv`: a dead client has no Ping to answer, or the ages of Pings would be unbounded |
| `AuthWaitsBounded` | the waits for the upgrade and the first message take at most twice `auth_timeout` together; what is written after them has no deadline and no bound is claimed | `AuthInv`: each of the two waits is within `auth_timeout` |
| `ResponsiveAlwaysKept` | `ResponsiveKept` | `ResponsiveInv`: how long a live client can have been silent, by the Pings not yet answered (`SilenceBounded`) |
| `SourceTypeCorrect` | `SourceTypeOK` | itself |
| `NoGapIsSilent` | `NoSilentGap` | `GapInv`: at each point of the thread's loop, how far the frames since the last one told are accounted for |
| `HeldServerAlwaysLives` | `HeldServerLives` | itself, with the types: a thread that looks at the count holds a clone of its own, so the clone of a caller makes it at least two |

*No gap.* `NoGap` speaks of a subscriber whose snapshot is no longer to come and of
payloads whose publish has returned. `DeliveryProofs!GapInv` speaks of the steps between.
A payload is `Covered` at a connection when a frame was lost, when it or a newer one was
queued, or when a snapshot not older than it is still to come: owed, taken, or in the
call that queues it. For each feed in the middle of a publish, its payload has been recorded and
is covered at every subscriber that the call does not still have to visit. Two facts
carry the induction: a subscribe cannot happen while a publish is in progress, so
whoever subscribes after a call has begun finds the payload in the snapshot source;
and a snapshot taken is at least as new as everything recorded. The argument needs feeds
that record before they publish and nothing about how many there are. TLC checked
`HonestInv` and `GapInv` before they were proved.

*Only proved.* That `Server` implements `Registry!Spec`, and the bound of
`AuthWaitsBounded`, are theorems and no property of a run.

*Closed forms.* `Registry` and `Server` use the closed forms of `Subscriptions`, and
`LoopsAgree` shows that the loops of the code compute them for every list. `Kept`
(`Iterator::partition`) numbers the entries that stay by their rank, so that what it lists
can be derived from facts about finite sets, without induction over the list.

*Only model-checked.* Liveness, since the proof system covers neither fairness nor `ENABLED`:
`PlaceReturned`, `HandlerReturns`, `OverflowNoticed`, `PublisherNeverBlocks`,
`SilentDropped`, `TurnsGoOn`, `AuthWaitEnds`, `DropStops`. The five disagreements are counterexamples of
TLC's.

## Not modelled

- The outcry queue's own algorithm: another crate.
- Times inside `Server`: the two views of a connection, with contents and with clocks, are
  separate modules that meet in the fairness of `Server`.
- The setters of `Builder`, which only assign, and the default configuration.
- JSON, tokens and frame buffers: pure functions over strings, mostly of libraries.
- `publish_json`: `publish` behind a serialisation that may fail first.
- Wrap-around of `next_id` and of the counters at 2^64.
- The tokio runtime being shut down under the tasks.

## Plan

Every safety property and refinement of the passing runs is a theorem. What is left:

1. Action properties behind the liveness that TLC checks, which can be proved where the
   liveness cannot: that a call in progress only ever shrinks, and that the end of a
   session is final.
2. `ResponsiveKept` with writes that take time: what the loop would have to do (to read
   before it ticks, say) for a live client to be kept.
