# Verification of mineNet

mineNet is a TCP game server framework in Go: a listener with a connection pool, framed and
numbered packets, heartbeats, a message router, a task scheduler and a manager that starts and
stops these parts. This directory holds TLA+ models of the parts that run concurrently, the TLC
configurations that check them on small instances, and theorems about them that TLAPS checks for
every value of the constants.

`PROJECT.json` maps every definition that models code to its lines, lists the runs, the mutant of
the code that each property must refute, the findings, the hazards of the code and the theorems.

## 1. The system

| Component | Source | State | Operations | Module |
|---|---|---|---|---|
| Connection | `network/conn.go` | closed flag, `closeChan`, `sendChan`, `errorCount`, gauges, socket | `NewConnection`, `Send`, `Close`, `readLoop`, `handleHeartbeat`, `writeLoop` | `Connection`, `ConnContract`, `ConnLife` |
| HeartbeatManager | `network/heartbeat.go` | `lastPong`, `stopped`, two tickers | `Start`, `Stop`, `pingLoop`, `checkLoop`, `handleTimeout`, `IsAlive`, `HandlePong` | `Heartbeat` (time), `Connection` (life) |
| TCPServer | `network/tcp_net.go` | listener, context, callbacks, `ServerStatus` | `Start`/`acceptLoop`, `monitorConnection`, `Stop`, `Broadcast` | `Server`, `Messages` |
| ConnPool | `network/conn_pool.go` | map of connections, lock, gauge and counters | `Add`, `Remove`, `GetAll`, `cleanup`, `Close` | `Server`, `Messages` |
| Packet, PacketCodec | `network/packet.go` | `seqId` of packet and codec | `Encode`, `Decode` | `Messages` (numbers), `Framing` (bytes) |
| Router | `core/router.go` | handlers by message type | `RegisterHandler`, `Handle`, `callHandler`, `sendResponse` | `Messages` |
| Scheduler | `common/scheduler.go` | heap of tasks, `taskMap`, lock, context | `AddTask`, `RemoveTask`, `Start`, `Stop`, `run`, `getNextDayResetTime`, `getNextWeekResetTime` | `Scheduler` |
| ComponentManager | `common/manager.go`, `main.go` | components, `WaitGroup`, context | `Register`, `Start`, `Stop`, `handleSignals`, `Wait` | `ComponentManager` |
| RateLimiter | `network/rate_limiter.go` | one bucket for all connections | `Allow` | `Messages` |
| Redis client, metrics server | `common/redis.go`, `metrics/server.go` | none that matters here | `Start`, `Stop` | `ComponentManager` (kinds of component) |
| Config, Logger, LRU, ids, metrics definitions | `config/`, `common/`, `metrics/` | — | — | not modelled (section 8) |

How they interact. `main` registers the TCP server, the metrics server, the scheduler and the
Redis client with a `ComponentManager`, which runs each `Start` in a goroutine and each `Stop` in
another when a signal arrives. The server's `Start` *is* the accept loop. An accepted socket
becomes a `Connection` with four goroutines of its own (`readLoop`, `writeLoop`, `pingLoop`,
`checkLoop`), joins the pool, and gets a monitor that waits for `closeChan`, removes the entry and
calls `onDisconnect`. Anyone may call `Close`: the loops, the pool's cleanup and `Close`, the
monitor. `readLoop` starts a goroutine per request; the router answers through `Send`, which
numbers the packet and queues it; `writeLoop` encodes (and numbers it again) and writes.
`Broadcast` sends one packet to every pooled connection.

What makes this hard is nearly all concurrency: who closes first, what a `Send` that has passed
the check of the flag may still do, who deletes a pool entry, a monitor that starts after the
connection is already dead, `Stop` against a listener that still accepts, a task that is removed
while it executes, a shared packet. The clock matters in two places: the heartbeat's timeout and
the scheduler's polling. Nothing is persisted, so there is no crash recovery to speak of.

## 2. The modules

Every module has its state as `VARIABLES` with the source's names, one action per step between two
points where another goroutine can interfere, and an order that follows the code. A section under
a mutex is one step unless it makes calls that others observe (the pool's `cleanup` and `Close`
hold the lock over many `conn.Close` calls, so there the lock is a variable). Definitions whose
comment begins with "Mutant" are not part of any specification: each is a plausible bug that one
property must catch.

### ConnContract and Connection

`ConnContract` is what a connection promises: packets get numbers in the order `Send` accepted
them, leave in that order and at most once, some may be lost, nothing leaves once the socket is
closed, and a close that began completes.

`Connection` is the code. `pc` says where each goroutine is; `Send` is three steps (call,
`IsClosed` and bucket, `select`), `Close` five (compare-and-swap, `close(closeChan)`,
`heartbeat.Stop`, the gauges, `conn.Close`). The constructor is three steps, because the two loops
run before the heartbeat is started and may close the connection under it.
`WriteTake`/`WriteOk`/`EncodeError`/`WriteError`/`EncodePanic` are writeLoop;
`ReadTop`/`ReadPing`/`ReadRequest`/`ReadNothing`/`ReadEnd`/`ReadError` are readLoop with the kinds
of input it distinguishes. `Senders` stand for request handlers and broadcasters, `Closers` for
pool and server. The refinement mapping to the contract (`Contract == INSTANCE ConnContract WITH
...`) takes `hand \o sendChan` for the packets that wait and derives the contract's `life` from
the flag and the socket.

`ConnLife` is the part of that promise on which pool and server rely: a connection opens, one
caller of `Close` wins, the winner gets through to the socket. `Connection` implements it for one
connection (`Life`, whose `LifeSeen` again reads the flag and the socket), and `Server` for its
own (`Lives`): the connections of `Server` do no more and no less than those of `Connection` may.
This composes the two without the product of their states.

Abstractions: a packet is the number of its acceptance; the rate limiter's answer, the decoder's
outcome, the tickers and `IsAlive` are free choices. `lastActive` is left out (the pool reads it,
see `Server`).

### Heartbeat

The same two heartbeat goroutines with a clock: `nextPing` and `nextCheck` are the tickers,
`unanswered` the pings a peer will still answer, `attempt`/`wakeAt` the sleeps of `handleTimeout`
(one second, two, three ...; `reconnect` always returns false). Sends may fail, and a goroutine
that is due runs within `Jitter`. The peer is external. Until it falls silent (`FallSilent`) it
answers within `Rtt` the heartbeat packets whose Type is in `Answered`, and it may send pongs of
its own accord (`FreePong`). A peer that follows the protocol, as one made of this code would, has
`Answered = {1}` (`handleHeartbeat`); pingLoop's packets have Type 0 (`PingType`), since nothing
sets the field. A lenient peer takes both for a ping, `{0, 1}`. Whatever a property or a theorem
needs of the peer beyond the protocol is a premise that it states (`PingType \in Answered`, named
`Lenient` in the proofs).

### Server

`TCPServer` with its `ConnPool`: the goroutine of `Start`, one monitor per connection, the
cleanup, `Stop`, and each connection's life reduced to "open, closing, closed" and who won its
`Close` (`ConnLife`, which `Connection` refines). `lock`/`todo` are the holder of the pool's lock
and the entries it has still to visit; `VisitKeep`, `VisitClose`, `VisitDeleted`, `VisitFailed`
and `VisitLost` are the outcomes of one visit. Of `shouldCleanup`'s reasons only idleness looks at
the pool's size (`Reasons`); the others are a free choice. `Stop` is called once, as the manager
does; it is `"failed"` when the listener's own `Close` returns an error, which skips the status.

### Messages

The way of a packet across `readLoop`'s handler goroutines, `Router.Handle`, `Broadcast`, `Send`
and `Encode`. A packet's `seqId` is one field shared by every connection that sends it, written
once by `Send` and once at the start of `Encode`, read at its end: the points where two
connections can interfere are separate steps. `Handle` says what the router comes to for each
content of a request and each kind of handler. `tokens` is the one bucket of `GetRateLimiter` on
which all connections draw: `Allow` takes a token, `Refill` is what time adds, at any moment.

### Framing

One direction of a socket: the frames that the peer writes, how many of their bytes have arrived,
and `Decode` as `readLoop` calls it (`reader`, `consumed`). A byte is its position in the stream,
so a frame is its place, its length and what its version and data come to (`Kinds`); `ReadLen` and
`ReadBody` are the two calls of `io.ReadFull`. `Here` gives the length that `Decode` would read at
its position: that of the frame that begins there, and, where none does, any at all. So a `Decode`
out of step with the frames takes whatever it finds for a length. `ReadEnd` and `ReadTimeout` are
the ways in which the stream ends while `Decode` waits, and what `readLoop` makes of them. The
connection's own `Close` is the matter of `Connection`.

### Scheduler

A job is a `Task` that a caller adds. `place` says whether it waits in the heap, executes, or is
gone; `taskMap` is the set of mapped names. `run`'s loop is `LoopEnd`, `LoopSleep`, `Wake` and
`Dispatch`; the end of an execution is `FinishRepeat` or `FinishOnce`, under the mutex.
`container/heap` is taken to return an earliest task. `hits` is a history variable: the removals
of a name that came while a task of that name executed. `AddTask` takes any date, also one that
has passed; `ready`, a history variable too, is when a task in the heap could first start: its
date, or the time of its push if that is later. `getNextDayResetTime` and `getNextWeekResetTime`
are functions of the clock, which starts at the midnight of a Sunday and whose days have `Day`
units each.

### ComponentManager

`main`, `handleSignals` and any other owner of `Stop`; a component is only what its `Start` does:
returns by itself, returns after its `Stop` (`Blocking`: the TCP server), or never returns
(`Deaf`: the metrics server, whose `Stop` does nothing); those that return by themselves, the
scheduler and the Redis client, are `Prompt`. `errChan` is the number of results in a `Stop`'s
channel, `wg` the WaitGroup.

## 3. What the runs check

| Run | Instance | What it shows |
|---|---|---|
| `conn` | 1 sender, 1 closer, queue of 1, 2 calls of `Send` | closed once; gauge down; losses counted; order; only `Send`s already past the check are accepted after the close; the heartbeat's gauge stays down after a close that met no constructor; every goroutine ends; implements `ConnContract` and `ConnLife` |
| `server` | 2 connections, pool of 1, no minimum | bound and counters of the pool, no orphaned entry, `onDisconnect` after the removal; closed connections leave the pool and are reported; `Stop` and the accept loop end; what is pooled when `Stop` begins is closed before `Stop` turns to the listener; the connections' lives are those of `ConnLife` |
| `server_stop` | 3 connections, pool of 2 | **violated**: `Stop` closes the connections |
| `heartbeat` | interval 2, timeout 7, 2 retries, round trip 3, jitter 1, clock to 30; the peer answers Types 0 and 1 | a lenient peer is alive while it answers; a silent one is dropped in bounded time |
| `hb_protocol` | the same, the peer answers Type 1 only | **violated**: a peer that answers pings has been heard from after the first round |
| `framing` | 2 frames of 25, 26, 28 or 29 bytes, limits 26 and 28 | `Decode` returns what arrived, in order; refuses only bad frames; tells a cut from an end |
| `scheduler` | 3 jobs, 2 names, a second of 2 units, days of 3, clock to 4, dates from 1 before to 1 after now (symmetric) | the map follows the tasks; the loop does not sleep on for more than a second with a task due in the heap, or after `Stop`; resets are for the next midnight and the next Monday |
| `scheduler_removed` | the same | **violated**: a removed task is not scheduled |
| `manager` | 3 components, 2 of them blocking, a signal and another owner | whoever waits for the WaitGroup, `Stop` or `Wait`, returns last; late results do not block; a shutdown ends |
| `manager_main` | the 4 components of `main.go` | **violated**: a shutdown ends |
| `messages` | 2 connections, 2 requests, 1 broadcast, queue of 2, burst of 3 and 1 refill (symmetric) | one reply, to the right connection; replies numbered in order; all connections together stay within the limiter's burst and its refills |
| `messages_numbers` | the same | **violated**: all frames of a connection numbered in order |

Why the bounds are enough to be interesting. A queue of one makes full and empty queues meet every
other event, and two calls of `Send` let a packet be in the writer's hand while another waits; six
goroutines and two outsiders compete for `Close`. Two connections for a pool of one give a
rejected connection and a slot that is freed and taken again (the invariants of this run are
proved for any number; `server_stop` visits several entries in a row). The lengths of the frames
lie on both sides of both limits, two frames are enough for a `Decode` that is out of step to run
into a frame, and every split into pieces, every early end and every timeout is tried. The
heartbeat's clock runs over several intervals, timeouts and all retries (15 units suffice from
silence to the close). In the scheduler a second is two units so that a task can become due in the
middle of a sleep, a task added in the middle of one can be due for longer than it has been in the
heap, and three jobs for two names give a name that is taken, freed and taken again; the clock
crosses the midnight after a Sunday, so a reset is asked for before, at and after a Monday's (the
week after is a matter of the proof). Four sends of two requests and a broadcast to two
connections against a burst of three and one refill meet an empty bucket on either connection. Two
`Stop`s at once is the largest number that main can produce plus one. `MaxCalls`, `MaxFrames`,
`MaxHits`, `MaxDelay`, `MaxRefills` and `MaxTime` are the only bounds that are not the code's own;
each is named as a bound where it is declared. Symmetry is used only in runs without liveness
properties.

Deadlock is checked in the runs `server`, `server_stop`, `scheduler` and `scheduler_removed`,
whose cleanup or polling loop never stops; elsewhere a quiet end is a legal end (all goroutines of
a closed connection have returned, the process has ended, the clock's bound is reached).

### The disagreements

- `server_stop`: `Stop` closes the pool, then the listener. A connection accepted in between, or
  whose `Add` was waiting for the pool's lock, is added to the closed pool and stays open, with
  its goroutines, after `Stop` has returned and the accept loop has ended. It holds for the
  connections that are in the pool when `Stop` begins (`StopClosesPooled`), and none begins once
  `Stop` is past the listener (`NoneAfterStop`): the ones that are left arrived in between.
- `hb_protocol`: pingLoop builds its `HeartPacket` without a Type, so the ping goes out as Type 0;
  by `heartbeat.go:25` a ping is 1, and `handleHeartbeat` answers 1 only. A peer that follows the
  protocol therefore never sends a pong, `lastPong` stays 0, which `IsAlive` takes for the initial
  state, and the connection is alive for ever however long the peer is gone (`ProtocolPeerStays`,
  for all values of the constants). The Type is all that is wrong there: a peer that takes 0 for a
  ping is heard from in the first round (`LenientPeerIsHeard`).
- The shipped heartbeat times, a theorem and no run: `IsAlive` compares the age of the last pong
  with the timeout, and `config.yaml` ships an interval of 30s with a timeout of 10s. Once a peer
  has sent a pong, be it in answer to every packet, it is taken for dead at the end of every round
  (`DeadBetweenRounds`); the check finds it within ten seconds and `handleTimeout` closes the
  connection some six seconds later. `conn.go:178` says that `IsAlive` tells whether the peer
  failed to respond in time. A timeout above interval, round trip and delays together, like the
  90s of `DefaultConfig`, keeps the lenient peer alive (`AliveWhileAnswering`, `NeverDropped`).
- `scheduler_removed`: the goroutine that executed a repeating task pushes the next turn without
  looking at `taskMap`, so a removal during the execution is undone. The name counts as free
  meanwhile, so a second task of that name can be added beside the first. It holds as long as no
  removal has hit an executing task (`RemovedUnlessRunning`), and until one has hit a name that
  name has one live task (`OneTaskPerName`).
- `manager_main`: `metrics.Server.Start` is `http.ListenAndServe`, its `Stop` does nothing.
  `wg.Wait` in `Stop` and in `Wait` never returns; SIGINT and SIGTERM, which are caught, do not
  end the process.
- `messages_numbers`: the packet of a `Broadcast` is shared. Between the step that numbers it for
  a connection and the one that writes its header another connection numbers it again, so a
  connection's frames repeat a number or go back. It holds until the first `Broadcast` starts
  (`NumbersIncreaseAlone`), and for the replies always (`RepliesIncrease`).

- Two gauges against their Help texts, in the models and without a run of their own. The
  heartbeat's gauge (`metrics/heartbeat.go:49`, "0=disconnected, 1=connected") stays at 1 after a
  close that met the constructor, since `HbConnected` then comes last; `HeartbeatGaugeDown` says
  that every other close leaves it at 0. The server's (`metrics/tcp_server.go:66`, "0:stopped,
  1:running") stays at 1 when the listener's `Close` fails (`StopListenerFails`) or when `Start`
  writes it after `Stop` did (`StatusUp`).

Some other oddities are in the models without a property, because nothing in the repository says
otherwise; they are the hazards with a note in `PROJECT.json` (a failed ping that ends `pingLoop`,
one busy connection that empties the bucket of all, and so on).

## 4. Fairness

- `Connection`: every goroutine that can step does. A step that needs the peer, a ticker or an
  owner is not forced; a read or write on the *closed* socket returns. `CheckStop` is strongly
  fair: Go's `select` picks at random between a ready ticker and a closed channel, and a timeout
  is not always ready.
- `Server`: weak fairness for the goroutines, strong where a step needs the pool's lock:
  `sync.RWMutex` does not let a waiting goroutine starve. Nothing makes peers connect or close,
  the cleanup tick or an owner call `Stop`. `Listen` is fair because `Start` is called by the
  manager.
- `Framing`: `readLoop` runs when there is something to read. Nothing makes bytes arrive.
- `ComponentManager`: goroutines run, and a component's `Stop` returns, as does the `Start` of a
  component that is not `Deaf` (once stopped if `Blocking`). Signals and timeouts are not forced.
- `Heartbeat` and `Scheduler` state their time bounds as invariants: the clock does not advance
  past something overdue. `Messages` has safety properties only.

## 5. What is proved

All theorems hold for every value of the constants that satisfies the module's named assumption
(finite sets, natural numbers, positive where the code needs it).

- `ConnContractProofs`: `InOrder`. Invariant: what was delivered and what waits is, put end to
  end, an increasing sequence of accepted numbers.
- `ConnectionProofs`: `TypeCorrect`; `ClosesOnce`, from the invariant that at most one goroutine
  is inside `Close` and that the stages it has not reached are still undone; `GaugeDown`, which
  needs besides that readers exist only after `Spawn` has set the gauge; `HeartbeatGaugeFalls`:
  after the constructor the gauge is only ever zeroed, and a `Close` that has passed the gauges
  has zeroed it; `CloseIsWhole`: what a `Close` has passed is done, and as one caller at a time is
  inside, all of it when nobody is; `LossIsCounted`; `LateSendsOnly`: a step accepts at most one
  packet, of a goroutine that is in `Send`'s select; `OneLife`: the safety part of `ConnLife`;
  `Refinement`: initial states map to initial states and each step to a step of the contract or a
  stutter (safety part), and from it `DeliversInOrder`, which uses `InOrder` of the contract.
- `ServerProofs`: `TypeCorrect` (with `todo \subseteq pool`: what the holder has to visit cannot
  be deleted by others), `Bounded`, `GaugeIsExact`, `NoOrphan`, `DisconnectIsLast`, `OneLife` (the
  other half of the composition through `ConnLife`). The strengthening says who may have which
  monitor: only an admitted connection has one, the accept loop's current connection has none, and
  an entry's monitor has not passed `Remove`. `StopClosesPooled` says "from then on": from the
  moment at which `Stop` asks for the lock an invariant of its own is kept (what was pooled is
  open only while `Stop` has still to visit it). `IdleKeepsMinimum`: between the look at the
  pool's size and the deletion only the holder of the lock deletes, so the size still stands.
  `AcceptIsFreed`: a `Stop` that found no listener has cancelled the context before the accept
  loop looks at it; `NoneAfterStop` follows.
- `HeartbeatProofs`: `TypeCorrect`. For a `Lenient` peer, and under `RoomForRound` (the timeout
  exceeds interval, round trip and delays together), `AliveWhileAnswering` and `NeverDropped`.
  Invariant: as long as the peer answers and `pingLoop` runs, the ticker keeps its pace, no answer
  is late, and after the last pong a next ping is due within the interval or already under way;
  before the first pong the first ping is (`FirstRound`), which gives `LenientPeerIsHeard`.
  Without the premise `Lenient`: `ProtocolPeerStays`, where no pong is ever under way;
  `DeadBetweenRounds`, where packets under way and the last pong belong to a tick before the next
  (`RoundsApart`); both are about peers that send no pong unasked (`SolicitedSpec`).
  `SilentIsDropped`, for every number of retries and without `RoomForRound`: the check that finds
  the peer dead comes at most two timeouts after the last pong (checks are a timeout apart), and
  each sleep of `handleTimeout` ends within its share of `Patience`, whose sum is proved step by
  step, since the closed form is quadratic. `NeverAnsweredStays`, for all values of the constants.
- `FramingProofs`: `TypeCorrect`, `InOrder`, `JustRefusals`, `CleanEnd`. Invariant: the frames lie
  end to end without overlap, and `Decode` waits at the end of what it has returned, or four bytes
  further with the length of the next frame in hand; therefore exactly one frame begins where it
  looks (`NextFrame`). `ArrivedIsReady` needs besides that `Decode` has broken off only at a bad
  packet or at the end of the stream (`BrokenOff`).
- `SchedulerProofs`: `TypeCorrect`, `NoOversleep` and `EndsAfterStop` (during a sleep the clock
  has not passed its end, which is at most a second after anything that waits was in the heap and
  due, and after the Stop; dates are any, before and after now), `MapIsSound` (inductive as it
  stands, over cardinalities of finite sets) and its consequences `OneTaskPerName` and
  `RemovedUnlessRunning`, `NextResets` (division with remainder; any length of the day).
- `ComponentManagerProofs`: `TypeCorrect`, `WaitsMeanReturned`. Invariant: `wg` is the number of
  running `Start`s; for each `Stop`, what it has launched, what is in its channel and what it has
  received add up to the components whose `Stop` has returned; a component whose `Stop` runs has
  not been counted, so the channel is not full (`RoomForResult`).
- `MessagesProofs`: `TypeCorrect`, `RepliesReachOrigin`, `RepliesIncrease`. Invariant: the reply
  to a request is in one place at a time, with its maker, in the queue of its own connection, in
  that connection's `Encode`, or on its wire; no number on a wire exceeds the number the codec has
  reached. `WithinBudget`, inductive as it stands: a granted packet costs a token and none is
  granted twice on a connection. `NumbersIncreaseAlone`: a broadcast that has not started is
  nowhere (`Unborn`), so that every frame is a reply's.

Each invariant was first checked by TLC as an invariant of the module's run; those kept "from then
on" were checked through the property itself, `StopClosesPooled` and `IdleKeepsMinimum` also with
three connections and, for the second, a minimum of one.

## 6. What is only model-checked

Every invariant and every action property of a passing run is a theorem, and so are
`HeartbeatGaugeDown` and `PooledAreClosed`. `SharedBudget` bounds what all connections send
together; that none of them starves is neither checked nor promised by the code. Liveness under
fairness is outside the prover's reach and stays with TLC. Each such property needs fairness *and*
that nobody has to wait for something that cannot come; of the second part, which is safety, the
core is proved:

| Checked by TLC | Proved of it |
|---|---|
| `CloseReleasesAll` | `CloseIsWhole`: when the callers of `Close` are through, channels and socket are closed, so nothing that a goroutine waits for stays away |
| `ImplementsContract`, `ImplementsLife`, `ConnectionsLive` | `Refinement`, `OneLife` (twice): all but the fairness of the abstract specifications |
| `ClosedIsReported` | `NoOrphan`: every entry has a monitor that will find it, or is about to get one |
| `StopEnds` | `AcceptIsFreed`: the accept loop is not left on an open listener |
| `LateStopsReturn` | `RoomForResult`: a late result does not block |
| `ShutdownEnds` | `WaitsMeanReturned`: what the waiters wait for (and why `manager_main` waits for ever) |
| `ArrivedIsReturned` | `ArrivedIsReady`: `Decode` has the bytes it asks for |

## 7. Plan

1. Done: `Connection` with its contract, `Server`, `Heartbeat`, `Scheduler`, `ComponentManager`,
   `Messages` with the shared bucket, `Framing`; `Connection` and `Server` composed through
   `ConnLife`; proofs for all of them.
2. Model next, if the code comes to use it: `RateLimiter.Wait`, which holds the lock that
   `SetRate` needs while it waits for tokens; handlers registered while the server runs.
3. Prove next: how many accepted packets a close can lose without counting them (what waits, what
   is in hand, and one for each late `Send`), for any number of senders; for `Connection` and
   `Server`, what each blocked goroutine waits for and who provides it, as one invariant.

## 8. What is not modelled

- Contents of bytes: gzip, AES, protobuf, JSON. Encoding appears as succeeding, failing or
  panicking; decoding as the kinds of input `readLoop` tells apart.
- When tokens come back: `golang.org/x/time/rate` decides it. In `Messages` time adds them at any
  moment; in `Connection` the limiter's answer to a `Send` is a free choice, so what holds there
  holds for any limiter. `Wait`, `SetRate`, `SetBurst` and `GetStats` are called by nobody.
- Dates: days of 23 or 25 hours (a change of daylight saving time), and that a repeated reset is
  dated from the end of its last execution and so drifts from midnight.
- The execution of a task that panics, as those of `NewDailyResetTask` and `NewWeeklyTask`, which
  have no execute function, would: it ends the process.
- `Config`, `Logger`, LRU caches, connection ids, metrics definitions, the Redis client beyond its
  `Start` and `Stop`, and generated protobuf code: set-up, output, or wrappers of libraries, with
  no protocol of their own.
- Unsynchronised accesses that Go leaves undefined (`Connection.SetHandler` against `readLoop`,
  `TCPServer.listener`): listed as hazards; the models take the outcomes in which the process goes
  on.
