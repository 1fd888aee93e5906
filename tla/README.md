# TLA+ models of icinga2

This directory holds TLA+ specifications of parts of the code under `src/`,
the TLC models that check them, and `PROJECT.json`. That file lists the
components, the runs, the mutants, the map from each definition to the source
lines it models, the findings and the hazards.

## The system

The code under `src/` is a snapshot of an early icinga2. It has these parts:

| Part | Source | State | Operations |
|---|---|---|---|
| Notification engine | `lib/icinga/notification.cpp` | last/next notification time, notification number, queued jobs | `BeginExecuteNotification`, `ExecuteNotificationHelper`, `SetNextNotification`, `Start`/`Stop`, `Reset`/`UpdateNotificationNumber` |
| Service | `lib/icinga/service.cpp` | acknowledgement and its expiry, dependencies | `AcknowledgeProblem`, `ClearAcknowledgement`, `GetAcknowledgement` (lazy expiry), `IsReachable`, serialisation |
| Subscription component | `icinga/subscriptioncomponent.cpp` | the subscription `VirtualEndpoint` | `Start`, `Stop`, `NewEndpointHandler`, `SyncSubscriptions`, Subscribe/Provide handlers |
| VirtualEndpoint | `icinga/virtualendpoint.cpp`, `icinga/endpoint.h` | method handlers, sinks, sources | `RegisterMethodHandler`, `ProcessRequest` (throws without a handler) |
| IcingaApplication | `icinga/icingaapplication.cpp` | the configuration hive, the loaded components | `Main`, config-object handlers; the `Deleted*` ones throw |
| Entry point | `icinga-app/icinga.cpp` | options, descriptors 0..2, session, config errors, exit status | `main`, `LoadConfigFiles`, `Daemonize` |
| StdioStream | `lib/base/stdiostream.cpp` | the read-ahead FIFO, the inner iostream | `Start`, `Read`, `Peek`, `Write`, `Close`, `GetAvailableBytes` |

Interactions:
- A service's state changes and acknowledgements make the notification
  engine trigger `BeginExecuteNotification`. That call queues one job per
  recipient on the shared worker pool (`Utility::QueueAsyncCallback`).
- `SetNextNotification` queues the `OnNextNotificationChanged` event on the
  same pool, so the event's consumers (cluster replication) may see the
  values in any order.
- `main` in `icinga-app/icinga.cpp` loads and activates the configuration,
  which creates the services, then runs the event loop that feeds them
  check results.
- On every node, the subscription component tells each connected peer which
  methods the node's local endpoints handle (sinks) and send (sources). The
  peers' EndpointManagers route requests with these tables.

The EndpointManager, JSON-RPC connections, the worker pool, time periods,
users and groups are not under `src/`. They are modelled from the
specification as the environment of the modules below.

## Modules

### `Notification` (with `MCNotification`, `MCNotificationQueued`)

One Notification object bound to one service.

**State.**
- `lastNotification`, `notificationNumber` and `nextNotification` are the
  object's fields.
- `jobs` is the set of queued `ExecuteNotificationHelper` calls, and `events`
  the queued `OnNextNotificationChanged` calls.
- `peerNext` is the value the event's consumer applied last.
- `object` is `"started"`, then `"stopped"` after `Stop`, then `"freed"`
  after `Release`: the last `Notification::Ptr` has gone. `JobRefs`, the
  references the queued jobs hold, is empty because line 301 binds the raw
  `this`.
- `svcState`, `lastHardStateChange` and `now` are the service and the clock.
- `gated`, `sent` and `ran` are history variables used only by the
  properties. `gated` and `sent` record, for each trigger that passed and
  each delivery, whether the documented gate held. That gate is
  `RefObjectGate`/`RefUserGate`, written independently of the code-derived
  `NotificationGate`/`UserGate`.

**Actions.**
- `BeginExecuteNotification(type, force)` is the whole method: the object
  gate with its early returns, `SetLastNotification`, recipient expansion
  (`AllUsers`) and one job per recipient.
- `ExecuteNotificationHelper(j)` is the user gate, then a command that either
  succeeds (number and timestamp updated) or throws (nothing changes). It
  runs on a stopped or even freed object, because the job holds the raw `this`.
- `SetNextNotification`, `NextNotificationChanged` (the consumer), `Stop`, `Release`,
  `Tick` and `ServiceStateChange`.

Filters are sets of enum values; `1 << type & filter` is membership. An
unset object filter (`Unset`) means every bit is set
(`GetNotificationTypeFilter`, `GetNotificationStateFilter`). `notification_queued`
leaves the state filter unset. Time
periods are sets of instants, or `NoPeriod` when none is configured.

`MCNotificationQueued` adds one more history variable, `queuedAt`. For each
trigger it records the clock and the service state at dispatch. It lives in
its own module because it would multiply the states of `notification_gates`
(from under 3 minutes to almost 15).

### `Subscription` (with `MCSubscription`)

Several nodes, each with an EndpointManager.

**State.**
- `registered[n]` holds n's endpoints: the subscription endpoint `SubEp`,
  component endpoints, and one remote endpoint per peer.
- `sinks[n][e]` and `sources[n][e]` are the endpoints' method sets.
- `allowed[n]` holds the peers whose endpoint has the "message::" prefix
  allowed.
- `conn` is the set of connections that are up.
- `chan` holds FIFO channels of Subscribe/Provide requests.

**Actions.**
- `SubscriptionComponentStart`, `SubscriptionComponentStop`.
- `RegisterComponent`, a local endpoint registered later. Nothing is
  announced for it.
- `Connect`, then `RegisterRemote`: the remote endpoint appears and
  `NewEndpointHandler` replays every local endpoint's sinks and sources to
  the peer.
- `Deliver`: routing to the subscription endpoint and the Subscribe/Provide
  handler, or a drop when the receiver has no handler.
- `Disconnect`: both remote endpoints and the requests in flight are lost.
  Only the two ends of the lost link (`Lost`) forget the other's methods.

`Subscription` keeps its own `Spec`. The runs check it through `IcingaNode`,
where configuration files decide what starts and what connects.
`MCSubscription` holds only the chain's constants.

### `IcingaNode` (with `MCIcingaNode`)

`IcingaApplication` composed with `Subscription`: the configuration decides
which components a node loads and which connections it makes.

**State.** `Subscription`'s, plus `app[n]` (`init`, `loading`, `running`,
`aborted`, `exited`), `hive[n]` (the configuration objects present) and
`read[n]` (the objects of n's file created so far). The file is read once,
in the order `ConfigFile[n]` lists its objects. `Removable[n]` names the
objects a configuration change may remove from n. It is a bound on the
environment, which keeps the temporal check of the chain under 2 minutes.

**Actions.**
- `Main`: without a file argument the usage is printed and `Main` returns
  `EXIT_FAILURE`; otherwise the collection handlers are registered.
- `NewObject`: a file object is created and its handler runs. The
  subscription component runs `SubscriptionComponentStart`, another
  component `RegisterComponent`; listeners and connections go to the
  ConnectionManager (`Listening`, `Connecting`).
- `RunEventLoop`: `AddObject(configfilecomponent)` has returned, so the whole
  file has been read.
- `DeletedComponent` unloads the subscription component (`Stop`);
  `DeletedRpcListener` and `DeletedRpcConnection` throw, and the node stops.
- `NodeConnect`, `NodeRegisterRemote`, `NodeDeliver`: `Subscription`'s steps,
  taken only by nodes whose event loop runs. A connection needs a
  `rpcconnection` object on one end and a listener on the other.

Removing an application component is left out: what that does is the
component's own `Stop`, which is not under `src/`.

### `StdioStream` (with `MCStdioStream`)

**State.**
- `fifo` is the read-ahead buffer.
- `pos` and `fail` are the position and failbit of the inner istream.
- `out` and `lastSize` are the last call's result and argument.
- `delivered` is the history of the bytes that `Read` returned.
- `written` counts the bytes `Write` put into the inner stream;
  `connected`, `closed` and `innerAlive` follow `Start` and `Close`.

**Actions.** `Read(size)`, `Peek(size)`, `Write(size)`, `Start` and `Close`
are the whole methods. `GetAvailableBytes` is an operator: 0 once the inner
stream is at its end and the FIFO is empty, 1024 otherwise. Callers stop
using a stream once they have closed it; nothing in `src/` calls it at all.

The inner stream is a `std::iostream`: reads and writes share one state, so
once a read has come up short (eofbit and failbit), `Write` writes nothing.

**Arithmetic.**
- `size - peek_len` is computed modulo 2^W.
- The result is then read as a signed `streamsize`.
- The inner read follows libstdc++: a short read or a negative count sets
  failbit, and a failed stream reads nothing.

W = 4 keeps every real count positive (2^(W-1) > input + size), so the only
negative counts are wrapped ones, as with 64 bits.

The module has no type invariant. The only ways to break one lie in the
model of libstdc++'s `read`, not in this repository's code.

`EndIsFinal` says that once `GetAvailableBytes` reports 0, no later `Read`
returns a byte, so a reader loop stops with nothing a `Read` could still
return. It does not say 0 comes only at the real end: after the wrapped count
of line 68 it reports 0 with input unread. `stdio_overrun` shows that case.

### `Service` (with `MCService`)

**State.** `state`, `stateType`, `attempt` and `hasResult` per service;
`ack`, `ackExpiry` and the clock; `seen`, the last value
`GetAcknowledgement` returned; `saved`, the state file: for each service
the bag of named values `InternalSerialize` wrote.

**Next-state relations.** `LiveNext` holds the steps of a running
process (time, check results, the acknowledgement calls); `Next` adds the
state file's `Save` and `Restart`. `LiveSpec` is the reachability model's
specification, which has no state file.

**Operators.** `IsReachable`, with `GetParentHosts`, `GetParentServices` and
the two skip rules of its loops, is an operator translated from the code.

**Actions.**
- `GetAcknowledgement`, with the lazy clear.
- `AcknowledgeProblem`.
- `ClearAcknowledgement`.
- `ProcessCheckResult`. Ingestion is not under `src/`, so this action is
  modelled from the specification's soft/hard rules.
- `Save`: the state file is written (`Serialize`, i.e. `InternalSerialize`
  without the configuration attributes). The writer is outside `src/`.
- `Restart`: every service is read back (`InternalDeserialize`). A missing
  key reads as the empty value, which the getters turn into `AcknowledgementNone`
  and expiry 0.

**Abstract specification.** `AckSpec` states what an acknowledgement
promises without the lazy clear: it lapses the moment its expiry passes,
in memory and in the state file alike, and a read returns what is in
force. `Service` instantiates it with a refinement mapping: the
acknowledgement in force is the one `GetAcknowledgement` would return now
(`EffectiveAck`), and the saved one is read through the same
deserialisation. `AckRefinement` is `AckSpec`'s specification, checked as
a property.

**The model.** Host h1 is checked by hc1 and runs web and db. Host h2 is
checked by hc2. Both host checks have the short name "ping", so a lookup by
short name that ignored the host would pick the wrong one. web depends on
itself, on a missing host, and on h2. The acknowledgement model keeps web
alone on hosts without host checks, with up to two acknowledgements, two
state file writes and times 1..3: the state file makes the state space the
square of the service's, so the four-service model cannot carry it. That
model is checked behind the start-up sequence, in `MCDaemon`.

### `Startup` (with `MCStartup`)

`main`, `LoadConfigFiles` and `Daemonize` of `icinga-app/icinga.cpp`.

**State.** `pc` (where `main` is), `opts` (the parsed options), `fds` (what
descriptors 0..2, and 3 for the first one above them, refer to: closed,
the terminal, `/dev/null` or the error log), `forked` and `ownSession`,
`errors` (the kinds of entry in the compiler context: Warning or not),
`linked` and `activated`, `appObject`, `status` (main's own exit) and
`launcher` (the status whoever started the program sees).

**Actions.**
- `ParseOptions`: a rejected command line, `--help`/`--version`, no
  `--config`, or on to daemonizing or loading.
- `Daemonize(forkOk, errOutcome, setsidOk)`: a failed fork returns at once;
  otherwise the parent exits 0 (`launcher` is success) and the child runs
  the `/dev/null` block and the error-log block exactly as written,
  `fdnull > 0` and `fderr > 0` included, then `setsid`. `main` ignores the
  result.
- `LoadConfigFiles(ce, le, app)`: the compiler reports entries of kinds
  `ce`; the first scan links and validates only if none is an error; those
  report `le`; the second scan fails on any error; then `--validate`
  exits, or `ActivateItems` runs and creates an Application object or not.
- `RunApplication`: `GetInstance` without an Application object throws
  (nothing catches it), otherwise the event loop starts.

`open` returns the lowest free descriptor (`LowestFree`). The error log may
open, be missing and then be created, or fail. The model launches with
descriptors on the terminal, with descriptor 0 closed, or with all three
closed, as supervisors do.

### `Daemon` (with `MCDaemon`)

The composition of `Startup` and `Service`: `Service`'s steps (`Next`,
state file included) are enabled only once `pc` is `running`, and
`Startup`'s steps leave the services alone. `MCDaemon` puts the
acknowledgement and state file model behind the command lines that take
every branch of `main`, launched on a terminal.

## Runs

| Run | Model | Checks | Result |
|---|---|---|---|
| `notification_gates` | 3 users (one only through a group, one named but missing), 1 group plus a missing one, 2 types, 3 states, times 1..3, 2 triggers, 1 state change, 1 `SetNextNotification` | `TypeOK`, `GatesHeld`, `EveryRecipientServed` | pass |
| `notification_reorder` | 3 `SetNextNotification` calls with the clock moving | `PeerNextConverges` | violation: the callbacks run out of order |
| `notification_stop` | 2 triggers, `Stop`, `Release` | `HelperNeverRunsFreed` | violation: a job runs on a freed object |
| `notification_last` | 1 trigger | `LastNotificationMeansSent` | violation: the timestamp moves with nothing sent |
| `notification_queued` | as `notification_gates` with the object's state filter unset; 1 trigger, 2 state changes | `QueuedNotRetracted` | violation: a recovery drops a queued job |
| `icinga_node` | chain n1–n2–n3 from their files (n1: subscription component, connection to n2, c1; n2: c2, listener, subscription component, connection to n3; n3: listener, subscription component); c1 handles a and sends b, c2 handles b; missing argument; removable: n1's subscription component and connection, n2's subscription component, n3's listener; 2 connections, 3 starts | `TypeOK`, `NoForeignRoutes`, `ConfiguredNodesAdvertise` | pass |
| `stdio_order` | 4 input bytes, sizes 0..3, 5 calls (reads, peeks, writes), `Start`, `Close` of an owned stream | `ReadsInOrder`, `PeekPreviews`, `EndIsFinal` | pass |
| `stdio_overrun` | same | `NoBufferOverrun` | violation: Read copies the whole FIFO |
| `service_reach` | 4 services, states OK/Warning/Critical, 2 attempts; ack on web, times 1..2, 1 acknowledgement, no state file | `TypeOK`, `SoftResultsKeepReachability` | pass |
| `daemon` | command lines: plain, `--validate`, `--daemonize --errorlog`, `--help --version`, none, rejected; compile and link errors of both kinds; then web alone, states OK/Critical, times 1..3, 2 acknowledgements, 2 state file writes, restarts | `StartupConfigGate`, `AckRefinement` | pass |
| `startup_detach` | the command lines of `MCStartup`, three launch descriptor tables, error log ok/missing/failing | `Detached` | violation: the loop runs attached |
| `service_reach_spec` | as `service_reach` | `ReachableAsSpecified` | violation: hard Warning host check |

Why these bounds are enough:
- In Notification, the filters of the three users and of the object differ
  on every axis: type, state and period. So each early return of both gates
  is taken in some state.
- The escalation window `begin = end = 1` with times 1..3 puts instants
  before, inside and after it.
- Two triggers are enough for a state change to happen between a trigger and
  its jobs.
- `notification_queued` needs two state changes. The first is a hard change
  at time 2, which moves the escalation window to time 3, where the period
  lets an unforced Problem through. The second is the recovery after dispatch.
- In Subscription, the chain is the smallest topology where forwarding could
  happen: a node re-announcing what it learnt. Two connection attempts give a
  reconnect, and one extra start gives a late start or a restart.
- n2's file registers c2 before its subscription component starts. So the
  replay at `Start` and the announcement at connection both carry a
  component endpoint.
- The removals cover every deletion handler: a stopped subscription
  component on a linked node (n1, n2), a thrown `rpcconnection` removal (n1)
  and a thrown `rpclistener` removal (n3).

Every property of a passing run has a mutant in `PROJECT.json`: a plausible
bug in a mapped definition that makes TLC report the property violated.

## Fairness

- `StdioStream`, `Service` and `Daemon` assume no fairness. Their properties are
  safety properties and action properties.
- The worker pool eventually runs every queued callback:
  `WF_vars(\E j \in jobs : ExecuteNotificationHelper(j))`, and the same for
  events.
- A node's event loop eventually handles a registered connection and the
  requests on it: weak fairness on `RegisterRemote` and `Deliver` per pair
  (`NodeRegisterRemote` and `NodeDeliver` in `IcingaNode`). An aborted node
  handles nothing, so `ConfiguredNodesAdvertise` speaks only of nodes whose
  event loops run.
- `Startup`'s `Spec` has weak fairness on its `Next`: `main` is one thread
  that runs to its end. Its only run checks an invariant.
- Triggers, state changes, `Stop`, connects and disconnects are environment
  choices and are not fair.

The bounded models stop when their counters run out, and the real system is
quiescent then too. So those runs use `CHECK_DEADLOCK FALSE`. The `Service` runs never stop: a check result can always arrive. A job or request
that can never be taken would show up as a liveness failure instead.

## Findings

See `findings` in `PROJECT.json`. In short:
1. Jobs bind the raw `this` and can run after `Stop` has dropped the
   object's references and the object has been destroyed. Binding
   `GetSelf()`, as `SetNextNotification` does, makes `HelperNeverRunsFreed`
   hold: with `JobRefs == jobs`, `Release` waits for the jobs.
2. `last_notification` is set at the gate, not on a successful send as the
   specification says.
3. `OnNextNotificationChanged` callbacks can be reordered.
4. `--daemonize` does not always detach: `main` ignores a failed `fork` or
   `setsid`, and `Daemonize`'s `fdnull > 0` keeps descriptor 1 on the
   terminal when the program was started with descriptor 0 closed.
5. `StdioStream::Read`/`Peek` copy the whole FIFO whatever `size` is. This
   overruns the buffer. In the same case `size - peek_len` wraps to a
   negative `streamsize`: the stream fails, and the rest of the input is
   lost.
6. `IsReachable` treats a host check in hard Warning as down, while the
   specification ignores Warning.
7. A queued notification job re-reads the user's period and filters and the
   service's state when it runs (`notification.cpp:310-332`). A recovery
   between dispatch and the job therefore drops the notification. The
   specification (section 5) says a later state change never retracts an
   already-queued notification.

Components registered after synchronisation are never announced; the code
says so in a TODO (`subscriptioncomponent.cpp:57`). `icinga_node` shows that
this cannot happen at start-up: `Main` reads the whole configuration file
before the event loop runs, so no peer is connected yet. Its mutant, an event
loop entered before the file is read, breaks `ConfiguredNodesAdvertise`.

## Not modelled

- **Service and Notification together.** `AcknowledgeProblem` is one step,
  and the acknowledgement notification it triggers is not fed into
  `Notification`. Both modules are faithful alone. Composing them would
  multiply two state spaces that already take minutes.
- **Sequential reads in `IsReachable`.** `IsReachable` locks its parents one
  at a time, and the model reads them in one state.
- **Accessors, conversions and registries.** These carry no control the
  properties depend on, and the models' object sets are fixed:
  - the accessors, `Service::Start` (group and host registration) and
    `GetByNamePair`;
  - `NotificationTypeToString`, macros and (de)serialisation of
    Notification.
- **Abstract specifications** beyond `AckSpec`: an abstract routing table
  for `Subscription` holds only while connections are stable, which the
  chain run deliberately breaks.
- **The compat component and DowntimeMessage** stay out. They are
  declarations with no behaviour.
- **Configuration reloads** that create objects at run time are not
  modelled (`IcingaNode` creates each file object once). A re-created
  subscription component would meet the dropped announcements of
  `subscriptioncomponent.cpp:20`.
