# A TLA+ verification of solix-link

solix-link talks to Anker SOLIX power stations without the vendor's cloud: over Bluetooth LE, and over the
stations' own MQTT protocol with a local TLS endpoint on an isolated access point. This directory holds TLA+
models of that code, TLC configurations that check them on small instances, and TLAPS proofs of the safety
properties for every value of the constants. Source paths below are relative to the repository's root;
`mqtt_intercept.py`, `client.py` and so on without a directory are in `python/solix_link/`.

## 1. The system

| Component | Source | State it keeps | Operations |
|---|---|---|---|
| Native MQTT endpoint | `mqtt_intercept.py` `LocalMqttServer`, `_Connection` | `connection`, `last_seen`, `metrics`, `_clients`; per connection the writer, `connected`, `subscribed`, the request lock, `pending`, the poller | accept, CONNECT, SUBSCRIBE with takeover, PUBLISH (telemetry, acks, status replies), `poll`, `request`, `close`, `stop` |
| Plan and reserve controls | `mqtt_intercept.py` 677-858 | `_control_lock`; the operation's baseline and phase | `set_tou_plan`, `return_to_grid`, `_wait_grid`, `_write_tou`, `set_backup_reserve` |
| Setting controls | `mqtt_intercept.py` 217-675 | the same lock; the shared `metrics` as baseline | charging power, charge cap, discharge floor, the C1000 settings, the clock screen, disaster plan |
| Framing and decoding | `native_mqtt.py`, `mqtt_credentials.py`, `energy_report.py` | none (a sequence number in `NativeMqttCommands`) | encode requests, decode reports and replies |
| Plans and power flow | `tou.py` | none | validate, encode, decode, classify |
| AP service worker | `ap_service.py`, `ap_service_worker.py` | TCP/UDP servers, the control socket's client set, the files `control.sock` and `ready` | HTTP bootstrap, NTP, `_control`, start, stop |
| Fleet router | `ap_service_fleet.py` | clients per router | route a station's connection by its client certificate |
| Monitor and status file | `ap_service_monitor.py`, `ap_service_config.py` | `status.json`, subscriber queues | poll, publish, judge freshness |
| Supervisor and setup | `ap_service_cli.py`, `isolated_ap.py`, `ap_service_check.py` | the network namespace, the Wi-Fi adapter, the processes it spawned | `run_ap_service` (start, watch, stop); one-shot commands |
| BLE monitor | `client.py` | `BleakClient`, session, events, merged telemetry | connect, disconnect, fresh reads, confirmed writes, notifications |
| BLE session | `protocol.py`, `c300.py` | keys, negotiation stage, partial messages | feed, negotiate, reassemble, encrypt |
| BLE device manager | `manager.py`, `commands.py`, `c1000_capabilities.py` | status per device, tasks, subscribers | run a device, apply a setting, publish |
| Broker bridge | `mqtt_bridge.py` | command queue, subscriber's queue, `_connected`; retained topics at the broker | broker callbacks, enqueue and apply commands, publish snapshots and results |
| History store | `history.py` | SQLite tables, in-memory totals and gaps | record, maintain, query, restart |
| Charging policy | `blueprints/automation/solix_link/opportunistic_charging.yaml`, `charging_policy.py`, `charging_preview_cli.py` | the latch helper and its last change; the preview has none | begin, raise the reserve, set the power, end; preview |
| HTTP gateway | `server.py`, `config.py`, `diagnostics.py` | none of its own | REST and WebSocket access to the manager and the monitor |
| Command line and TUI | `cli.py`, `interactive.py`, `tui.py` | screen state | drive a monitor |
| Home Assistant integration | `custom_components/solix_link/` | coordinator data, `_io_lock` | poll, write, push |
| Browser explorer | `src/protocol/` | a TypeScript session | the same BLE protocol in a browser |
| Dashboard | `dashboard/` | view state | display |

How they interact. A station opens a TLS connection to the endpoint and subscribes to its request topic. From then
on a *poller* task of that connection asks for the status every 5 s, and *controls* (called through the control
socket of the AP service, by the gateway, the bridge or the command line) send requests over the same connection;
a lock per connection puts the requests in a row and one future per connection waits for the reply. The endpoint
publishes telemetry to a monitor that writes a status file; gateway and bridge read it. Over Bluetooth one
`SolixMonitor` per device receives notifications in callbacks and answers writes by waiting for a confirming
report; `MonitorService` owns the monitors and hands telemetry to history, gateway and bridge.

What is hard here:

- *Interleavings of asyncio tasks.* Every `await` in `request()`, `close()`, `run()` and in the controls lets the
  poller, another connection or a caller run.
- *Replies without an identity.* A station's reply is matched by its opcode alone.
- *Cancellation.* A control can be cancelled at any await, by its deadline or by shutdown, and must have undone what
  it did.
- *A station that does not cooperate*: rejects, acknowledges and ignores, sends reports that cannot be used, stops
  answering, drops its connection, or is changed by its own user at the same time.
- *Processes and the host*: a supervisor is asked to stop at any step of a start or a stop whose commands may fail, its
  worker may be killed, and files outlive both.
- *Time*: 12 s for a reply, 15 s before the first request, 5 s between polls, the deadline of `_wait_grid`, the
  deadlines of the control socket.

What makes each component correct:

- endpoint: one live connection; every reply goes to its own request; nothing is sent on a closed connection; every
  request ends; nothing survives a connection; freshness speaks of the current connection;
- plan and reserve controls: success means the station is as asked and nothing else changed; failure means it is as
  before; an activation never changes more than the mode; grid supply is proven after the plan is cleared; every
  control ends;
- setting controls: a reported success was held by the station, a rejection is never a success, and the backup
  reserve does not move unnoticed;
- supervisor and worker: a run that ends leaves the host as it found it, a control that is cut short can undo what it
  wrote, and a run that is asked to stop ends;
- fleet router: a station reaches its own server only, and one station cannot starve another;
- status file: a reader never sees an old report as fresh;
- BLE monitor: a confirmed write was confirmed by reports of after the write; every wait ends;
- BLE session: a report is assembled from its own fragments; keys never change in an established session;
- manager: a lost link is noticed and replaced, whatever fails on the way;
- bridge: every command is answered or was cleared with its connection, no command outlives its connection in the
  queue, the retained topics are right;
- history: totals are those of the stored samples, over restarts and failed transactions; no energy is counted over
  a gap;
- charging policy: after an early end nothing is sent before a review; a complete sequence comes to rest; the
  preview decides as the automation does;
- plan encoding: as its reference definition.

## 2. Modules

| Module | What it is |
|---|---|
| `NativeLink` | the endpoint: connections, takeover, the request lock, `request()`, pollers, callers, the transport |
| `RequestReply` | abstract: the exchange of requests and replies that the endpoint promises its callers |
| `NativeLinkProofs` | theorems about `NativeLink` |
| `MCNativeLink` | instance for TLC (symmetry of connections and callers) |
| `TouControl` | one plan or reserve control from its baseline to its result, against a station with a user |
| `MCTouControl` | instance for TLC |
| `NativeSettings` | one setting over the native link, of every family of the code, against a station with a user |
| `BleMonitor` | one Bluetooth station: its task, the negotiation, the notifications and the settings |
| `MqttBridge` | the broker bridge over the statuses and subscribers of the device manager |
| `ChargingPolicy` | the charging automation through coordinator, gateway and worker, and the preview of it |
| `ApService` | two runs of the AP service: supervisor, namespace and adapter, worker, files, one control |
| `MC...` of these five | instances for TLC |
| `...Proofs` of these five and of `TouControl` | theorems about them |
| `History` | the history of one station: polls, failed transactions, queries, pruning, restarts |
| `HistoryProofs` | theorems about `History` |
| `MCHistory` | instance for TLC (symmetry of the contexts) |

### NativeLink

An action is the code of one task from an await to the next.

| Code | Model |
|---|---|
| `_accept`, `_clients`, its limit of four | `Accept`, `Clients`, `MaxClients`, `FinishCleanup` |
| `run()`: CONNECT, SUBSCRIBE, PUBLISH, its loop and its ends | `Connect`, `Subscribe`, `BeginTakeover`/`FinishTakeover`, `Report`, `FullReport`, `Reply`, `AfterPacket`, `RunEnds` |
| `close()`: cancel and gather the poller, fail the pending future, close and wait | `CancelPoller`, `CloseWriter`, `FinishTakeover`/`FinishCleanup` |
| `request()`: the lock, the startup delay, the two tests of the connection, the future, `wait_for` | `Request`, `Acquire...`, `Wake...`, `Publish`, `Resume`, `Timeout`, `CancelRequest`, `Abandon` |
| `poll()` | `PollTurn`, `AfterRequest`, `PollerCloses` |
| a control that captured `server.connection` | `Capture`, `Request`, `EndControl`, `CancelCaller` |
| the station, the network, timers | `Reply`, `Report`, `FullReport`, `Drop`, `TransportLost`, `GraceElapses` |

`published`, `unanswered`, `answeredBy` and `givenUp` number the requests. The code has no such numbers: they are history.
Two branches of `run()` settle the pending request: a reply of its opcode (`Reply`, `Settles`), and on an original C1000, whose
firmware may defer the answer to a status request into a full report 0405, every such report, asked for or not
(`FullReport`). `model` is the station's model, chosen at the start. `raced` is history too: it becomes true when a takeover
ends while another is in progress.

On an original C1000, therefore, the outcome of a status request may be a report that is nobody's answer, and the answer that is then
still owed may settle a later status request. What remains true there, and what `NoStaleReply`, `NoOrphanRequest` and `RequestReply`
say of it, is that neither comes from a request that timed out or was cancelled while it waited (`givenUp`): those close
the connection. Of the other models they say that the outcome is the reply to the pending request itself. The settings of an original
C1000 go under the same lock but await no reply (`send_original_setting`); they and what confirms them are in `NativeSettings`,
where this alias is why `ConfirmedEarly` is excused.

Assumed of the station: it answers a published request at most once. It may not answer, and answers late.

Abstracted: packets without effect (PING, foreign topics, a second SUBSCRIBE); packet contents, apart from the
opcode and the success of a reply; diagnostics; logging errors. An accept over the limit creates no connection.

`stop()` is in `ApService`.

`RequestReply` is what all this amounts to for a caller: per link at most one outstanding request, whose outcome is the reply
to this very request (of a deferring station: a report, or the reply to a request that was not given up) or a failure, and a link on
which a request was given up carries no further one. `NativeLink`
instantiates it as `Exchange` (`deferring` is the model, `usable` is an open writer, `asked` the last published request, `abandoned`
is `givenUp`, `exchange` the state of the pending future, `reply` the request that was answered or 0) and the run `native_requests` checks `ImplementsRequestReply`.

### TouControl

Its steps are the requests of the operation in the code's order; `OnFailure` is its exception handling: the step an
exception at each step leads to. A request has the outcomes that NativeLink gives it: a reply, a rejection, an
unusable reply, a timeout or a cancellation while it waits for the reply (both close the connection), a cancellation
in the queue of the lock (does not close it), a lost connection, and a connection found closed, on which nothing is sent.
`_control_lock` keeps other controls out, so one operation is one behaviour.

A station's stored state is its usage mode, plan, reserve and `kept`, everything else that `_tou_protected` compares.
A report adds a power flow and a tariff, which the station chooses. `fit` stands for the readiness checks on a report
(`_tou_ready`), for the answer to the readiness query and for the range check of the reserve; both answers are explored.

The station's user changes it at most once (`touched`); a property about the station's final state says whether it
holds with or without the user.

### NativeSettings

One setting from its baseline to its last confirming report. `station`, `down` and `up` are the station and the queues
of the link; `settled` is the reply the pending request got.

| Code | Model |
|---|---|
| `_set_c1000_setting`, `set_ac_output_enabled`, `set_clock_brightness` (C1000 Gen 2: exact replies) | kinds `plain`, `twice` |
| `set_discharge_floor`, with its guard on the reserve | kind `floor` |
| `set_ac_charging_power`, `set_charge_cap`: the shared `metrics` after the reply | kinds `power`, `cap`; `Seen` |
| `_set_original_setting`: two reports, an optional acknowledgement, the 0405 alias | kind `original`; `Settles`, `Recorded` |
| the guards before a write | `Guard` |
| what a sample must show | `Confirms`, `Samples` |

The station applies, ignores, rejects or silently takes a write (`AnswerWrite`), sends reports of its own accord and repeats
acknowledgements (`Note`), and its user changes it once (`Touch`). `arrived`, `shown`, `refused` and `early` are history.

Excused, because the code has it (`ConfirmedEarly`): two reports that an original C1000 sent before the write reached it and that
were taken for the answers to both status requests.

Not in this module: `set_ac_countdown`, whose confirmed value runs down with time; the radio queries.

### BleMonitor

| Code | Model |
|---|---|
| `MonitorService._run_device` | `Connect`, `Negotiated`, `Watch`, `Closed`, `NextMonitor` |
| `SolixMonitor.connect`, `disconnect` | the same, with `Disconnect` |
| `_notification`, `_handle`, `Session.feed` | `Notify`, then `Handle` |
| `_write_setting` with its status requests | `StartWrite`, `Poll`, `Update`, `NextAttempt`, `NoUpdate` |
| fresh baselines and readbacks | `Baseline`, `SkipUpdate`, `Readback` |
| `apply_setting` under its lock | `StartControl`, `ControlEnds` |

A report carries some of the fields; the code notes the number of the report that brought each field and compares it with a
baseline, so `since`, the set of fields reported after the baseline, is all that matters.

`SettingWasHeld` excuses a report that the station made before the write arrived and that was still on its way (`clean`): freshness is
counted on arrival. `Reconnects` excuses the end of the device task itself: in the `finally` clause of `_run_device`, `disconnect()` awaits
`stop_notify()` of the Bluetooth library, and an exception of it ends the task and with it the reconnections of this
station (section 5).

Not in this module: pairing, Wi-Fi provisioning, radio queries, encryption, and the reassembly of fragments.

### MqttBridge

A step is what runs between two awaits; the callbacks of paho's network thread reach the event loop through one
queue, in order.

| Code | Model |
|---|---|
| `on_connect`, `on_message`, `on_disconnect` | the actions of these names, which only append to `callbacks` |
| `_broker_connected`, `_enqueue_command`, `clear_connection` | `Callback` |
| `run()`: the two tasks, `asyncio.wait`, publishing, `_handle_command` | `Started`, `GetUpdate`, `GetCommand`, `Serve`, `Applied`, `Ends` |
| `MonitorService._publish` and a subscriber's queue | `Publish`, `LinkUp`, `LinkDown`, `Reported` |
| 90 s without a report | `Ages` |

`origin`, `cleared`, `clears` and `evicted` are history. `TopicIsRight` excuses a device that is connected and silent (nothing
publishes its growing stale) and one whose newest update a full queue pushed out.

### ChargingPolicy

| Code | Model |
|---|---|
| the blueprint's conditions | `StationSafety`, `SignalSafety`, `PolicyBounds`, `MayBegin` |
| `native_min_value` of the reserve's entity, `validate_command` | `NativeMinimum`, `Valid` |
| its sequence: latch, recheck, reserve, recheck, power, latch | `Begin`, `RaiseReserve`, `SetPower`, `Finishes` |
| `SolixCoordinator` under `_io_lock` | `Poll`, `Polled`, `Send`, `CommandEnds` |
| `GatewayClient.async_command`, `APServiceMonitor.command`, `ap_service_request` | `Send`, `ConnectionLost` |
| `_control` in the worker | `WorkerApplies`, `WorkerConfirms`, `WorkerFails` |
| the status file and its age | `Reports`, `Ages` |
| `preview_charging_policy` | `SettingsValid`, `Reasons`, `Proposed`, `Preview` |
| the user, helpers and restart of Home Assistant | `Arm`, `ClearLatch`, `Enable`, `CoolsDown`, `Restart` (external) |

A signal is abstracted to the thresholds it passes. Reserve, floor and cap are percentages, and preview and blueprint each have
their own guards of them. What is wrong with the rest of a report is one value, `lacks`: mains, AC output, Fast, usage
mode, tariff, or a value that is missing or outside its domain; each side tests it for itself. The preview also requires that the
snapshot has no `error`; the worker and the status file set one only together with `connected` false, which both refuse.
`PreviewAgrees` names the two ways in which the preview is stricter (section 5). `uncertain` and `calm` are history. `CoolsDown` waits for the worker: the cooldown is at least 60 s and a control of a setting ends within 45 s.

Not in this module: the ranges of the policy's own powers and thresholds, which are constants here, and the parsing of the preview's
requests.

### ApService

| Code | Model |
|---|---|
| `run_ap_service`: pairing, start, waiting for `ready`, provisioning, the loop, the `finally` clause | `Run`, `Paired`, `Spawn`, `SeesReady`, `Joined`, `Gives`, `Unwind`, `Disconnected` |
| `IsolatedAP.start`, `_wait_ready` | `Start`: `Refuse`, `StartFails`, `AddNamespace`, `MoveAdapter`, `Address`, `SpawnDaemon`, `Enabled` |
| `IsolatedAP.stop` | `Stop`: `StopProcess`, `Kill`, `AllStopped`, `ReturnAdapter`, `TidyAdapter`, `RemoveNamespace`, `EndStop` |
| `APService.start`, `_worker` | `Boot`, `Serve`, `BootFails` |
| `APService.stop`, `MqttDeviceRouter.stop`, `LocalMqttServer.stop` | `HideReady`, `Sweep`, `ClientsEnded`, `CloseStations`, `StationsClosed`, `Exit` |
| a control that writes, is confirmed, or fails and undoes (`set_tou_plan` is one) | `Connect`, `Register`, `Control` |
| the station's TLS connection | `StationConnects`, `HandshakeEnds`, `LinkDrops` (external) |
| SIGTERM, Ctrl-C, processes that exit or are killed | `AskToStop`, `Interrupt`, `DaemonExits`, `WorkerKilled` (external) |

`ap.start()` and `ap.stop()` have no await, so a cancellation takes effect only at the awaits of the supervisor (`Awaiting`); a
second Ctrl-C interrupts `ap.stop()` itself. The worker is a process of its own, which goes on meanwhile. `waits` says
whether `Server.wait_closed()` waits for accepted clients, which depends on the version of Python. `served`, `badly`, `killed`, `unable` and
`twice` are history. The supervisor may give up at every await for any of the reasons the code has there.

Assumed: an `ip` or `iw` command that fails has changed nothing of what it was to change (but a sequence of them may fail in the middle);
a command or spawn of `ap.start()` and the note of it for `stop()` are one step, so that a second Ctrl-C does not fall between them; the worker
can always be spawned; SIGKILL ends a process; a station whose connection lasts takes the undoing write (what else can become of it is in `TouControl`).

Not in this module: the HTTP and NTP servers, the eight places of the control socket, the router's choice of a
station, `ap-service-add`.

### History

A lock serialises the calls of the store and each is one SQLite transaction, so a call is one action.

| Code | Model |
|---|---|
| `record()` and `_maintain()` at its end | `Record`: `Polled`, then `Maintained` |
| `_record_one()` | `RecordOne`: `Unavailable`, `Replayed`, `Conflicting`, `Accept` |
| `_break()`, `_save_station()`, `_insert()` | `Break`, `Save`, the appended row |
| the `except` clauses of `record()` | `RecordFails` |
| `query()`, as far as it writes | `Query`, `QueryRollsBack` |
| `close()` or a crash, then the constructor | `Restart` |

The state is in two halves: what the process knows (`station`, `rows`, the clock variables) and what is in the database
(`stored`, `samples`). `Restart` rebuilds the first from the second. `chain`, `bridged` and `counted` are history: `chain`
is the time of the last reading no break followed, in the words of the documentation and not of the code; `counted` adds up
every row ever committed, those that were pruned since included; `rowsBack` counts the rows that failed queries
brought back.

Abstracted: watts and percentages to known or unknown, energy to covered seconds (both channels alike), times to a few
instants. A poll carries at most one report of the station; none, a duplicate and a malformed one break it alike.

Not in this module: the points and aggregates of `query()`, the limit of 32 stations, the checks of the file.

## 3. Runs

Deadlock is not checked: connections are finite objects and a control is one operation, so every model may stop.

| Run | Instance | Shows |
|---|---|---|
| `native_takeover` | three connections, one caller, one request each, a C2000 Gen 2 (no startup delay) | `PollerWatches`, `SingleLive`, `FreshIsCurrent` over every order of subscribing, taking over and closing |
| `native_requests` | two connections, one caller, two requests each, an original C1000 or a C1000 Gen 2, startup delay, under `FairSpec` | `NoStaleReply`, `NoOrphanRequest`, the refinement `ImplementsRequestReply`, and `WaitsEnd`, with late replies, rejections, timeouts and cancellations |
| `tou_control` | all four operations, three plans, two reserves, two protected states | `SuccessIsTrue`, `FailureIsUndone`, `GridIsProven`, `ActivationChangesModeOnly` |
| `tou_ends` | the same operations, one reserve and one protected state, under `FairSpec` | `ControlEnds` |
| `tou_grid_timeout` | `return_to_grid` alone | a counterexample to `GridTimeoutClears` (section 5) |
| `history` | three instants, two contexts, three rows, one restart | `NoBridging`, `CoverageBounded`, `ChartIsTrue`, `ClaimsAreStored`, `LifetimeCoverage`, `CapIsApplied` over polls with every clock and report, failures, pruning and queries |
| `history_gaps` | the same with two restarts | a counterexample to `LifetimeGaps` (section 5) |
| `native_settings` | every family, two levels, two reserves, two protected states, two unasked messages, one change by the user | `SuccessWasHeld`, `ReserveIsSafe` |
| `ble_monitor` | the three kinds of settings, two values, two attempts, a negotiation of two rounds, under `FairSpec` | `SettingWasHeld`, `Reconnects`, `SettingEnds` |
| `mqtt_bridge` | two stations, two commands of which one is refused, queues of one, two connections to the broker, four events of the stations, under `FairSpec` | `QueueIsCurrent`, `TopicIsRight`, `CommandsAnswered` |
| `charging_policy` | idle and charging watts, three reserves, two floors, two caps, two battery levels, one signal, two changes by others | `LatchHolds`, `Settles`, `PreviewAgrees` |
| `ap_service` | two runs, one control, one lost link or exited daemon, a worker killed any time, under `FairSpec` | `LeavesNothing`, `UndoneBeforeExit`, `StopEnds` |

Why the bounds are enough:

- *Three connections* are the first number at which a takeover can meet another one; two are enough for a request to
  compete with its successor.
- *`MaxRequests`* limits the requests on a connection, those waiting for the lock included. With two, a request can
  follow an abandoned one, which is all that a stale reply needs; the proofs hold without the bound mattering.
- *One caller and a poller* compete for the lock: a holder and one that waits and can be cancelled. The
  safety properties of this run are proved for any number of callers and requests (section 4), so that the instance only has
  to show the liveness and the refinement.
- *Three plans* are the empty one, the all-day plan `return_to_grid` uses, and any other.
- *Three instants* with `MaxGap` 1 and `Freshness` 2 hold an interval that is integrated, one that is too long, a
  report that is stale, one from the future, one that is late and a clock that goes back. *Three rows* hold a pair and the marker
  of a gap; the fourth exceeds the cap. *One restart* meets every state of the store, two are needed to lose a gap.
- *Two levels and two reserves* share one scale in `NativeSettings`, so that a level lies below, at or above the reserve. *One change
  by the user* is enough to falsify a baseline or a sample, *two unasked messages* to repeat an acknowledgement after a rejection.
- *Attempts* of `_write_setting` are two instead of ten: a first, and one after it. The queues of `BleMonitor` hold one element: what the
  model adds to a longer one is a longer delay, which the station's choice of when to report already gives.
- *Queues of one* in `MqttBridge` are full after the first element; *two connections* to the broker leave one break between
  them, *two stations* let an update of one push out the other's.
- *Two changes by others* in `ChargingPolicy` fall on two different steps of a sequence. *Three reserves* are below, at
  and above the minimum, and the last is above one of the *two caps*. At one of the *two floors* the reserve can be too close to it, at the
  other the policy's minimum is. A floor outside the preview's list is left to the theorem.
- *Two runs* of the AP service let the second meet what the first left: a file, a process, a namespace, an adapter. *One control* and
  *one accident* (`MaxAccidents`) suffice because the controls are independent of each other, and a second accident only adds what
  the first already excuses.
- `MaxRowsBack` bounds how far the row count may be off (section 5).

Fairness. The event loop runs each ready task and fires each timer that is due, so the steps of tasks and the timers
are weakly fair. Nothing is assumed of the station, of callers (which need not call) or of the network (which need not fail).
A transport that is closing is lost eventually, because `close()` of asyncio ends in `connection_lost`, at the latest
after the TLS shutdown timeout. In `BleMonitor` the device task, the notification tasks and the setting's timers are fair, the
look at the link only when the link is lost (a link that stays up need not be given up); in `MqttBridge` the callbacks and
the bridge's loop, whose 30 s limit ends `apply_setting`. In `ApService` the steps of `ap.start()` and `ap.stop()`
are fair because each command and each wait in them has a time limit, those of the worker, of a control and of the TLS handshake
because each is a task or has a deadline; a cancellation is delivered at the next await. Nothing is assumed of requests to stop, and a
supervisor that is not asked may go on for ever. `ChargingPolicy` and `NativeSettings` claim safety only.

## 4. Proofs

Every invariant and every action property of the passing runs is also a theorem `Spec => ...`, and so is the
refinement of `RequestReply`; TLC shows them on small instances, TLAPS for all values of the constants. What the
runs alone show is liveness.

| Module | Theorems (and the property each states) | For any |
|---|---|---|
| `NativeLinkProofs` | `TypeCorrect` (`TypeOK`), `RepliesAreNotStale` (`NoStaleReply`), `NoRequestIsOrphaned` (`NoOrphanRequest`), `OneLiveConnection` (`SingleLive`), `FreshnessIsCurrent` (`FreshIsCurrent`), `PollersWatch` (`PollerWatches`), `EndpointImplementsExchange` (`ImplementsRequestReply`), `NothingIsSentAfterClose` (`NothingAfterClose`) | number of connections, callers, commands |
| `TouControlProofs` | `TypeCorrect`, `SuccessMeansDone` (`SuccessIsTrue`), `FailureMeansUndone` (`FailureIsUndone`), `GridSupplyIsProven` (`GridIsProven`), `ActivationIsModeOnly` (`ActivationChangesModeOnly`) | plans, reserves, protected settings |
| `NativeSettingsProofs` | `TypeCorrect`, `SuccessMeansHeld` (`SuccessWasHeld`), `ReserveIsNotMoved` (`ReserveIsSafe`) | levels, number of reports and of changes by others |
| `BleMonitorProofs` | `TypeCorrect`, `ConfirmedMeansHeld` (`SettingWasHeld`) | values, exchanges, attempts, queue sizes |
| `MqttBridgeProofs` | `TypeCorrect`, `QueueStaysCurrent` (`QueueIsCurrent`), `TopicsAreRight` (`TopicIsRight`) | stations, commands, queue sizes |
| `ChargingPolicyProofs` | `TypeCorrect`, `NothingAfterFailure` (`LatchHolds`), `ComesToRest` (`Settles`), `PreviewForetells` (`PreviewAgrees`) | powers, reserves, battery levels |
| `ApServiceProofs` | `TypeCorrect`, `NothingIsLeft` (`LeavesNothing`), `ControlsAreUndone` (`UndoneBeforeExit`) | number of runs, accidents, controls |
| `HistoryProofs` | `TypeCorrect`, `NothingIsBridged` (`NoBridging`), `CoverageIsBounded` (`CoverageBounded`), `ClaimsAreAlwaysStored` (`ClaimsAreStored`), `ChartStaysTrue` (`ChartIsTrue`), `LifetimeIsCovered` (`LifetimeCoverage`), `CapStaysApplied` (`CapIsApplied`) | instants, limits, contexts, restarts |

No run checks `NothingAfterClose` by itself: the refinement has it as a consequence (its `Ask` needs a usable link).

### Assumptions

Only the named assumptions of the modules are used. They are of three kinds. Bounds and sizes are naturals, and those that
the code cannot have at zero are positive (attempts, exchanges, the subscriber's queue, `MaxDown`). `None` is none of the
values it stands for the absence of (`NoneAssumption` in `TouControl`, `NativeSettings`, `MqttBridge`, `History`,
`ValuesAssumption` in `BleMonitor`). And the data is what the code takes it for: the two plans that `TouControl` names exist and differ; charging power is not below idle power, and the
minimum reserve is a percentage in steps of five, as both blueprint and preview require, and the caps are the five that both accept (`ChargingPolicy`);
the models are those of the native endpoint (`NativeLink`); the reserves of a station are a range of percentages (`NativeSettings`,
where the firmware moves a reserve into the range between floor and cap).

### Arguments

*Replies.* `NoStaleReply` is not inductive: a stale reply needs an old request that the station may still answer.
`NoOrphanRequest` says that there is none on an open connection. It in turn needs that whoever abandons a pending
request is the one that owns it, i.e. that the lock's queue is what it should be. So `RequestInv` is the conjunction of
`LockQueue` (the queue holds exactly the tasks inside `request()`, once each, only the head is past the acquisition),
`PendingOwned` (a pending future belongs to the head), `OneUnanswered`, `GivenUpCloses`, `NoOrphanRequest` and `NoStaleReply`.
Timeouts and cancellations preserve it because they close the writer in the same step as they forget the request (`GivenUpCloses`).
With the alias of an original C1000 a report may settle a request whose reply is still owed, so `OneUnanswered` says there only that
what is owed was published. Steps that leave the requests alone keep all of this by one lemma (`AccountsFrame`).
The same invariant carries the refinement: each action either is one of `Ask`, `Answer`, `Fail`, `Take`, `GiveUp`
on its link, or changes nothing of what the mapping reads.

*Takeover.* `SingleLive` needs that a takeover waits for the connection that is current, and that the old connection's
transport is lost before the new one is installed. `CurrentInv` is the conjunction of `TypeOK`, `Subscribing`,
`TakeoverOfCurrent`, `OnlyCurrentCanSpeak` and `FreshIsCurrent`. All but the first two are under `~raced`.

*Controls of the plan.* The invariant of `TouControl` adds to the three properties what carries them from step to
step: which operation is at which step (`Flow`), that one request is on its way at most (`OneRequest`), what a reply proves of
the station at the moment it was made (`ReplyShows`), that the control's picture of the station is true unless its user
changed it (`Mirrors`), and that the count of samples is that of the proofs (`CountProves`).

*Settings.* A success rests on a report made after the write arrived. Reports and replies travel in order, so the
invariants of `NativeSettings` and `BleMonitor` speak of queues: the write is in one of them once (`OneWrite`; `Phases`), reports made
before its arrival are ahead of those made after (`Order`), what a control has learned from a report of the second kind
is true (`Proven`; `Honest`), and a rejection is met before such a report (`Rejection`; `Refusal`). `BleMonitor` also needs that one reply
of the negotiation at most is under way (`Negotiation`), or a session could start anew in the middle of a setting.

*Bridge.* A command among the callbacks was appended after as many losses as the loop will have handled when it gets to it (`InOrder`),
so one that is in the command queue is of the present connection. For the topics, the last update of every station in the queue, or
else the one in hand, or else the topic, tells the truth (`Right`).

*Charging policy.* `Latched`: an early end that nobody has reviewed keeps the latch set or the automation off. While
nobody interferes (`calm`), `Kept` says at each step of the sequence which of station, report, snapshot and command already show the
target; at the end all do, so no condition lets a sequence begin again. `PreviewForetells` compares the two sets of guards: the minimum of the
reserve's entity is rounded up from `floor + 5` (`RoundedUp`), so a reserve the preview finds too low is below the policy's minimum
whenever the automation begins.

*AP service.* `LeavesNothing` follows from what the supervisor's processes list and adapter state account for: whatever runs is in `processes`
(`Owned`), the stage of start or stop matches what exists (`Staged`, `Clean`), and the worker's files match its
step (`Files`). `UndoneBeforeExit` needs that a changed plan has either a client that will undo it over a live link or
one of the excuses (`Undoable`).

*History.* `NoBridging` speaks of what was integrated; the reason lies in `previous`, the endpoint of the next interval.
`HistoryInv` says that `previous` is the last report (`highwater`) and, unless a failed `record()` has yet to be turned into
a break (`_reset_required`), the reading that no break followed (`chain`). It also holds the bound of the coverage, and
that the row has all columns of the station but the gaps, from which `Restart` recovers the invariant. The proof
follows one transaction: `Continues` says what each step of `record()` may carry over from the station to the
transaction, and under which condition on the poll.

*Its table.* `ChartIsTrue` needs to know what may be appended: `Behind` says that no row is later than the last report, and that no marker
stands at that report while it can be paired; `Flags` says that `gap_open` is set exactly while there is no endpoint,
unless the station was restored and not polled since. `Tells` carries both, and the sum of the covered seconds, through
the transaction. Deletions keep them because what is left is a part of the rows in their order (`PartOf`).
What `RowsSince` and `PlusRows`, which are recursive functions, compute for any number of rows is proved by induction; as the
library's rule of induction cannot be instantiated here, the lemmas `Least`, `Induction` and `Recursion` derive from the
well-foundedness of `<` that a set which has 0 and is closed under successors has all numbers, and that such a function exists.

Only model-checked: liveness under fairness and `ENABLED`, which are out of the prover's reach (`WaitsEnd`, `ControlEnds`,
`Reconnects`, `SettingEnds`, `CommandsAnswered`, `StopEnds`).

## 5. What the checks found

- **`return_to_grid` can leave its temporary plan active** (finding, run `tou_grid_timeout`). The comment in
  `return_to_grid` says that the clearing write is tried even when power flow is unconfirmed, and a test shows it for
  a deadline that falls between two requests. When the deadline falls *into* a status request of `_wait_grid`,
  `wait_for` cancels `request()`, which closes the connection; the clearing write then finds it closed and nothing is sent.
- **A restart's gap can be lost** (finding, run `history_gaps`). After a restart the first poll usually meets the
  report that is stored already. `_record_one` then counts the gap of the restart and inserts its marker, but returns
  for the unchanged report without `_save_station`. If the process restarts before the next report, the marker stays in
  the table and the gap is missing from the lifetime total for good. Energy and coverage are not affected.
- **`query()` can lose count of the rows** (`history.py` 437). It prunes in a transaction but does not
  restore `_rows` when the commit fails, as `record()` does; until the next start the table outgrows its cap
  (`docs/persistent-history.md` line 30 says "at most 500,000 rows") by the rows that came back, and by no more (`CapIsApplied`).
- **The preview is stricter than the blueprint** although its document says that the decision matches
  (`docs/charging-policy-preview.md`, Guards and decision, which then states the stricter rule, as
  `python/tests/test_charging_policy.py` does). It blocks while the reserve is not at least 5 above the floor and for a floor outside
  `DISCHARGE_FLOORS`; `policy_bounds` of the blueprint holds only the policy's own minimum against the floor, and the automation begins.
  In the first case its first command is the raise that ends the difference (`PreviewAgrees`).
- **An original C1000 may answer a question nobody asked** (a limit). A full report that it sends by itself settles the pending status
  request, and the true answer may then settle the next one (`FullReport`). Both are fresh reports of this connection, so the poller
  loses nothing; a control that counts on a report made after its write does (`ConfirmedEarly`).
- **Overlapping takeovers** (a limit, not a disagreement with a document). Two connections that subscribe while both
  wait for the same old one both install themselves. The later one wins, the earlier stays open, subscribed and
  polled, and updates the shared telemetry. `SingleLive` and `FreshIsCurrent` therefore hold unless `raced`.
- **Undoing has limits.** `FailureIsUndone` excuses an undoing write that the station refuses or ignores, one that
  `tou_plan` cannot build (an enabled empty plan), and one that a second cancellation cuts short.
- **A device task can end** (a limit; `python/README.md` line 901 says that the service reconnects BLE automatically). `_run_device` awaits
  `monitor.disconnect()` in its `finally` clause, outside the `except` that keeps the loop alive; an exception of
  `stop_notify()` there ends the task. Whether the Bluetooth library raises depends on its backend.
- **A report that was on its way** when a Bluetooth write was issued counts as fresh and can confirm it; the same
  holds for two such reports of an original C1000 in `NativeSettings`.
- **Retained topics can be late.** The bridge publishes nothing when a connected station falls silent, so its availability topic stays
  "online"; and a full subscriber queue drops the newest update of one station for another's.
- **The bridge stops on an unexpected error** of `apply_setting`, although the docstring of `run()` (`mqtt_bridge.py` line 173) says that it
  runs until cancelled; `CommandsAnswered` therefore allows the end.
- **The automation writes what it saw.** The reserve is judged on reported data, so a change by the station's user in between
  is overwritten, and a reserve lowered after its step is left for the next sequence.

- **A stop of the AP service has limits** (`docs/isolated-ap-mqtt.md` line 263 promises that shutdown stops the services and returns the
  adapter). When `monitor.disconnect()` in the `finally` clause of `run_ap_service` raises, or a second cancellation meets it, `ap.stop()` is
  never called; a second Ctrl-C interrupts it in the middle. `LeavesNothing` excuses both (`"cut"`).
- **A worker can be killed by an ordinary stop.** It has 5 s, and may need more: for a control that undoes what it wrote, or, where
  `wait_closed()` waits, for a station whose TLS handshake completes after the connections were closed. Its files `control.sock` and
  `ready` then stay, and the next worker refuses to start until they are removed by hand, which is what the code intends for a
  socket that might still be served. `StopEnds` holds because of this SIGKILL; without it the run would hang (the mutant `NoKill`).
- **A control that begins during the shutdown** is not cancelled if its task runs for the first time after the worker cancelled its
  clients; where `wait_closed()` does not wait it may be left with its write (`late` in `UndoneBeforeExit`).

## 6. Plan

1. Proofs: what holds of single steps of `History` and `ApService` beyond their invariants, e.g. that the stored totals only
   grow and that a run which has ended leaves the files alone.
2. If the model grows again: the reassembly of fragments (`protocol.py` 726-760) under loss.

Not modelled, and why:

- request framing, telemetry decoding, plan encoding (`native_mqtt.py`, `tou.py`, `protocol.py`): byte layouts
  and validation without state. The models use what the decoders decide;
- the fleet router's choice of a station: certificates; its limit of connections is a count;
- the worker's bootstrap HTTP and NTP, the HTTP gateway, the other Home Assistant platforms: they carry requests and
  files from one modelled part to another. Of the paths a command takes, `ChargingPolicy` has the one with the
  most processes;
- the points and aggregates of history queries: sums over the rows, without a state of their own.

Left out for good: setup and check scripts, command line, terminal, dashboard and browser views (I/O and layout); the
cryptography (external libraries); firmware analysis tools (research scripts).
