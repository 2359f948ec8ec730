----------------------------- MODULE MqttBridge -----------------------------
(* The broker bridge (mqtt_bridge.py) over the statuses and subscribers of   *)
(* the BLE device manager (manager.py).                                       *)
(*                                                                            *)
(* Three things run: the bridge's loop run(), which waits for an update of a  *)
(* device and for a command and serves what it got; the callbacks that paho's *)
(* network thread hands to the event loop, one after the other, in the order  *)
(* in which the thread saw the events; and the device tasks, which publish a  *)
(* status to every subscriber. A step of this module is what runs between two *)
(* awaits. Metrics, topics and payloads are left out: an update is a device   *)
(* and whether it is available, a command is a name. The time limits are      *)
(* steps that may be taken when what they wait for has not come.              *)
EXTENDS Naturals, Sequences, SequencesExt, FiniteSets

CONSTANTS
  Devices,       \* the configured stations
  Commands,      \* the commands that MQTT clients send, each once
  Unfit,         \* those that are retained or that decode_setting refuses
  None,          \* no update, no command
  QueueSize,     \* maxsize of _commands
  UpdatesSize,   \* maxsize of a subscriber's queue
  MaxLinks,      \* how often the broker accepts a connection
  MaxChanges     \* how many events of the stations are followed

ASSUME SizesAssumption ==
  {QueueSize, MaxLinks, MaxChanges} \subseteq Nat /\ UpdatesSize \in Nat \ {0}
ASSUME NoneAssumption ==
  None \notin Commands \cup BOOLEAN \cup [device : Devices, available : BOOLEAN]

VARIABLES
  broker,      \* is paho connected, as its network thread sees it
  links,       \* connections so far
  callbacks,   \* call_soon_threadsafe: what the event loop has not yet run
  connected,   \* the event _connected
  commands,    \* the queue _commands
  updates,     \* the queue subscribe() returned
  phase,       \* where run() is: starting, waiting, applying, ended
  hand,        \* the results of update_task and command_task
  device,      \* _status: connected, and a report in the last 90 seconds
  changes,     \* events of the stations so far
  topic,       \* the retained availability of each device at the broker
  origin,      \* the connection over which a command came, 0: not sent
  results,     \* commands for which a result was published
  cleared,     \* commands a lost connection removed from the queue
  clears,      \* lost connections the event loop has handled
  evicted      \* devices whose newest update was pushed out of the queue

fromBroker == <<broker, links, origin>>
stations == <<device, changes>>
answers == <<results, cleared>>
vars == <<fromBroker, callbacks, connected, commands, updates, phase, hand,
          stations, topic, answers, clears, evicted>>

TypeOK ==
  /\ broker \in BOOLEAN /\ connected \in BOOLEAN
  /\ links \in 0..MaxLinks /\ clears \in 0..links /\ changes \in 0..MaxChanges
  /\ callbacks \in Seq({[type |-> "command", command |-> c] : c \in Commands}
                       \cup [type : {"connected", "lost"}, command : {None}])
  /\ commands \in Seq(Commands) /\ Len(commands) <= QueueSize
  /\ updates \in Seq([device : Devices, available : BOOLEAN])
  /\ Len(updates) <= UpdatesSize
  /\ phase \in {"starting", "waiting", "applying", "ended"}
  /\ hand \in [update : [device : Devices, available : BOOLEAN] \cup {None},
               command : Commands \cup {None}]
  /\ device \in [Devices -> [connected : BOOLEAN, fresh : BOOLEAN]]
  /\ topic \in [Devices -> BOOLEAN \cup {None}]
  /\ origin \in [Commands -> 0..MaxLinks]
  /\ results \subseteq Commands /\ cleared \subseteq Commands
  /\ evicted \subseteq Devices
  /\ phase = "applying" => hand.command # None
-----------------------------------------------------------------------------
EmptyHand == [update |-> None, command |-> None]

\* MonitorService.snapshot: connected, and a report less than 90 s ago.
Available(d) == device[d].connected /\ device[d].fresh

Init ==
  /\ broker = FALSE /\ links = 0 /\ callbacks = <<>> /\ connected = FALSE
  /\ commands = <<>> /\ updates = <<>> /\ phase = "starting"
  /\ hand = EmptyHand
  /\ device = [d \in Devices |-> [connected |-> FALSE, fresh |-> FALSE]]
  /\ changes = 0
  /\ topic = [d \in Devices |-> None]     \* whatever an earlier bridge left
  /\ origin = [c \in Commands |-> 0] /\ results = {} /\ cleared = {}
  /\ clears = 0 /\ evicted = {}
-----------------------------------------------------------------------------
\* The network thread: on_connect, on_message and on_disconnect.
CallSoon(type, c) ==
  callbacks' = Append(callbacks, [type |-> type, command |-> c])

OnConnect ==
  /\ phase # "ended" /\ ~broker /\ links < MaxLinks
  /\ broker' = TRUE /\ links' = links + 1 /\ CallSoon("connected", None)
  /\ UNCHANGED <<origin, connected, commands, updates, phase, hand,
                 stations, topic, answers, clears, evicted>>

\* on_connect has subscribed to the supported settings of known devices only,
\* so that every message names one.
OnMessage(c) ==
  /\ phase # "ended" /\ broker /\ origin[c] = 0
  /\ origin' = [origin EXCEPT ![c] = links]
  /\ CallSoon("command", c)
  /\ UNCHANGED <<broker, links, connected, commands, updates, phase, hand,
                 stations, topic, answers, clears, evicted>>

\* Mutant of OnDisconnect: the queue is emptied in the network thread.
OnDisconnectAtOnce ==
  /\ phase # "ended" /\ broker
  /\ broker' = FALSE /\ connected' = FALSE /\ clears' = clears + 1
  /\ commands' = <<>> /\ cleared' = cleared \cup ToSet(commands)
  /\ UNCHANGED <<links, origin, callbacks, updates, phase, hand, stations,
                 topic, results, evicted>>

OnDisconnect ==
  /\ phase # "ended" /\ broker
  /\ broker' = FALSE /\ CallSoon("lost", None)
  /\ UNCHANGED <<links, origin, connected, commands, updates, phase,
                 hand, stations, topic, answers, clears, evicted>>
-----------------------------------------------------------------------------
\* The callbacks, on the event loop.
\* Mutant of BrokerConnected: no snapshots after a reconnection.
BrokerConnectedQuietly ==
  connected' = TRUE /\ UNCHANGED <<topic, evicted, commands, answers, clears>>

BrokerConnected ==
  /\ connected' = TRUE
  /\ topic' = [d \in Devices |-> Available(d)]
  /\ evicted' = {d \in evicted : hand.update # None /\ hand.update.device = d}
  /\ UNCHANGED <<commands, answers, clears>>

\* Mutants of EnqueueCommand: a command that finds no room is dropped without
\* a word; the queue has no limit.
EnqueueOrDrop(c) ==
  /\ commands' = IF Len(commands) = QueueSize THEN commands ELSE Append(commands, c)
  /\ UNCHANGED <<connected, topic, evicted, answers, clears>>

EnqueueAlways(c) ==
  /\ commands' = Append(commands, c)
  /\ UNCHANGED <<connected, topic, evicted, answers, clears>>

EnqueueCommand(c) ==
  /\ IF Len(commands) = QueueSize
     THEN results' = results \cup {c} /\ UNCHANGED commands
     ELSE commands' = Append(commands, c) /\ UNCHANGED results
  /\ UNCHANGED <<connected, topic, evicted, cleared, clears>>

ClearConnection ==
  /\ connected' = FALSE
  /\ commands' = <<>>
  /\ cleared' = cleared \cup ToSet(commands)
  /\ clears' = clears + 1
  /\ UNCHANGED <<topic, evicted, results>>

Callback ==
  /\ phase # "ended" /\ callbacks # <<>>
  /\ callbacks' = Tail(callbacks)
  /\ LET first == Head(callbacks)
     IN  \/ first.type = "connected" /\ BrokerConnected
         \/ first.type = "command" /\ EnqueueCommand(first.command)
         \/ first.type = "lost" /\ ClearConnection
  /\ UNCHANGED <<fromBroker, updates, phase, hand, stations>>
-----------------------------------------------------------------------------
\* The device tasks. A full queue loses its oldest update.
Newest(queue, d) == \E i \in DOMAIN queue : queue[i].device = d
LastOf(queue, d, i) ==
  queue[i].device = d /\ \A j \in DOMAIN queue : queue[j].device = d => j <= i

Publish(d, status) ==
  LET event == [device |-> d, available |-> status.connected /\ status.fresh]
      kept == IF Len(updates) = UpdatesSize THEN Tail(updates) ELSE updates
  IN  /\ updates' = Append(kept, event)
      /\ evicted' = (evicted \ {d}) \cup
           {other \in Devices \ {d} : Newest(updates, other) /\ ~Newest(kept, other)}

Changes(d, status) ==
  /\ phase # "ended" /\ changes < MaxChanges /\ changes' = changes + 1
  /\ device' = [device EXCEPT ![d] = status]
  /\ UNCHANGED <<fromBroker, callbacks, connected, commands, phase, hand,
                 topic, answers, clears>>

\* _run_device: connected, after what may have been a long time or a short one.
LinkUp(d) ==
  /\ ~device[d].connected
  /\ LET status == [device[d] EXCEPT !.connected = TRUE]
     IN  Changes(d, status) /\ Publish(d, status)

\* _run_device: the connection is lost, or another attempt to connect failed.
LinkDown(d) ==
  LET status == [device[d] EXCEPT !.connected = FALSE]
  IN  Changes(d, status) /\ Publish(d, status)

\* _on_update. A report may come while the connection is still being set up.
Reported(d) ==
  LET status == [device[d] EXCEPT !.fresh = TRUE]
  IN  Changes(d, status) /\ Publish(d, status)

\* Ninety seconds without a report. Nothing is published.
Ages(d) ==
  /\ device[d].fresh
  /\ Changes(d, [device[d] EXCEPT !.fresh = FALSE])
  /\ UNCHANGED <<updates, evicted>>
-----------------------------------------------------------------------------
\* run(): the first connection to the broker has 30 seconds.
Started ==
  /\ phase = "starting" /\ connected /\ phase' = "waiting"
  /\ UNCHANGED <<fromBroker, callbacks, connected, commands, updates, hand,
                 stations, topic, answers, clears, evicted>>

\* The two tasks of one turn; asyncio.wait returns when one of them has its
\* item, and the other may get one before it is cancelled.
GetUpdate ==
  /\ phase = "waiting" /\ hand.update = None /\ updates # <<>>
  /\ hand' = [hand EXCEPT !.update = Head(updates)]
  /\ updates' = Tail(updates)
  /\ UNCHANGED <<fromBroker, callbacks, connected, commands, phase, stations,
                 topic, answers, clears, evicted>>

GetCommand ==
  /\ phase = "waiting" /\ hand.command = None /\ commands # <<>>
  /\ hand' = [hand EXCEPT !.command = Head(commands)]
  /\ commands' = Tail(commands)
  /\ UNCHANGED <<fromBroker, callbacks, connected, updates, phase, stations,
                 topic, answers, clears, evicted>>

\* The update is published, but only over a connection; the command is refused
\* at once or handed to apply_setting, which is waited for.
Serve ==
  /\ phase = "waiting" /\ hand # EmptyHand
  /\ topic' = IF hand.update # None /\ connected
              THEN [topic EXCEPT ![hand.update.device] = hand.update.available]
              ELSE topic
  /\ IF hand.command \in Commands \ Unfit
     THEN /\ phase' = "applying"
          /\ hand' = [hand EXCEPT !.update = None]
          /\ UNCHANGED results
     ELSE /\ results' = results \cup ({hand.command} \ {None})
          /\ hand' = EmptyHand /\ UNCHANGED phase
  /\ UNCHANGED <<fromBroker, callbacks, connected, commands, updates, stations,
                 cleared, clears, evicted>>

\* apply_setting returned, raised one of the errors that are caught, or took
\* longer than 30 seconds: a result in any case.
Applied ==
  /\ phase = "applying" /\ phase' = "waiting"
  /\ results' = results \cup {hand.command}
  /\ hand' = EmptyHand
  /\ UNCHANGED <<fromBroker, callbacks, connected, commands, updates, stations,
                 topic, cleared, clears, evicted>>

\* The first connection took too long, apply_setting raised an error that
\* _handle_command does not catch, or the program is told to stop.
Ends ==
  /\ phase # "ended" /\ phase' = "ended"
  /\ UNCHANGED <<fromBroker, callbacks, connected, commands, updates, hand,
                 stations, topic, answers, clears, evicted>>
-----------------------------------------------------------------------------
Run == Started \/ GetUpdate \/ GetCommand \/ Serve \/ Applied

Next ==
  \/ OnConnect \/ OnDisconnect \/ (\E c \in Commands : OnMessage(c))
  \/ Callback
  \/ \E d \in Devices : LinkUp(d) \/ LinkDown(d) \/ Reported(d) \/ Ages(d)
  \/ Run
  \/ Ends

Spec == Init /\ [][Next]_vars

\* The event loop runs the callbacks and resumes run(), whose 30 seconds pass.
FairSpec == Spec /\ WF_vars(Callback) /\ WF_vars(Run)
-----------------------------------------------------------------------------
\* The queue holds only commands that came over the connection the bridge
\* believes it has: what a client sent before a break is not applied after it,
\* unless it was already taken from the queue (clear_connection). It relies on
\* the callbacks being run in the order of the events.
QueueIsCurrent == \A i \in DOMAIN commands : origin[commands[i]] = clears + 1

\* While the bridge is connected, the retained availability of a device is
\* right, or the update that will correct it is on its way. Updates taken while
\* the broker was away are thrown away, so this rests on the snapshots that
\* _broker_connected publishes. Two things are excused, because the code has
\* them: a device from which nothing is heard grows stale without an event, and
\* a full queue may lose the newest update of a device (until its next one).
TopicIsRight ==
  LET ahead == IF hand.update = None THEN updates ELSE <<hand.update>> \o updates
  IN  connected => \A d \in Devices :
        \/ ~Newest(ahead, d) /\ topic[d] = Available(d)
        \/ \E i \in DOMAIN ahead : LastOf(ahead, d, i) /\ ahead[i].available = Available(d)
        \/ device[d].connected /\ ~device[d].fresh
        \/ d \in evicted

\* Every command the bridge received gets a result, or was in the queue when
\* the connection to the broker was lost, or the bridge ended.
CommandsAnswered ==
  \A c \in Commands :
    origin[c] > 0 ~> c \in results \cup cleared \/ phase = "ended"
=============================================================================
