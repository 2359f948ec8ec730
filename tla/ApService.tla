----------------------------- MODULE ApService -----------------------------
(***************************************************************************)
(* `solix-link ap-service-run`: a supervisor (run_ap_service) that owns a  *)
(* Wi-Fi adapter in a network namespace (IsolatedAP), the processes it     *)
(* spawns there, and the worker among them (APService, LocalMqttServer),   *)
(* from its start to its stop, with the two files by which other programs  *)
(* judge it and one control that may have to undo what it did.             *)
(*                                                                         *)
(* ap.start() and ap.stop() run without an await: a request to stop (the   *)
(* cancellation by SIGTERM or Ctrl-C) takes effect only at the awaits of   *)
(* the supervisor, but all other processes go on meanwhile.                *)
(***************************************************************************)
EXTENDS Naturals, Sequences

CONSTANTS
  MaxRuns,      \* bound: runs of the command, one after the other
  MaxAccidents, \* bound: links lost, and daemons that exit by themselves
  MaxControls   \* bound: controls sent to the worker

ASSUME BoundsAssumption == MaxRuns \in Nat /\ MaxAccidents \in Nat /\ MaxControls \in Nat

VARIABLES
  sup,        \* the step of run_ap_service, "off" when it does not run
  ble,        \* BOOLEAN: monitor is not None (--provision)
  asked,      \* requests to stop in this run: 0, 1, or 2 when the second interrupted ap.stop()
  created, moved, processes,   \* the fields of IsolatedAP
  stopper,    \* who called ap.stop(): "start", whose exception it follows, or "run"
  failed,     \* BOOLEAN: failures of the last ap.stop()
  netns,      \* BOOLEAN: the namespace exists
  adapter,    \* the Wi-Fi adapter: "home" (DOWN, no address), "inside" the namespace,
              \* "active" there, or "returned" and up or addressed again
  daemons,    \* the running ones of hostapd and dnsmasq
  worker,     \* the step of the worker process, "none" when there is none
  stopping,   \* BOOLEAN: SIGTERM reached the worker (its stop event)
  sock, ready,          \* BOOLEAN: the files control.sock and ready exist
  ownsSock, ownsReady,  \* BOOLEAN: _socket_owned and _ready_owned
  waits,      \* BOOLEAN: Server.wait_closed() waits for accepted clients (Python 3.12)
  link,       \* the station's connection: "none", "handshake", "live"
  client,     \* the control: "none", "accepted", "open", "wrote", "undo"
  plan,       \* what the control left on the station
  runs, accidents, controls,       \* bounded counters
  served,     \* history: the worker of this run has served
  late,       \* BOOLEAN: the control's task began after the worker cancelled its clients
  badly,      \* history: {"failed"} an ap.stop() raised, {"cut"} the last one was skipped or interrupted
  killed,     \* history: a worker was killed
  unable,     \* history: the control's connection is gone, or its undoing was cancelled
  twice       \* history: a worker was spawned beside another one

supVars == <<sup, ble, asked, runs, served, badly>>
apVars == <<created, moved, processes, stopper, failed, netns, adapter>>
fileVars == <<sock, ready, ownsSock, ownsReady>>
controlVars == <<client, late, plan, controls, unable>>
linkVars == <<link, accidents>>
vars == <<supVars, apVars, fileVars, controlVars, linkVars, daemons, worker, stopping, waits,
          killed, twice>>

Daemons == {"hostapd", "dnsmasq"}
Adapters == {"home", "inside", "active", "returned"}

StartSteps == {"namespace", "move", "address", "hostapd", "dnsmasq", "enabled"}
StopSteps == {"kill", "return", "tidy", "remove"}
Awaiting == {"pair", "await", "join", "watch"}
Supervising == {"off", "spawn", "unwind"} \cup StartSteps \cup StopSteps \cup Awaiting

Booting == {"boot", "bind", "bound", "listening"}
Closing == {"closing", "sweep", "clients", "listeners", "stations", "tasks", "farewell", "file"}
Working == {"none", "serving"} \cup Booting \cup Closing

\* The control socket and the station's listener accept in these steps.
SocketOpen == {"listening", "serving", "closing", "sweep"}
StationOpen == SocketOpen \cup {"bound", "clients", "listeners", "stations"}
Swept == {"clients", "listeners", "stations", "tasks", "farewell", "file"}

Init ==
  /\ sup = "off" /\ ble = FALSE /\ asked = 0
  /\ created = FALSE /\ moved = FALSE /\ processes = <<>> /\ stopper = "run" /\ failed = FALSE
  /\ netns = FALSE /\ adapter = "home" /\ daemons = {}
  /\ worker = "none" /\ stopping = FALSE
  /\ sock = FALSE /\ ready = FALSE /\ ownsSock = FALSE /\ ownsReady = FALSE
  /\ waits \in BOOLEAN
  /\ link = "none" /\ client = "none" /\ late = FALSE /\ plan = "kept"
  /\ runs = 0 /\ accidents = 0 /\ controls = 0
  /\ served = FALSE /\ badly = {} /\ killed = FALSE /\ unable = FALSE /\ twice = FALSE
-----------------------------------------------------------------------------
(* The supervisor: run_ap_service. *)

Runs(s) == sup = s
Goes(s) == sup' = s

\* A new process with a new IsolatedAP; with --provision it connects by BLE.
Run ==
  /\ Runs("off") /\ runs < MaxRuns
  /\ runs' = runs + 1
  /\ ble' \in BOOLEAN
  /\ Goes(IF ble' THEN "pair" ELSE "namespace")
  /\ asked' = 0
  /\ created' = FALSE /\ moved' = FALSE /\ processes' = <<>> /\ failed' = FALSE
  /\ served' = FALSE
  /\ UNCHANGED <<stopper, netns, adapter, daemons, worker, stopping, fileVars, waits,
                 controlVars, linkVars, badly, killed, twice>>

\* SIGTERM, or Ctrl-C for the first time, cancels the task of the supervisor.
AskToStop ==
  /\ sup # "off" /\ asked = 0
  /\ asked' = 1
  /\ UNCHANGED <<sup, ble, runs, served, badly, apVars, daemons, worker, stopping, fileVars,
                 waits, controlVars, linkVars, killed, twice>>

UnchangedByStep ==
  UNCHANGED <<ble, asked, runs, served, daemons, worker, stopping, fileVars, waits,
              controlVars, linkVars, killed>>

\* The finally clause: disconnect() of the monitor, then ap.stop().
EnterStop(s) ==
  /\ Goes("kill") /\ stopper' = s /\ failed' = FALSE

Unwind == IF ble THEN Goes("unwind") /\ UNCHANGED <<stopper, failed>> ELSE EnterStop("run")

\* Cancelled, refused, timed out (15 s for the file ready), the BLE exchange
\* failed, --duration passed, check() found an exited process or a default
\* route, or the status request failed.
Gives(s) ==
  /\ Runs(s) /\ s \in Awaiting
  /\ Unwind
  /\ UnchangedByStep
  /\ UNCHANGED <<badly, created, moved, processes, netns, adapter, twice>>

Paired ==
  /\ Runs("pair") /\ Goes("namespace")
  /\ UnchangedByStep
  /\ UNCHANGED <<badly, apVars, twice>>

\* ready was unlinked before the worker was spawned, so it is this worker's.
SeesReady ==
  /\ Runs("await") /\ ready
  /\ Goes(IF ble THEN "join" ELSE "watch")
  /\ UnchangedByStep
  /\ UNCHANGED <<badly, apVars, twice>>

Joined ==
  /\ Runs("join") /\ Goes("watch") /\ ble' = FALSE
  /\ UNCHANGED <<asked, runs, served, badly, apVars, daemons, worker, stopping, fileVars,
                 waits, controlVars, linkVars, killed, twice>>

\* disconnect() ends; an exception of it, or another cancellation that meets
\* it, leaves the finally clause before ap.stop().
Disconnected ==
  /\ Runs("unwind")
  /\ \/ EnterStop("run") /\ UNCHANGED badly
     \/ /\ Goes("off") /\ badly' = badly \cup {"cut"}
        /\ UNCHANGED <<stopper, failed>>
  /\ UnchangedByStep
  /\ UNCHANGED <<created, moved, processes, netns, adapter, twice>>

SpawnOverReady ==
  /\ Runs("spawn") /\ Goes("await")
  /\ twice' = (worker # "none")
  /\ worker' = "boot" /\ stopping' = FALSE /\ ownsSock' = FALSE /\ ownsReady' = FALSE
  /\ processes' = Append(processes, "worker")
  /\ UNCHANGED <<ble, asked, runs, served, badly, created, moved, stopper, failed, netns,
                 adapter, daemons, sock, ready, waits, controlVars, linkVars, killed>>

\* The unlink and the spawn; the worker begins in the namespace.
Spawn ==
  /\ Runs("spawn") /\ Goes("await")
  /\ ready' = FALSE
  /\ twice' = (worker # "none")
  /\ worker' = "boot" /\ stopping' = FALSE /\ ownsSock' = FALSE /\ ownsReady' = FALSE
  /\ processes' = Append(processes, "worker")
  /\ UNCHANGED <<ble, asked, runs, served, badly, created, moved, stopper, failed, netns,
                 adapter, daemons, sock, waits, controlVars, linkVars, killed>>
-----------------------------------------------------------------------------
(* IsolatedAP.start. *)

StartKeeps == UNCHANGED <<ble, asked, runs, served, badly, worker, stopping, fileVars,
                          waits, controlVars, linkVars, killed, twice>>

\* The tests before the first change: no such namespace, and an adapter that
\* is here, DOWN and without an address.
Free == ~netns /\ adapter = "home"

Refuse ==
  /\ Runs("namespace") /\ ~Free
  /\ Unwind
  /\ StartKeeps
  /\ UNCHANGED <<created, moved, processes, netns, adapter, daemons>>

\* An exception inside the try block of start(): stop(), then raise.
StartFails ==
  /\ sup \in StartSteps /\ (Runs("namespace") => Free)
  /\ EnterStop("start")
  /\ StartKeeps
  /\ UNCHANGED <<created, moved, processes, netns, adapter, daemons>>

AddNamespace ==
  /\ Runs("namespace") /\ Free /\ Goes("move")
  /\ netns' = TRUE /\ created' = TRUE
  /\ StartKeeps
  /\ UNCHANGED <<moved, processes, stopper, failed, adapter, daemons>>

MoveAdapter ==
  /\ Runs("move") /\ Goes("address")
  /\ adapter' = "inside" /\ moved' = TRUE
  /\ StartKeeps
  /\ UNCHANGED <<created, processes, stopper, failed, netns, daemons>>

Address ==
  /\ Runs("address") /\ Goes("hostapd")
  /\ adapter' = "active"
  /\ StartKeeps
  /\ UNCHANGED <<created, moved, processes, stopper, failed, netns, daemons>>

SpawnDaemon(d) ==
  /\ Runs(d) /\ Goes(IF d = "hostapd" THEN "dnsmasq" ELSE "enabled")
  /\ daemons' = daemons \cup {d}
  /\ processes' = Append(processes, d)
  /\ StartKeeps
  /\ UNCHANGED <<created, moved, stopper, failed, netns, adapter>>

\* _wait_ready: hostapd has enabled the AP, and no process has exited.
Enabled ==
  /\ Runs("enabled") /\ daemons = Daemons /\ Goes("spawn")
  /\ StartKeeps
  /\ UNCHANGED <<apVars, daemons>>

Start ==
  Refuse \/ StartFails \/ AddNamespace \/ MoveAdapter \/ Address
    \/ (\E d \in Daemons : SpawnDaemon(d)) \/ Enabled
-----------------------------------------------------------------------------
(* IsolatedAP.stop. *)

StopKeeps == UNCHANGED <<ble, asked, runs, served, fileVars, waits, accidents, controls,
                         late, plan, unable, twice>>

\* What ends with the worker's process: its connections, and its control
\* wherever that was.
WorkerGone ==
  /\ worker' = "none" /\ stopping' = FALSE
  /\ link' = "none" /\ client' = "none"

ToStop == processes[Len(processes)]

ForgetProcess == processes' = SubSeq(processes, 1, Len(processes) - 1)

\* The next process in the order opposite to the spawns: SIGTERM to a running
\* worker, on to the next when it is gone.  The daemons just exit.
StopProcess ==
  /\ Runs("kill") /\ processes # <<>>
  /\ \/ /\ ToStop = "worker" /\ worker # "none" /\ ~stopping
        /\ stopping' = TRUE
        /\ UNCHANGED <<processes, daemons>>
     \/ /\ ToStop = "worker" => worker = "none"
        /\ ForgetProcess /\ daemons' = daemons \ {ToStop}
        /\ UNCHANGED stopping
  /\ StopKeeps
  /\ UNCHANGED <<sup, badly, created, moved, stopper, failed, netns, adapter, worker, link, client,
                 killed>>

NoKill == FALSE

\* A worker that has not exited 5 s after SIGTERM: SIGKILL.
Kill ==
  /\ Runs("kill") /\ processes # <<>> /\ ToStop = "worker"
  /\ worker # "none" /\ stopping
  /\ ForgetProcess /\ WorkerGone /\ killed' = TRUE
  /\ StopKeeps
  /\ UNCHANGED <<sup, badly, created, moved, stopper, failed, netns, adapter, daemons>>

StopStep(from, to) ==
  /\ Runs(from) /\ Goes(to)
  /\ StopKeeps
  /\ UNCHANGED <<badly, processes, stopper, daemons, worker, stopping, link, client, killed>>

AllStopped ==
  /\ processes = <<>>
  /\ StopStep("kill", IF moved THEN "return" ELSE "remove")
  /\ UNCHANGED <<created, moved, failed, netns, adapter>>

\* Down, flushed, and back in the host's namespace, where it may come up again.
\* If a command fails the adapter stays, and the namespace with it.
ReturnAdapter ==
  \/ /\ StopStep("return", "tidy")
     /\ moved' = FALSE /\ adapter' \in {"home", "returned"}
     /\ UNCHANGED <<created, failed, netns>>
  \/ /\ StopStep("return", "remove")
     /\ failed' = TRUE /\ adapter' \in {adapter, "inside"}
     /\ UNCHANGED <<created, moved, netns>>

TidyAdapter ==
  /\ StopStep("tidy", "remove")
  /\ \/ adapter' = "home" /\ UNCHANGED failed
     \/ failed' = TRUE /\ UNCHANGED adapter
  /\ UNCHANGED <<created, moved, netns>>

\* ap.stop() returns or raises: in start() its exception unwinds the run,
\* which stops the AP once more; otherwise the run is over.
EndStop(raises, how) ==
  LET ends == IF stopper = "start" THEN "failed" ELSE how
  IN
  /\ badly' = IF raises THEN badly \cup {ends} ELSE badly
  /\ \/ stopper = "start" /\ Unwind
     \/ stopper = "run" /\ Goes("off") /\ UNCHANGED <<stopper, failed>>

RemovableAlways == created

\* The namespace goes only after the adapter, which it might take along.
Removable == created /\ ~moved

RemoveNamespace ==
  /\ Runs("remove")
  /\ \/ /\ Removable
        /\ netns' = FALSE /\ created' = FALSE
        /\ EndStop(failed, "failed")
     \/ /\ UNCHANGED <<netns, created>> \* with a namespace to remove, it fails
        /\ EndStop(failed \/ Removable, "failed")
  /\ StopKeeps
  /\ UNCHANGED <<moved, processes, adapter, daemons, worker, stopping, link, client, killed>>

\* A second Ctrl-C raises KeyboardInterrupt inside ap.stop().
Interrupt ==
  /\ sup \in StopSteps /\ asked = 1
  /\ asked' = 2
  /\ EndStop(TRUE, "cut")
  /\ UNCHANGED <<ble, runs, served, created, moved, processes, netns, adapter, daemons,
                 worker, stopping, fileVars, waits, controlVars, linkVars, killed, twice>>

Stop == StopProcess \/ Kill \/ AllStopped \/ ReturnAdapter \/ TidyAdapter \/ RemoveNamespace
-----------------------------------------------------------------------------
(* The worker process: _worker, APService.start and APService.stop. *)

WorkerStep(from, to) ==
  /\ worker = from /\ worker' = to
  /\ UNCHANGED <<supVars, apVars, daemons, stopping, waits, controls, late, accidents, killed, twice>>

\* start(): it refuses an existing socket, opens the station's listener, the
\* control socket and the others, and shows that it is ready.
Boot ==
  \/ /\ WorkerStep("boot", IF sock THEN "file" ELSE "bind")
     /\ UNCHANGED <<fileVars, link, client, plan, unable>>
  \/ /\ WorkerStep("bind", "bound")
     /\ UNCHANGED <<fileVars, link, client, plan, unable>>
  \/ /\ WorkerStep("bound", "listening")
     /\ sock' = TRUE /\ ownsSock' = TRUE
     /\ UNCHANGED <<ready, ownsReady, link, client, plan, unable>>

Serve ==
  /\ worker = "listening" /\ worker' = "serving"
  /\ ready' = TRUE /\ ownsReady' = TRUE /\ served' = TRUE
  /\ UNCHANGED <<sup, ble, asked, runs, badly, apVars, sock, ownsSock, controlVars, linkVars,
                 daemons, stopping, waits, killed, twice>>

\* A listener or a file fails: start() calls stop().
BootFails ==
  /\ \/ WorkerStep("bind", "file")
     \/ WorkerStep("bound", "closing")
     \/ WorkerStep("listening", "closing")
  /\ UNCHANGED <<fileVars, link, client, plan, unable>>

\* stop() after SIGTERM; ready goes first, and the heartbeat task is awaited.
HideReady ==
  /\ \/ WorkerStep("serving", "sweep") /\ stopping
     \/ WorkerStep("closing", "sweep")
  /\ ready' = (ready /\ ~ownsReady) /\ ownsReady' = FALSE
  /\ UNCHANGED <<sock, ownsSock, link, client, plan, unable>>

\* The listeners are closed and the registered clients cancelled: a control
\* that wrote begins to undo, one that was undoing already is cut short.
Sweep ==
  /\ WorkerStep("sweep", "clients")
  /\ client' = CASE client = "accepted" -> "accepted"
                 [] client = "wrote" -> "undo"
                 [] OTHER -> "none"
  /\ unable' = (unable \/ client = "undo")
  /\ UNCHANGED <<fileVars, link, plan>>

ClientsLeft ==
  /\ \/ WorkerStep("clients", "listeners")
     \/ WorkerStep("listeners", "stations")
  /\ UNCHANGED <<fileVars, link, client, plan, unable>>

\* gather() waits for the clients that were cancelled, wait_closed() for every
\* accepted one, where it waits at all.
ClientsEnded ==
  /\ \/ WorkerStep("clients", "listeners") /\ (client = "undo" => late)
     \/ WorkerStep("listeners", "stations") /\ (waits => client = "none")
  /\ UNCHANGED <<fileVars, link, client, plan, unable>>

\* LocalMqttServer.stop(): the listener and the connections are closed, then
\* the tasks cancelled that are registered by then.
CloseStations ==
  /\ WorkerStep("stations", "tasks") \/ WorkerStep("tasks", "farewell")
  /\ link' = IF link = "live" THEN "none" ELSE link
  /\ UNCHANGED <<fileVars, client, plan, unable>>

\* wait_closed() of the station's server, or of the router that several
\* stations share, waits for every accepted connection, where it waits at all.
StationsClosed ==
  /\ WorkerStep("farewell", "file") /\ (waits => link = "none")
  /\ UNCHANGED <<fileVars, link, client, plan, unable>>

Exit ==
  /\ worker = "file"
  /\ sock' = (sock /\ ~ownsSock) /\ ownsSock' = FALSE
  /\ WorkerGone
  /\ UNCHANGED <<supVars, apVars, ready, ownsReady, daemons, waits, plan, unable, controls, late,
                 accidents, killed, twice>>

Worker ==
  Boot \/ Serve \/ BootFails \/ HideReady \/ Sweep \/ ClientsEnded \/ CloseStations
    \/ StationsClosed \/ Exit
-----------------------------------------------------------------------------
(* The control that a client of the socket sent, the station, and accidents. *)

Elsewhere == UNCHANGED <<supVars, apVars, fileVars, daemons, stopping, waits, twice>>

\* After a control that could not undo what it did there is no other one.
Connect ==
  /\ worker \in SocketOpen /\ ownsSock
  /\ client = "none" /\ plan = "kept" /\ controls < MaxControls
  /\ client' = "accepted" /\ controls' = controls + 1
  /\ Elsewhere
  /\ UNCHANGED <<late, plan, unable, linkVars, worker, killed>>

ClientStep(from, to) ==
  /\ client = from /\ client' = to
  /\ Elsewhere
  /\ UNCHANGED <<controls, linkVars, worker, killed>>

\* _control adds itself to _clients in the first step of its task.
Register ==
  /\ ClientStep("accepted", "open")
  /\ late' = (worker \in Swept)
  /\ UNCHANGED <<plan, unable>>

Reaches == link = "live" /\ ~unable

Forget == plan' = "kept" /\ late' = FALSE /\ unable' = FALSE

\* The control ends unwritten, writes, is confirmed, or fails and undoes; it
\* uses the connection it captured.
Control ==
  \/ ClientStep("open", "none") /\ Forget
  \/ Reaches /\ ClientStep("open", "wrote") /\ plan' = "changed" /\ UNCHANGED <<late, unable>>
  \/ Reaches /\ ClientStep("wrote", "none") /\ Forget
  \/ ClientStep("wrote", "undo") /\ UNCHANGED <<plan, late, unable>>
  \/ Reaches /\ ClientStep("undo", "none") /\ Forget
  \/ ~Reaches /\ ClientStep("undo", "none") /\ UNCHANGED <<plan, late, unable>>

LinkStep(from, to) ==
  /\ link = from /\ link' = to
  /\ Elsewhere
  /\ UNCHANGED <<client, late, plan, controls, worker, killed>>

StationConnects ==
  /\ worker \in StationOpen
  /\ LinkStep("none", "handshake")
  /\ UNCHANGED <<accidents, unable>>

\* TLS, for at most 10 s, whatever became of the listener meanwhile.
HandshakeEnds ==
  /\ LinkStep("handshake", "live") \/ LinkStep("handshake", "none")
  /\ UNCHANGED <<accidents, unable>>

LinkDrops ==
  /\ accidents < MaxAccidents
  /\ LinkStep("live", "none")
  /\ accidents' = accidents + 1
  /\ unable' = (unable \/ client \in {"open", "wrote", "undo"})

\* hostapd or dnsmasq exits, or something kills the worker.
DaemonExits(d) ==
  /\ d \in daemons /\ accidents < MaxAccidents
  /\ daemons' = daemons \ {d} /\ accidents' = accidents + 1
  /\ UNCHANGED <<supVars, apVars, fileVars, controlVars, link, worker, stopping, waits, killed,
                 twice>>

WorkerKilled ==
  /\ worker # "none"
  /\ WorkerGone /\ killed' = TRUE
  /\ UNCHANGED <<supVars, apVars, fileVars, daemons, waits, twice, late, plan, controls, unable, accidents>>

Supervise ==
  (\E s \in Awaiting : Gives(s)) \/ Paired \/ SeesReady \/ Joined \/ Disconnected \/ Spawn

Next ==
  \/ Run \/ AskToStop \/ Supervise \/ Start \/ Stop \/ Interrupt
  \/ Worker \/ Connect \/ Register \/ Control
  \/ StationConnects \/ HandshakeEnds \/ LinkDrops
  \/ (\E d \in Daemons : DaemonExits(d)) \/ WorkerKilled

Spec == Init /\ [][Next]_vars

\* The commands of start() and stop() have a limit of 15 s, a process that was
\* told to stop one of 5 s, and a cancellation is delivered at the next await.
Fairness ==
  /\ WF_vars(Start) /\ WF_vars(Stop) /\ WF_vars(Spawn) /\ WF_vars(Disconnected)
  /\ \A s \in Awaiting : WF_vars(asked > 0 /\ Gives(s))
  /\ WF_vars(Worker) /\ WF_vars(Register) /\ WF_vars(Control) /\ WF_vars(HandshakeEnds)

FairSpec == Spec /\ Fairness
-----------------------------------------------------------------------------
(* Properties. *)

TypeOK ==
  /\ sup \in Supervising /\ worker \in Working
  /\ ble \in BOOLEAN /\ asked \in 0..2
  /\ created \in BOOLEAN /\ moved \in BOOLEAN /\ (moved => created /\ adapter \in {"inside", "active"})
  /\ processes \in Seq(Daemons \cup {"worker"})
  /\ stopper \in {"start", "run"} /\ failed \in BOOLEAN
  /\ netns \in BOOLEAN /\ adapter \in Adapters
  /\ daemons \subseteq Daemons
  /\ stopping \in BOOLEAN /\ waits \in BOOLEAN
  /\ sock \in BOOLEAN /\ ready \in BOOLEAN
  /\ ownsSock \in BOOLEAN /\ ownsReady \in BOOLEAN
  /\ link \in {"none", "handshake", "live"}
  /\ client \in {"none", "accepted", "open", "wrote", "undo"} /\ plan \in {"kept", "changed"}
  /\ runs \in 0..MaxRuns /\ accidents \in 0..MaxAccidents /\ controls \in 0..MaxControls
  /\ served \in BOOLEAN /\ late \in BOOLEAN /\ badly \subseteq {"cut", "failed"}
  /\ killed \in BOOLEAN /\ unable \in BOOLEAN /\ twice \in BOOLEAN

\* The files speak of a worker: none outlives it unless it was killed, and the
\* supervisor takes no file of an earlier worker for this one's.
FilesAreTrue ==
  /\ worker = "none" /\ ~killed => ~sock /\ ~ready
  /\ sup \in {"join", "watch"} => served

\* docs/isolated-ap-mqtt.md, "Captures, shutdown and recovery": a run that
\* ends stops its services, returns the adapter, DOWN and without an address,
\* and removes the namespace, from wherever it was asked to stop or failed; if
\* the adapter cannot be returned the namespace stays.  Excused are a run whose
\* ap.stop() was never called or interrupted, and what a failed command left.
\* No worker ever runs beside another one.
LeavesNothing ==
  /\ FilesAreTrue
  /\ ~twice
  /\ adapter \in {"inside", "active"} => netns
  /\ Runs("off") /\ "cut" \notin badly =>
       /\ worker = "none" /\ daemons = {}
       /\ badly = {} => adapter = "home" /\ ~netns

\* The worker stops the controls before the stations, so that a control it
\* cancels can undo what it wrote: a station is left changed only if its own
\* connection was lost, the undoing was cancelled before, the worker was
\* killed, or the control began after the cancellations and nothing waited
\* for it (APService.stop).
UndoneBeforeExit ==
  worker = "none" /\ plan = "changed" => unable \/ killed \/ (late /\ ~waits)

\* A run that is asked to stop ends, also if its worker does not, because it
\* waits for a station that connected too late to be closed (the SIGKILL of
\* IsolatedAP.stop).
StopEnds == asked > 0 /\ sup # "off" ~> sup = "off"
=============================================================================
