--------------------------- MODULE ApServiceProofs ---------------------------
(***************************************************************************)
(* What ApService guarantees for any number of runs, accidents and         *)
(* controls: what a run leaves behind when it ends, and what a control     *)
(* leaves on the station when the worker is gone.                          *)
(***************************************************************************)
EXTENDS ApService, SequenceTheorems, TLAPS

-----------------------------------------------------------------------------
(* The inductive invariant. *)

\* The process p is one that this IsolatedAP has to stop.
Holds(p) == \E i \in 1..Len(processes) : processes[i] = p

\* What runs lives in a namespace, and what this IsolatedAP's run started it
\* also remembers: a process in processes, the adapter in moved.
Owned ==
  /\ created \/ worker # "none" \/ daemons # {} \/ adapter \in {"inside", "active"} => netns
  /\ created => (worker # "none" => Holds("worker")) /\ (\A d \in daemons : Holds(d))
  /\ ~created => processes = <<>>
  /\ created /\ ~moved => adapter \in {"home", "returned"}

\* Where the supervisor is tells how far the AP has been built up or torn down.
Staged ==
  /\ sup \in {"move", "address", "hostapd", "dnsmasq", "enabled", "spawn"} =>
       created /\ worker = "none"
  /\ sup = "address" => moved
  /\ sup \in {"return", "tidy", "remove"} => processes = <<>>
  /\ sup = "return" => moved
  /\ sup = "tidy" => ~moved
  /\ sup = "remove" /\ moved => failed

\* As long as no ap.stop() was cut short, or none raised, what is not this
\* IsolatedAP's is not there.
Clean ==
  /\ "cut" \notin badly /\ (~created \/ sup = "off") => worker = "none" /\ daemons = {}
  /\ badly = {} /\ (~created \/ sup = "off") => ~netns
  /\ badly = {} /\ ~moved => adapter = "home" \/ sup = "tidy" \/ (sup = "remove" /\ failed)
  /\ badly = {} /\ sup = "off" => adapter = "home"

\* The files of a worker that nobody killed are its own.
Files ==
  /\ ~killed => (sock => ownsSock /\ worker # "none") /\ (ready => ownsReady /\ worker = "serving")
  /\ sup = "await" /\ ready => served
  /\ sup \in {"join", "watch"} => served

\* Where the worker is tells which control it may still have.
Controls ==
  /\ worker \in {"none", "boot", "bind", "bound"} => client = "none"
  /\ client \in {"accepted", "open"} => plan = "kept"
  /\ worker \in Swept /\ client \notin {"none", "accepted"} =>
       late \/ (worker = "clients" /\ client = "undo")
  /\ worker \in {"stations", "tasks", "farewell", "file"} /\ client # "none" =>
       ~waits /\ (client = "accepted" \/ late)

\* A change that is still on the station can be undone, or there is an excuse.
Excused == unable \/ killed \/ (late /\ ~waits)
Undoable ==
  plan = "changed" =>
    IF client \in {"wrote", "undo"} THEN link = "live" \/ Excused ELSE Excused

IInv ==
  /\ TypeOK /\ ~twice
  /\ Owned /\ Staged /\ Clean /\ Files /\ Controls /\ Undoable

\* The abbreviations of ApService that its actions are written with.
USE DEF Daemons, Runs, Goes, UnchangedByStep, StartKeeps, StopKeeps, Elsewhere,
        supVars, apVars, fileVars, controlVars, linkVars, EnterStop, Unwind,
        EndStop, Free, WorkerGone, ToStop, ForgetProcess, StopStep, Removable,
        WorkerStep, ClientStep, LinkStep, Reaches, Forget, SocketOpen, StationOpen,
        Swept
-----------------------------------------------------------------------------
(* Type correctness, and the initial states. *)

\* Every variable has its type at the start, and the parts of the invariant hold.
LEMMA InitInv == Init => IInv
  <1> SUFFICES ASSUME Init PROVE IInv
    OBVIOUS
  <1>1. processes = <<>> /\ processes \in Seq(Daemons \cup {"worker"})
    BY DEF Init
  <1>2. /\ sup \in Supervising /\ worker \in Working /\ adapter \in Adapters
        /\ link \in {"none", "handshake", "live"}
        /\ client \in {"none", "accepted", "open", "wrote", "undo"}
        /\ plan \in {"kept", "changed"} /\ stopper \in {"start", "run"}
    BY DEF Init, Supervising, Working, Booting, Adapters
  <1>3. /\ asked \in 0..2 /\ runs \in 0..MaxRuns /\ accidents \in 0..MaxAccidents
        /\ controls \in 0..MaxControls
        /\ daemons \subseteq Daemons /\ badly \subseteq {"cut", "failed"}
    BY BoundsAssumption DEF Init
  <1>4. TypeOK
    BY <1>1, <1>2, <1>3, Zenon DEF Init, TypeOK
  <1>5. Owned /\ Staged /\ Clean
    BY <1>1 DEF Init, Owned, Staged, Clean, Holds
  <1>6. Files /\ Controls /\ Undoable /\ ~twice
    BY DEF Init, Files, Controls, Undoable, Excused
  <1> QED
    BY <1>4, <1>5, <1>6 DEF IInv

\* A step of the worker leaves the supervisor and its AP alone.
LEMMA WorkerFrame ==
  ASSUME Worker
  PROVE  /\ UNCHANGED <<sup, ble, asked, runs, badly, apVars, daemons, waits, controls,
                        late, accidents, killed, twice>>
         /\ worker # "none"
         /\ worker' = "none" => Exit
  BY DEF Worker, Boot, Serve, BootFails, HideReady, Sweep, ClientsEnded, CloseStations,
         StationsClosed, Exit

\* Every step keeps the type of every variable: one step of the proof for each.
LEMMA TypeKept == IInv /\ [Next]_vars => TypeOK'
  <1> SUFFICES ASSUME IInv, [Next]_vars PROVE TypeOK'
    OBVIOUS
  <1> TypeOK
    BY DEF IInv
  <1> USE DEF Next, Run, AskToStop, Supervise, Gives, Paired, SeesReady, Joined,
              Disconnected, Spawn, Start, Refuse, StartFails, AddNamespace,
              MoveAdapter, Address, SpawnDaemon, Enabled, Stop, StopProcess, Kill,
              AllStopped, ReturnAdapter, TidyAdapter, RemoveNamespace, Interrupt,
              Worker, Boot, Serve, BootFails, HideReady, Sweep, ClientsEnded,
              CloseStations, StationsClosed, Exit, Connect, Register, Control,
              StationConnects, HandshakeEnds, LinkDrops, DaemonExits, WorkerKilled,
              vars
  <1>1. (sup \in Supervising)'
    BY DEF TypeOK, Supervising, StartSteps, StopSteps, Awaiting
  <1>2. (stopper \in {"start", "run"})'
    BY DEF TypeOK
  <1>3. (asked \in 0..2)'
    BY BoundsAssumption DEF TypeOK
  <1>4. (worker \in Working)'
    BY DEF TypeOK, Working, Booting, Closing
  <1>5. (created \in BOOLEAN)'
    BY DEF TypeOK
  <1>6. (moved \in BOOLEAN)'
    BY DEF TypeOK
  <1>7. (failed \in BOOLEAN)'
    BY DEF TypeOK
  <1>8. (netns \in BOOLEAN)'
    BY DEF TypeOK
  <1>9. (adapter \in Adapters)'
    BY DEF TypeOK, Adapters
  <1>10. (moved => created /\ adapter \in {"inside", "active"})'
    BY DEF TypeOK, Staged, IInv
  <1>11. (daemons \subseteq Daemons)'
    BY DEF TypeOK
  <1>12. (link \in {"none", "handshake", "live"})'
    BY DEF TypeOK
  <1>13. (client \in {"none", "accepted", "open", "wrote", "undo"})'
    BY DEF TypeOK
  <1>14. (plan \in {"kept", "changed"})'
    BY DEF TypeOK
  <1>15. (ble \in BOOLEAN)'
    BY DEF TypeOK
  <1>16. (stopping \in BOOLEAN)'
    BY DEF TypeOK
  <1>17. (waits \in BOOLEAN)'
    BY DEF TypeOK
  <1>18. (sock \in BOOLEAN)'
    BY DEF TypeOK
  <1>19. (ready \in BOOLEAN)'
    BY DEF TypeOK
  <1>20. (ownsSock \in BOOLEAN)'
    BY DEF TypeOK
  <1>21. (ownsReady \in BOOLEAN)'
    BY DEF TypeOK
  <1>22. (runs \in 0..MaxRuns)'
    BY BoundsAssumption DEF TypeOK
  <1>23. (accidents \in 0..MaxAccidents)'
    BY BoundsAssumption DEF TypeOK
  <1>24. (controls \in 0..MaxControls)'
    BY BoundsAssumption DEF TypeOK
  <1>25. (served \in BOOLEAN)'
    BY DEF TypeOK
  <1>26. (badly \subseteq {"cut", "failed"})'
    BY DEF TypeOK
  <1>27. (killed \in BOOLEAN)'
    BY DEF TypeOK
  <1>28. (unable \in BOOLEAN)'
    BY DEF TypeOK
  <1>29. (twice \in BOOLEAN)'
    BY DEF TypeOK
  <1>30. (late \in BOOLEAN)'
    <2>1. CASE Register
      BY <2>1
    <2>2. CASE Control
      BY <2>2 DEF TypeOK
    <2>3. CASE UNCHANGED late
      BY <2>3 DEF TypeOK
    <2> QED
      BY <2>1, <2>2, <2>3
  <1>31. (processes \in Seq(Daemons \cup {"worker"}))'
    <2>1. CASE Run
      BY <2>1
    <2>2. CASE \E p \in Daemons \cup {"worker"} : processes' = Append(processes, p)
      BY <2>2 DEF TypeOK
    <2>3. CASE processes # <<>> /\ ForgetProcess
      <3>1. Len(processes) - 1 \in 0..Len(processes)
        BY <2>3 DEF TypeOK
      <3> QED
        BY <2>3, <3>1 DEF TypeOK
    <2>4. CASE UNCHANGED processes
      BY <2>4 DEF TypeOK
    <2> QED
      BY <2>1, <2>2, <2>3, <2>4
  <1> QED
    BY <1>1, <1>2, <1>3, <1>4, <1>5, <1>6, <1>7, <1>8, <1>9, <1>10, <1>11, <1>12, <1>13, <1>14, <1>15, <1>16, <1>17, <1>18, <1>19, <1>20, <1>21, <1>22, <1>23, <1>24, <1>25, <1>26, <1>27, <1>28, <1>29, <1>30, <1>31
       DEF TypeOK

\* Forgetting the last process keeps all others.
LEMMA ForgetKeeps ==
  ASSUME TypeOK, processes # <<>>, ForgetProcess, NEW p, Holds(p), p # ToStop
  PROVE  Holds(p)'
  <1>1. PICK i \in 1..Len(processes) : processes[i] = p
    BY DEF Holds
  <1>2. i \in 1..(Len(processes) - 1) /\ Len(processes) \in Nat
    BY <1>1 DEF TypeOK
  <1>3. Len(processes') = Len(processes) - 1 /\ processes'[i] = processes[i]
    BY <1>2 DEF TypeOK
  <1> QED
    BY <1>1, <1>2, <1>3 DEF Holds

\* A worker is spawned only where none is.
LEMMA SingleKept == IInv /\ [Next]_vars => (~twice)'
  <1> SUFFICES ASSUME IInv, [Next]_vars PROVE (~twice)'
    OBVIOUS
  <1> TypeOK /\ TypeOK'
    BY TypeKept DEF IInv
  <1>1. CASE Spawn
    BY <1>1 DEF IInv, Staged, Spawn
  <1>2. CASE UNCHANGED twice
    BY <1>2 DEF IInv
  <1> QED
    BY <1>1, <1>2
       DEF Next, Run, AskToStop, Supervise, Gives, Paired, SeesReady, Joined,
           Disconnected, Start, Refuse, StartFails, AddNamespace, MoveAdapter,
           Address, SpawnDaemon, Enabled, Stop, StopProcess, Kill, AllStopped,
           ReturnAdapter, TidyAdapter, RemoveNamespace, Interrupt, Worker, Boot,
           Serve, BootFails, HideReady, Sweep, ClientsEnded, CloseStations,
           StationsClosed, Exit, Connect, Register, Control, StationConnects,
           HandshakeEnds, LinkDrops, DaemonExits, WorkerKilled, vars

\* What runs needs the namespace, and this IsolatedAP remembers what it started.
LEMMA OwnedKept == IInv /\ [Next]_vars => Owned'
  <1> SUFFICES ASSUME IInv, [Next]_vars PROVE Owned'
    OBVIOUS
  <1> TypeOK /\ TypeOK'
    BY TypeKept DEF IInv
  <1>1. CASE Run
    BY <1>1 DEF IInv, Owned, Holds, Run
  <1>2. CASE Spawn
    BY <1>2 DEF IInv, Owned, Holds, Spawn, Staged
  <1>3. CASE AddNamespace
    BY <1>3 DEF IInv, Owned, Holds, AddNamespace, Clean
  <1>4. CASE MoveAdapter
    BY <1>4 DEF IInv, Owned, Holds, MoveAdapter, Staged
  <1>5. CASE Address
    BY <1>5 DEF IInv, Owned, Holds, Address, Staged
  <1>6. CASE \E d \in Daemons : SpawnDaemon(d)
    BY <1>6 DEF IInv, Owned, Holds, SpawnDaemon, Staged
  <1>7. CASE StopProcess
    BY <1>7 DEF IInv, Owned, Holds, StopProcess
  <1>8. CASE Kill
    <2>1. worker' = "none" /\ UNCHANGED <<created, moved, netns, adapter, daemons>>
          /\ processes # <<>> /\ ForgetProcess /\ ToStop = "worker"
      BY <1>8 DEF Kill
    <2>2. \A d \in daemons : Holds(d) => Holds(d)'
      BY <2>1, ForgetKeeps DEF TypeOK
    <2> QED
      BY <2>1, <2>2, Zenon DEF IInv, Owned
  <1>9. CASE ReturnAdapter
    <2>1. UNCHANGED <<created, netns, daemons, worker, processes>> /\ netns
      BY <1>9 DEF ReturnAdapter, IInv, Owned, Staged, TypeOK
    <2>2. created /\ ~moved' => adapter' \in {"home", "returned"}
      BY <1>9 DEF ReturnAdapter, IInv, Staged
    <2> QED
      BY <2>1, <2>2 DEF IInv, Owned, Holds
  <1>10. CASE TidyAdapter
    BY <1>10 DEF IInv, Owned, Holds, TidyAdapter, Staged
  <1>11. CASE RemoveNamespace
    BY <1>11 DEF IInv, Owned, Holds, RemoveNamespace, Staged
  <1>12. CASE Worker
    BY <1>12, WorkerFrame DEF IInv, Owned, Holds, Exit
  <1>13. CASE (\E d \in Daemons : DaemonExits(d)) \/ WorkerKilled
    BY <1>13 DEF IInv, Owned, Holds, DaemonExits, WorkerKilled
  <1>14. CASE UNCHANGED <<apVars, daemons, worker>>
    BY <1>14 DEF IInv, Owned, Holds
  <1>15. CASE UNCHANGED <<created, moved, processes, netns, adapter, daemons, worker>>
    BY <1>15 DEF IInv, Owned, Holds
  <1> QED
    BY <1>1, <1>2, <1>3, <1>4, <1>5, <1>6, <1>7, <1>8, <1>9, <1>10, <1>11, <1>12, <1>13, <1>14, <1>15
       DEF Next, Supervise, Start, Stop, AskToStop, Gives, Paired, SeesReady,
           Joined, Disconnected, Refuse, StartFails, Enabled, AllStopped, Interrupt,
           Connect, Register, Control, StationConnects, HandshakeEnds, LinkDrops,
           DaemonExits, WorkerKilled, vars

\* Where the supervisor is tells how far the AP is built up or torn down.
LEMMA StagedKept == IInv /\ [Next]_vars => Staged'
  <1> SUFFICES ASSUME IInv, [Next]_vars PROVE Staged'
    OBVIOUS
  <1> TypeOK /\ TypeOK'
    BY TypeKept DEF IInv
  <1>1. CASE Run \/ AskToStop \/ Supervise
    BY <1>1 DEF IInv, Staged, Owned, Run, AskToStop, Supervise, Gives, Paired,
                SeesReady, Joined, Disconnected, Spawn
  <1>2. CASE Start
    BY <1>2 DEF IInv, Staged, Owned, Start, Refuse, StartFails, AddNamespace,
                MoveAdapter, Address, SpawnDaemon, Enabled
  <1>3. CASE Stop \/ Interrupt
    BY <1>3 DEF IInv, Staged, Owned, Stop, StopProcess, Kill, AllStopped,
                ReturnAdapter, TidyAdapter, RemoveNamespace, Interrupt
  <1>4. CASE Worker
    BY <1>4 DEF IInv, Staged, Owned, Worker, Boot, Serve, BootFails, HideReady,
                Sweep, ClientsEnded, CloseStations, StationsClosed, Exit
  <1>5. CASE Connect \/ Register \/ Control
              \/ StationConnects \/ HandshakeEnds \/ LinkDrops
    BY <1>5 DEF IInv, Staged, Owned, Connect, Register, Control, StationConnects,
                HandshakeEnds, LinkDrops
  <1>6. CASE (\E d \in Daemons : DaemonExits(d)) \/ WorkerKilled
    BY <1>6 DEF IInv, Staged, Owned, DaemonExits, WorkerKilled
  <1>7. CASE UNCHANGED vars
    BY <1>7 DEF IInv, Staged, Owned, vars
  <1> QED
    BY <1>1, <1>2, <1>3, <1>4, <1>5, <1>6, <1>7
       DEF Next, Supervise, Start, Worker

\* What is not this IsolatedAP's is not there.
LEMMA CleanKept == IInv /\ [Next]_vars => Clean'
  <1> SUFFICES ASSUME IInv, [Next]_vars PROVE Clean'
    OBVIOUS
  <1> TypeOK /\ TypeOK'
    BY TypeKept DEF IInv
  <1>1. CASE Run
    BY <1>1 DEF IInv, Clean, Staged, Owned, Holds, Run
  <1>2. CASE AskToStop
    BY <1>2 DEF IInv, Clean, Staged, Owned, Holds, AskToStop
  <1>3. CASE \E s \in Awaiting : Gives(s)
    BY <1>3 DEF IInv, Clean, Staged, Owned, Holds, Gives, Awaiting
  <1>4. CASE Paired \/ SeesReady \/ Joined
    BY <1>4 DEF IInv, Clean, Staged, Owned, Holds, Paired, SeesReady, Joined
  <1>5. CASE Disconnected
    BY <1>5 DEF IInv, Clean, Staged, Owned, Holds, Disconnected
  <1>6. CASE Spawn
    BY <1>6 DEF IInv, Clean, Staged, Owned, Holds, Spawn, Staged
  <1>7. CASE Refuse
    BY <1>7 DEF IInv, Clean, Staged, Owned, Holds, Refuse
  <1>8. CASE StartFails
    BY <1>8 DEF IInv, Clean, Staged, Owned, Holds, StartFails, StartSteps
  <1>9. CASE AddNamespace
    BY <1>9 DEF IInv, Clean, Staged, Owned, Holds, AddNamespace
  <1>10. CASE MoveAdapter
    BY <1>10 DEF IInv, Clean, Staged, Owned, Holds, MoveAdapter
  <1>11. CASE Address
    BY <1>11 DEF IInv, Clean, Staged, Owned, Holds, Address
  <1>12. CASE \E d \in Daemons : SpawnDaemon(d)
    BY <1>12 DEF IInv, Clean, Staged, Owned, Holds, SpawnDaemon
  <1>13. CASE Enabled
    BY <1>13 DEF IInv, Clean, Staged, Owned, Holds, Enabled
  <1>14. CASE Stop \/ Interrupt
    BY <1>14 DEF IInv, Clean, Staged, Owned, Holds, Stop, StopProcess, Kill,
                 AllStopped, ReturnAdapter, TidyAdapter, RemoveNamespace, Interrupt
  <1>15. CASE Worker
    BY <1>15 DEF IInv, Clean, Staged, Owned, Holds, Worker, Boot, Serve, BootFails,
                 HideReady, Sweep, ClientsEnded, CloseStations, StationsClosed, Exit
  <1>16. CASE Connect \/ Register \/ Control
              \/ StationConnects \/ HandshakeEnds \/ LinkDrops
    BY <1>16 DEF IInv, Clean, Staged, Owned, Holds, Connect, Register, Control,
                 StationConnects, HandshakeEnds, LinkDrops
  <1>17. CASE (\E d \in Daemons : DaemonExits(d)) \/ WorkerKilled
    BY <1>17 DEF IInv, Clean, Staged, Owned, Holds, DaemonExits, WorkerKilled
  <1>18. CASE UNCHANGED vars
    BY <1>18 DEF IInv, Clean, Staged, Owned, Holds, vars
  <1> QED
    BY <1>1, <1>2, <1>3, <1>4, <1>5, <1>6, <1>7, <1>8, <1>9, <1>10, <1>11, <1>12, <1>13, <1>14, <1>15, <1>16, <1>17, <1>18
       DEF Next, Supervise, Start, Worker

\* The files of a worker that nobody killed are its own.
LEMMA FilesKept == IInv /\ [Next]_vars => Files'
  <1> SUFFICES ASSUME IInv, [Next]_vars PROVE Files'
    OBVIOUS
  <1> TypeOK /\ TypeOK'
    BY TypeKept DEF IInv
  <1>1. CASE Run \/ AskToStop \/ Supervise
    BY <1>1 DEF IInv, Files, Owned, Staged, Run, AskToStop, Supervise, Gives,
                Paired, SeesReady, Joined, Disconnected, Spawn
  <1>2. CASE Start
    BY <1>2 DEF IInv, Files, Owned, Staged, Start, Refuse, StartFails, AddNamespace,
                MoveAdapter, Address, SpawnDaemon, Enabled
  <1>3. CASE Stop \/ Interrupt
    BY <1>3 DEF IInv, Files, Owned, Staged, Stop, StopProcess, Kill, AllStopped,
                ReturnAdapter, TidyAdapter, RemoveNamespace, Interrupt
  <1>4. CASE Boot
    BY <1>4 DEF IInv, Files, Owned, Staged, Boot
  <1>5. CASE Serve
    BY <1>5 DEF IInv, Files, Owned, Staged, Serve
  <1>6. CASE BootFails
    BY <1>6 DEF IInv, Files, Owned, Staged, BootFails
  <1>7. CASE HideReady
    BY <1>7 DEF IInv, Files, Owned, Staged, HideReady
  <1>8. CASE Sweep
    BY <1>8 DEF IInv, Files, Owned, Staged, Sweep
  <1>9. CASE ClientsEnded
    BY <1>9 DEF IInv, Files, Owned, Staged, ClientsEnded
  <1>10. CASE CloseStations
    BY <1>10 DEF IInv, Files, Owned, Staged, CloseStations
  <1>11. CASE StationsClosed
    BY <1>11 DEF IInv, Files, Owned, Staged, StationsClosed
  <1>12. CASE Exit
    BY <1>12 DEF IInv, Files, Owned, Staged, Exit
  <1>13. CASE Connect \/ Register \/ Control
              \/ StationConnects \/ HandshakeEnds \/ LinkDrops
    BY <1>13 DEF IInv, Files, Owned, Staged, Connect, Register, Control,
                 StationConnects, HandshakeEnds, LinkDrops
  <1>14. CASE (\E d \in Daemons : DaemonExits(d)) \/ WorkerKilled
    BY <1>14 DEF IInv, Files, Owned, Staged, DaemonExits, WorkerKilled
  <1>15. CASE UNCHANGED vars
    BY <1>15 DEF IInv, Files, Owned, Staged, vars
  <1> QED
    BY <1>1, <1>2, <1>3, <1>4, <1>5, <1>6, <1>7, <1>8, <1>9, <1>10, <1>11, <1>12, <1>13, <1>14, <1>15
       DEF Next, Supervise, Start, Worker

\* A worker at work on its end has only controls that it cannot await.
LEMMA ControlsKept == IInv /\ [Next]_vars => Controls'
  <1> SUFFICES ASSUME IInv, [Next]_vars PROVE Controls'
    OBVIOUS
  <1> TypeOK /\ TypeOK'
    BY TypeKept DEF IInv
  <1>1. CASE Run
    BY <1>1 DEF IInv, Controls, Run
  <1>2. CASE AskToStop
    BY <1>2 DEF IInv, Controls, AskToStop
  <1>3. CASE \E s \in Awaiting : Gives(s)
    BY <1>3 DEF IInv, Controls, Gives, Awaiting
  <1>4. CASE Paired \/ SeesReady \/ Joined
    BY <1>4 DEF IInv, Controls, Paired, SeesReady, Joined
  <1>5. CASE Disconnected
    BY <1>5 DEF IInv, Controls, Disconnected
  <1>6. CASE Spawn
    BY <1>6 DEF IInv, Controls, Spawn, Staged
  <1>7. CASE Start
    BY <1>7 DEF IInv, Controls, Start, Refuse, StartFails, AddNamespace,
                MoveAdapter, Address, SpawnDaemon, Enabled
  <1>8. CASE Stop \/ Interrupt
    BY <1>8 DEF IInv, Controls, Stop, StopProcess, Kill, AllStopped, ReturnAdapter,
                TidyAdapter, RemoveNamespace, Interrupt
  <1>9. CASE Worker
    BY <1>9 DEF IInv, Controls, Worker, Boot, Serve, BootFails, HideReady, Sweep,
                ClientsEnded, CloseStations, StationsClosed, Exit
  <1>10. CASE Connect
    BY <1>10 DEF IInv, Controls, Connect
  <1>11. CASE Register
    BY <1>11 DEF IInv, Controls, Register
  <1>12. CASE Control
    BY <1>12 DEF IInv, Controls, Control
  <1>13. CASE StationConnects
    BY <1>13 DEF IInv, Controls, StationConnects
  <1>14. CASE HandshakeEnds
    BY <1>14 DEF IInv, Controls, HandshakeEnds
  <1>15. CASE LinkDrops
    BY <1>15 DEF IInv, Controls, LinkDrops
  <1>16. CASE (\E d \in Daemons : DaemonExits(d)) \/ WorkerKilled
    BY <1>16 DEF IInv, Controls, DaemonExits, WorkerKilled
  <1>17. CASE UNCHANGED vars
    BY <1>17 DEF IInv, Controls, vars
  <1> QED
    BY <1>1, <1>2, <1>3, <1>4, <1>5, <1>6, <1>7, <1>8, <1>9, <1>10, <1>11, <1>12, <1>13, <1>14, <1>15, <1>16, <1>17
       DEF Next, Supervise, Start, Worker

\* A change on the station can be undone or is excused.
LEMMA UndoableKept == IInv /\ [Next]_vars => Undoable'
  <1> SUFFICES ASSUME IInv, [Next]_vars PROVE Undoable'
    OBVIOUS
  <1> TypeOK /\ TypeOK'
    BY TypeKept DEF IInv
  <1>1. CASE Run \/ AskToStop \/ Supervise
    BY <1>1 DEF IInv, Undoable, Excused, Controls, Run, AskToStop, Supervise, Gives,
                Paired, SeesReady, Joined, Disconnected, Spawn
  <1>2. CASE Start
    BY <1>2 DEF IInv, Undoable, Excused, Controls, Start, Refuse, StartFails,
                AddNamespace, MoveAdapter, Address, SpawnDaemon, Enabled
  <1>3. CASE Stop \/ Interrupt
    BY <1>3 DEF IInv, Undoable, Excused, Controls, Stop, StopProcess, Kill,
                AllStopped, ReturnAdapter, TidyAdapter, RemoveNamespace, Interrupt
  <1>4. CASE Boot
    BY <1>4 DEF IInv, Undoable, Excused, Controls, Boot
  <1>5. CASE Serve
    BY <1>5 DEF IInv, Undoable, Excused, Controls, Serve
  <1>6. CASE BootFails
    BY <1>6 DEF IInv, Undoable, Excused, Controls, BootFails
  <1>7. CASE HideReady
    BY <1>7 DEF IInv, Undoable, Excused, Controls, HideReady
  <1>8. CASE Sweep
    BY <1>8 DEF IInv, Undoable, Excused, Controls, Sweep
  <1>9. CASE ClientsEnded
    BY <1>9 DEF IInv, Undoable, Excused, Controls, ClientsEnded
  <1>10. CASE CloseStations
    BY <1>10 DEF IInv, Undoable, Excused, Controls, CloseStations
  <1>11. CASE StationsClosed
    BY <1>11 DEF IInv, Undoable, Excused, Controls, StationsClosed
  <1>12. CASE Exit
    BY <1>12 DEF IInv, Undoable, Excused, Controls, Exit
  <1>13. CASE Connect
    BY <1>13 DEF IInv, Undoable, Excused, Controls, Connect
  <1>14. CASE Register
    BY <1>14 DEF IInv, Undoable, Excused, Controls, Register
  <1>15. CASE Control
    BY <1>15 DEF IInv, Undoable, Excused, Controls, Control
  <1>16. CASE StationConnects
    BY <1>16 DEF IInv, Undoable, Excused, Controls, StationConnects
  <1>17. CASE HandshakeEnds
    BY <1>17 DEF IInv, Undoable, Excused, Controls, HandshakeEnds
  <1>18. CASE LinkDrops
    BY <1>18 DEF IInv, Undoable, Excused, Controls, LinkDrops
  <1>19. CASE (\E d \in Daemons : DaemonExits(d)) \/ WorkerKilled
    BY <1>19 DEF IInv, Undoable, Excused, Controls, DaemonExits, WorkerKilled
  <1>20. CASE UNCHANGED vars
    BY <1>20 DEF IInv, Undoable, Excused, Controls, vars
  <1> QED
    BY <1>1, <1>2, <1>3, <1>4, <1>5, <1>6, <1>7, <1>8, <1>9, <1>10, <1>11, <1>12, <1>13, <1>14, <1>15, <1>16, <1>17, <1>18, <1>19, <1>20
       DEF Next, Supervise, Start, Worker

\* Every step keeps the invariant.
LEMMA NextInv == IInv /\ [Next]_vars => IInv'
  <1> SUFFICES ASSUME IInv, [Next]_vars PROVE IInv'
    OBVIOUS
  <1> QED
    BY TypeKept, SingleKept, OwnedKept, StagedKept, CleanKept, FilesKept, ControlsKept,
       UndoableKept DEF IInv

\* The invariant holds in every reachable state.
LEMMA Invariance == Spec => []IInv
  <1> QED
    BY InitInv, NextInv, PTL DEF Spec
-----------------------------------------------------------------------------
(* The theorems. *)

\* Every variable keeps its type, and an adapter that this run moved is in its
\* namespace (IsolatedAP.moved).
THEOREM TypeCorrect == Spec => []TypeOK
  <1>1. IInv => TypeOK
    BY DEF IInv
  <1> QED
    BY <1>1, Invariance, PTL

\* However a run fails, is asked to stop or is interrupted, and whatever dies
\* meanwhile: no worker runs beside another, the files tell the truth about
\* the worker, what runs and the adapter have their namespace, and a run that
\* ends leaves nothing, except what a cut ap.stop() or a failed command leaves.
THEOREM NothingIsLeft == Spec => []LeavesNothing
  <1>1. IInv => FilesAreTrue
    BY DEF IInv, Files, FilesAreTrue
  <1>2. IInv => LeavesNothing
    BY <1>1 DEF IInv, LeavesNothing, Owned, Clean
  <1> QED
    BY <1>2, Invariance, PTL

\* The worker ends its controls before its stations (APService.stop): what a
\* control changed on the station is undone when the worker is gone, unless
\* its own connection was lost, its undoing was cancelled, the worker was
\* killed, or it began after the others were cancelled and nothing waits.
THEOREM ControlsAreUndone == Spec => []UndoneBeforeExit
  <1>1. IInv => UndoneBeforeExit
    BY DEF IInv, UndoneBeforeExit, Controls, Undoable, Excused
  <1> QED
    BY <1>1, Invariance, PTL
=============================================================================
