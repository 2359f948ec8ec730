------------------------ MODULE ChargingPolicyProofs ------------------------
(***************************************************************************)
(* What the charge-only automation guarantees for any station, any signals *)
(* and any number of changes: that it sends nothing after a sequence that  *)
(* ended early, that it comes to rest, and that the preview foretells what *)
(* it does.                                                                *)
(***************************************************************************)
EXTENDS ChargingPolicy, TLAPS

-----------------------------------------------------------------------------
(* The inductive invariant. *)

\* The latch, or an automation that is off, keeps an unreviewed early end from
\* being followed by another sequence.
Latched ==
  /\ pc \notin {"off", "idle"} => ~uncertain
  /\ pc = "idle" /\ uncertain => latch

\* There is an answer to show exactly when the command has been answered.
Answered == command.step = "answered" <=> answer # NoSnapshot

\* The data of the station when the command is applied.
After == [shown.data EXCEPT ![command.set.kind] = command.set.value]

\* What the sequence has called for, as decided from what is shown.
Called ==
  /\ pc = "reserve" => command.set = [kind |-> "reserve", value |-> MinimumReserve]
  /\ pc = "power" => command.set = [kind |-> "watts", value |-> DesiredWatts(shown.data)]

\* What is shown is what the station is, except for the one command that is on
\* its way to it; and the steps of the sequence that are done stay done.
Kept ==
  /\ calm = "deciding" <=> pc \in {"latched", "reserve", "raised", "power"}
  /\ calm = "settled" <=> pc = "idle"
  /\ pc \in {"raised", "power", "idle"} => shown.data.reserve >= MinimumReserve
  /\ pc = "idle" => shown.data.watts = DesiredWatts(shown.data)
  /\ command.step \in {"none", "queued"} => Current
  /\ command.step # "failed" => Called
  /\ command.step = "sent" =>
       worker.set = command.set /\ {station, report.data} \subseteq {shown.data, After}
  /\ command.step = "answered" =>
       worker.set = None /\ station = After /\ report.data = After /\ answer.data = After

IInv ==
  /\ TypeOK /\ Answered
  /\ Latched
  /\ calm # "no" => Kept

\* The abbreviations of ChargingPolicy that its actions are written with.
USE DEF remote, coordinator, helpers, ghosts, Change, Now, Wanted, Answers, Idle,
        Unfinished, Finishes, Calls
-----------------------------------------------------------------------------
(* Values. *)

\* What a power or reserve command sets is distinct from no command, and a
\* snapshot from no snapshot.
LEMMA NothingIsNone ==
  /\ \A d \in Data : d # None
  /\ NoSnapshot \notin Snapshot /\ None \notin Settings
  <1>1. \A d \in Data : d # None
    <2> SUFFICES ASSUME NEW d \in Data, d = None PROVE FALSE
      OBVIOUS
    <2>1. "battery" \in DOMAIN d /\ "battery" \notin DOMAIN None
      BY DEF Data, None
    <2> QED
      BY <2>1
  <1>2. NoSnapshot \notin Snapshot
    BY <1>1 DEF Snapshot, NoSnapshot
  <1>3. None \notin Settings
    BY DEF Settings, None
  <1> QED
    BY <1>1, <1>2, <1>3

\* The power the policy wants is one of two.
LEMMA DesiredType == \A d : DesiredWatts(d) \in {IdleWatts, ChargingWatts}
  BY DEF DesiredWatts

\* Ageing a snapshot leaves its data as it is.
LEMMA Snapshots ==
  /\ \A s \in Snapshot : s.data \in Data /\ s.fresh \in BOOLEAN
  /\ \A s \in Snapshot : Old(s) \in Snapshot /\ Old(s).data = s.data
  /\ Old(NoSnapshot) = NoSnapshot
  /\ \A d \in Data, b \in BOOLEAN : [data |-> d, fresh |-> b] \in Snapshot
  <1>1. \A s \in Snapshot : s.data \in Data /\ s.fresh \in BOOLEAN
    BY DEF Snapshot
  <1>2. \A s \in Snapshot : Old(s) \in Snapshot /\ Old(s).data = s.data
    BY DEF Snapshot, Old
  <1>3. Old(NoSnapshot) = NoSnapshot
    <2> DEFINE r == [data |-> None, fresh |-> FALSE]
    <2>1. r.fresh = FALSE
      OBVIOUS
    <2>2. [r EXCEPT !.fresh = r.fresh] = r
      OBVIOUS
    <2> QED
      BY <2>1, <2>2, Zenon DEF Old, NoSnapshot
  <1>4. \A d \in Data, b \in BOOLEAN : [data |-> d, fresh |-> b] \in Snapshot
    BY DEF Snapshot
  <1> QED
    BY <1>1, <1>2, <1>3, <1>4

\* A command sets one field of the station's data.
LEMMA NewData ==
  \A d \in Data, x \in Settings :
    /\ [d EXCEPT ![x.kind] = x.value] \in Data
    /\ [d EXCEPT ![x.kind] = x.value][x.kind] = x.value
    /\ \A k \in {"watts", "reserve", "floor", "cap", "battery", "lacks"} :
         k # x.kind => [d EXCEPT ![x.kind] = x.value][k] = d[k]
  BY DEF Data, Settings

\* The only settings.
LEMMA SettingsAre ==
  /\ \A v \in Watts : [kind |-> "watts", value |-> v] \in Settings
  /\ \A v \in Reserves : [kind |-> "reserve", value |-> v] \in Settings
  /\ \A x \in Settings : \/ x = [kind |-> "watts", value |-> x.value] /\ x.value \in Watts
                         \/ x = [kind |-> "reserve", value |-> x.value] /\ x.value \in Reserves
  BY DEF Settings

\* The station's data can be changed field by field.
LEMMA Fields ==
  \A d \in Data :
    /\ \A w \in Watts : [d EXCEPT !.watts = w] \in Data
    /\ \A r \in Reserves : [d EXCEPT !.reserve = r] \in Data
    /\ \A b \in Batteries : [d EXCEPT !.battery = b] \in Data
    /\ \A f \in Floors : [d EXCEPT !.floor = f] \in Data
    /\ \A u \in Caps : [d EXCEPT !.cap = u] \in Data
    /\ \A l \in Lacks \cup {"none"} : [d EXCEPT !.lacks = l] \in Data
    /\ d.watts \in Watts /\ d.reserve \in Reserves /\ d.battery \in Batteries
  BY DEF Data

\* The same signals lead to the same decision.
LEMMA SameSignals == UNCHANGED signal => \A d : DesiredWatts(d)' = DesiredWatts(d)
  BY DEF DesiredWatts, Opportunity, Emergency, Active

\* Its own change of the power, and with it of the thresholds that apply, does
\* not change what the policy wants.
LEMMA DecisionStands ==
  ASSUME NEW d \in Data
  PROVE  DesiredWatts([d EXCEPT !.watts = DesiredWatts(d)]) = DesiredWatts(d)
  <1> DEFINE e == [d EXCEPT !.watts = DesiredWatts(d)]
  <1>1. e.watts = DesiredWatts(d) /\ e.reserve = d.reserve /\ e.battery = d.battery
    BY DEF Data
  <1>2. Emergency(e) <=> Emergency(d)
    BY <1>1 DEF Emergency
  <1>3. IdleWatts \in Nat /\ ChargingWatts \in Nat /\ IdleWatts <= ChargingWatts
    BY PowerAssumption
  <1> HIDE DEF e
  <1>7. DesiredWatts(e) = DesiredWatts(d)
    <2>4. CASE IdleWatts = ChargingWatts
      BY <2>4, DesiredType
    <2>5. CASE IdleWatts < ChargingWatts /\ DesiredWatts(d) = ChargingWatts
      <3>1. Active(e)
        BY <1>1, <1>3, <2>5 DEF Active
      <3>2. Opportunity(d) => Opportunity(e)
        BY <3>1 DEF Opportunity
      <3> QED
        BY <1>2, <1>3, <2>5, <3>2 DEF DesiredWatts
    <2>6. CASE IdleWatts < ChargingWatts /\ DesiredWatts(d) = IdleWatts
      <3>3. ~Opportunity(d) /\ ~Emergency(d)
        BY <1>3, <2>6 DEF DesiredWatts
      <3>1. ~Active(e)
        BY <1>1, <1>3, <2>6 DEF Active
      <3>2. Opportunity(e) => Opportunity(d)
        BY <3>1 DEF Opportunity
      <3> QED
        BY <1>2, <2>6, <3>2, <3>3 DEF DesiredWatts
    <2> QED
      BY <1>3, <2>4, <2>5, <2>6, DesiredType
  <1> QED
    BY <1>7 DEF e
-----------------------------------------------------------------------------
(* Type correctness. *)

\* A new station of its type, and snapshots of theirs.
LEMMA DataKept ==
  ASSUME IInv, [Next]_vars
  PROVE  station' \in Data /\ {report', shown'} \subseteq Snapshot
           /\ {polled', answer'} \subseteq Snapshot \cup {NoSnapshot}
  <1> TypeOK
    BY DEF IInv
  <1>1. station \in Data /\ Now \in Snapshot /\ Old(polled) \in Snapshot \cup {NoSnapshot}
        /\ Old(answer) \in Snapshot \cup {NoSnapshot}
    BY Snapshots DEF TypeOK
  <1>2. CASE StationChanges \/ SignalChanges
    <2>1. station' \in Data
      BY <1>2, <1>1, Fields DEF StationChanges, SignalChanges
    <2> QED
      BY <1>2, <2>1 DEF StationChanges, SignalChanges, TypeOK
  <1>3. CASE Reports
    BY <1>1, <1>3 DEF Reports, TypeOK
  <1>11. CASE Ages
    <2>1. Old(report) \in Snapshot /\ Old(shown) \in Snapshot
      BY Snapshots DEF TypeOK
    <2> QED
      BY <1>1, <1>11, <2>1 DEF Ages, TypeOK
  <1>4. CASE WorkerApplies
    <2>1. worker.set \in Settings
      BY <1>4 DEF WorkerApplies, TypeOK
    <2> QED
      BY <1>4, <1>1, <2>1, NewData DEF WorkerApplies, TypeOK
  <1>5. CASE WorkerConfirms \/ WorkerFails
    BY <1>5, <1>1 DEF WorkerConfirms, WorkerFails, TypeOK
  <1>6. CASE Poll \/ Send \/ ConnectionLost
    BY <1>6 DEF Poll, Send, ConnectionLost, TypeOK
  <1>7. CASE Polled
    BY <1>7, Snapshots DEF Polled, TypeOK
  <1>8. CASE CommandEnds
    BY <1>8, Snapshots DEF CommandEnds, TypeOK, IInv, Answered
  <1>9. CASE Restart
    BY <1>9 DEF Restart, TypeOK
  <1>10. CASE UNCHANGED <<station, report, shown, polled, answer>>
    BY <1>10 DEF TypeOK
  <1> QED
    BY <1>2, <1>3, <1>4, <1>5, <1>6, <1>7, <1>8, <1>9, <1>10, <1>11
       DEF Next, vars, Begin, RaiseReserve, SetPower, Arm, ClearLatch, CoolsDown, Enable

\* The command and the worker keep their types, and where they are fits where
\* the automation is and who has the lock.
LEMMA CommandKept ==
  ASSUME IInv, [Next]_vars
  PROVE  /\ command' \in [step : {"none", "queued", "sent", "answered", "failed"},
                          set : Settings \cup {None}]
         /\ worker' \in [set : Settings \cup {None}, applied : BOOLEAN]
         /\ (pc \in {"reserve", "power"} <=> command.step # "none")'
         /\ (lock = "command" <=> command.step \in {"sent", "answered", "failed"})'
         /\ (lock = "poll" <=> polled # NoSnapshot)'
         /\ Answered'
  <1> TypeOK /\ Answered
    BY DEF IInv
  <1> NoSnapshot \notin Snapshot /\ Now \in Snapshot
    BY NothingIsNone, Snapshots DEF TypeOK
  <1>1. CASE StationChanges \/ SignalChanges \/ Reports
    BY <1>1 DEF StationChanges, SignalChanges, Reports, TypeOK, Answered
  <1>2. CASE Ages
    <2>1. polled' = NoSnapshot <=> polled = NoSnapshot
      BY <1>2, Snapshots DEF Ages, TypeOK
    <2>2. answer' = NoSnapshot <=> answer = NoSnapshot
      BY <1>2, Snapshots DEF Ages, TypeOK
    <2> QED
      BY <1>2, <2>1, <2>2 DEF Ages, TypeOK, Answered
  <1>3. CASE WorkerApplies
    BY <1>3 DEF WorkerApplies, TypeOK, Answered
  <1>4. CASE WorkerConfirms
    BY <1>4 DEF WorkerConfirms, TypeOK, Answered
  <1>5. CASE WorkerFails
    BY <1>5 DEF WorkerFails, TypeOK, Answered
  <1>6. CASE Poll
    BY <1>6 DEF Poll, TypeOK, Answered
  <1>7. CASE Polled
    BY <1>7 DEF Polled, TypeOK, Answered
  <1>8. CASE Send
    <2>1. CASE report.fresh /\ Valid(report.data, command.set)
      <3>1. command' = [command EXCEPT !.step = "sent"]
            /\ worker' = [set |-> command.set, applied |-> FALSE]
        BY <1>8, <2>1 DEF Send
      <3>2. UNCHANGED <<polled, answer, pc>> /\ lock' = "command"
            /\ lock = "free" /\ command.step = "queued"
        BY <1>8 DEF Send
      <3> QED
        BY <3>1, <3>2 DEF TypeOK, Answered
    <2>2. CASE ~(report.fresh /\ Valid(report.data, command.set))
      BY <1>8, <2>2 DEF Send, TypeOK, Answered
    <2> QED
      BY <2>1, <2>2
  <1>9. CASE ConnectionLost
    BY <1>9 DEF ConnectionLost, TypeOK, Answered
  <1>10. CASE CommandEnds
    BY <1>10 DEF CommandEnds, TypeOK, Answered
  <1>11. CASE RaiseReserve
    BY <1>11, SettingsAre, ReserveAssumption DEF RaiseReserve, TypeOK, Answered
  <1>12. CASE SetPower
    <2>1. Calls("watts", DesiredWatts(shown.data)) =>
            command' = [step |-> "queued",
                        set |-> [kind |-> "watts", value |-> DesiredWatts(shown.data)]]
      OBVIOUS
    <2>2. [kind |-> "watts", value |-> DesiredWatts(shown.data)] \in Settings
      BY SettingsAre, DesiredType, PowerAssumption
    <2>3. /\ UNCHANGED <<worker, lock, polled, answer>> /\ pc = "raised"
          /\ \/ UNCHANGED command /\ pc' = "idle"
             \/ Calls("watts", DesiredWatts(shown.data)) /\ pc' = "power"
      BY <1>12 DEF SetPower
    <2> QED
      BY <2>1, <2>2, <2>3 DEF TypeOK, Answered
  <1>13. CASE Restart
    BY <1>13 DEF Restart, TypeOK, Answered
  <1>14. CASE Begin \/ Enable
    BY <1>14 DEF Begin, Enable, TypeOK, Answered
  <1>15. CASE UNCHANGED <<command, worker, pc, lock, polled, answer>>
    BY <1>15 DEF TypeOK, Answered
  <1> QED
    BY <1>1, <1>2, <1>3, <1>4, <1>5, <1>6, <1>7, <1>8, <1>9, <1>10, <1>11, <1>12, <1>13,
       <1>14, <1>15
       DEF Next, vars, Arm, ClearLatch, CoolsDown

\* Every step keeps the type of every variable.
LEMMA TypeKept == IInv /\ [Next]_vars => TypeOK' /\ Answered'
  <1> SUFFICES ASSUME IInv, [Next]_vars PROVE TypeOK' /\ Answered'
    OBVIOUS
  <1> TypeOK
    BY DEF IInv
  <1> USE DEF Next, vars, StationChanges, SignalChanges, Reports, Ages,
              WorkerApplies, WorkerConfirms, WorkerFails, Poll, Polled, Send,
              ConnectionLost, CommandEnds, Begin, RaiseReserve, SetPower, Arm,
              ClearLatch, CoolsDown, Restart, Enable
  <1>1. (lock \in {"free", "poll", "command"})'
    BY DEF TypeOK
  <1>2. (signal \in [Signals -> {"start", "hold", "none", "stale"}])'
    BY DEF TypeOK
  <1>3. ({armed, latch, cool, uncertain} \subseteq BOOLEAN)'
    BY DEF TypeOK
  <1>4. (pc \in {"off", "idle", "latched", "reserve", "raised", "power"})'
    BY DEF TypeOK
  <1>5. (calm \in {"no", "deciding", "settled"})'
    BY DEF TypeOK
  <1>6. (pc \in {"latched", "reserve", "raised", "power"} => latch)'
    BY DEF TypeOK
  <1>7. (changes \in 0..MaxChanges)'
    <2>1. CASE changes < MaxChanges /\ changes' = changes + 1
      BY <2>1, BoundAssumption DEF TypeOK
    <2>2. CASE UNCHANGED changes
      BY <2>2 DEF TypeOK
    <2> QED
      BY <2>1, <2>2
  <1> QED
    BY DataKept, CommandKept, <1>1, <1>2, <1>3, <1>4, <1>5, <1>6, <1>7, Zenon DEF TypeOK

\* A sequence that ended early leaves the latch on or the automation off.
LEMMA LatchedKept == IInv /\ [Next]_vars => Latched'
  <1> SUFFICES ASSUME IInv, [Next]_vars PROVE Latched'
    OBVIOUS
  <1> TypeOK /\ Latched
    BY DEF IInv
  <1>1. CASE Begin
    BY <1>1 DEF Begin, MayBegin, Latched, TypeOK
  <1>2. CASE RaiseReserve
    BY <1>2 DEF RaiseReserve, Latched, TypeOK
  <1>3. CASE SetPower
    <2>1. pc = "raised" /\ latch /\ ~uncertain
      BY <1>3 DEF SetPower, Latched, TypeOK
    <2>2. (pc' = "power" /\ UNCHANGED uncertain) \/ pc' = "idle"
      BY <1>3 DEF SetPower
    <2>3. pc' = "idle" => UNCHANGED latch \/ UNCHANGED uncertain
      BY <1>3 DEF SetPower
    <2> QED
      <3>1. CASE pc' = "power"
        BY <2>1, <2>2, <3>1 DEF Latched
      <3>2. CASE pc' = "idle" /\ UNCHANGED latch
        BY <2>1, <3>2, Zenon DEF Latched
      <3>3. CASE pc' = "idle" /\ UNCHANGED uncertain
        BY <2>1, <3>3, Zenon DEF Latched
      <3> QED
        BY <2>2, <2>3, <3>1, <3>2, <3>3
  <1>4. CASE CommandEnds
    BY <1>4 DEF CommandEnds, Latched, TypeOK
  <1>5. CASE ClearLatch
    BY <1>5 DEF ClearLatch, Latched
  <1>6. CASE Restart \/ Enable
    BY <1>6 DEF Restart, Enable, Latched, TypeOK
  <1>7. CASE UNCHANGED <<pc, uncertain, latch>>
    BY <1>7 DEF Latched
  <1> QED
    BY <1>1, <1>2, <1>3, <1>4, <1>5, <1>6, <1>7
       DEF Next, vars, StationChanges, SignalChanges, Reports, Ages, WorkerApplies,
           WorkerConfirms, WorkerFails, Poll, Polled, Send, ConnectionLost, Arm, CoolsDown
-----------------------------------------------------------------------------
(* The steps of a sequence that nobody else disturbs. *)

\* To set again what is set changes nothing.
LEMMA SetTwice ==
  ASSUME NEW d \in Data, NEW x \in Settings
  PROVE  LET e == [d EXCEPT ![x.kind] = x.value]
         IN  [e EXCEPT ![x.kind] = x.value] = e /\ (d[x.kind] = x.value => e = d)
  BY DEF Data, Settings

\* The data of a snapshot that was read when nothing was on its way.
LEMMA CurrentData ==
  TypeOK => (Current <=> /\ station = shown.data /\ station = report.data
                         /\ worker.set = None
                         /\ polled # NoSnapshot => polled.data = station)
  BY NothingIsNone DEF TypeOK, Current, Snapshot

\* The same of the next state.
LEMMA CurrentDataNext ==
  TypeOK' => (Current <=> /\ station = shown.data /\ station = report.data
                          /\ worker.set = None
                          /\ polled # NoSnapshot => polled.data = station)'
  BY NothingIsNone DEF TypeOK, Current, Snapshot

\* What changes neither the data, nor where the sequence is, keeps Kept.
LEMMA KeptFrame ==
  ASSUME IInv, TypeOK', Kept, calm' = calm,
         UNCHANGED <<station, report.data, shown.data, answer.data, worker, command, signal, pc>>,
         polled' # NoSnapshot => polled # NoSnapshot /\ UNCHANGED polled.data
  PROVE  Kept'
  <1>1. TypeOK
    BY DEF IInv
  <1>2. Current => Current'
    BY <1>1, CurrentData, CurrentDataNext
  <1> QED
    BY <1>2, SameSignals DEF Kept, Called, After

\* Each step keeps Kept, or others have changed something.
LEMMA KeptKept == IInv /\ [Next]_vars => (calm # "no" => Kept)'
  <1> SUFFICES ASSUME IInv, [Next]_vars, calm' # "no" PROVE Kept'
    OBVIOUS
  <1>0. TypeOK /\ TypeOK' /\ Answered
    BY TypeKept DEF IInv
  <1>1. CASE StationChanges \/ SignalChanges \/ Restart
    BY <1>1 DEF StationChanges, SignalChanges, Restart
  <1>2. CASE Reports
    <2>1. Kept /\ calm' = calm /\ UNCHANGED <<station, shown, answer, polled, worker, command, signal, pc>>
          /\ report'.data = station
      BY <1>2 DEF Reports, IInv
    <2>2. Current => Current'
      BY <2>1, <1>0, CurrentData, CurrentDataNext
    <2> QED
      BY <2>1, <2>2, SameSignals DEF Kept, Called, After
  <1>3. CASE Ages
    BY <1>3, <1>0, KeptFrame, Snapshots DEF Ages, IInv, TypeOK
  <1>4. CASE WorkerApplies
    <2>1. /\ Kept /\ UNCHANGED <<calm, report, shown, answer, polled, command, signal, pc>>
          /\ command.step = "sent" /\ worker'.set = command.set /\ command.set \in Settings
          /\ station' = [station EXCEPT ![command.set.kind] = command.set.value]
          /\ station \in {shown.data, After} /\ shown.data \in Data
      BY <1>4, <1>0, Snapshots DEF WorkerApplies, IInv, Kept, TypeOK
    <2>2. station' = After
      BY <2>1, SetTwice DEF After
    <2> QED
      BY <2>1, <2>2, SameSignals DEF Kept, Called, After
  <1>5. CASE WorkerConfirms
    <2>1. /\ Kept /\ UNCHANGED <<calm, station, shown, polled, signal, pc>>
          /\ worker.set # None /\ station[worker.set.kind] = worker.set.value
          /\ report'.data = station /\ worker'.set = None
      BY <1>5 DEF WorkerConfirms, IInv
    <2>2. CASE command.step = "sent"
      <3>1. worker.set = command.set /\ station \in {shown.data, After}
            /\ shown.data \in Data /\ command.set \in Settings
        BY <2>1, <2>2, <1>0, Snapshots DEF Kept, TypeOK
      <3>2. station = After
        BY <3>1, <2>1, SetTwice DEF After
      <3>3. command' = [command EXCEPT !.step = "answered"] /\ answer'.data = station
        BY <1>5, <2>2 DEF WorkerConfirms
      <3>4. command'.step = "answered" /\ command'.set = command.set
        BY <3>3, <1>0 DEF TypeOK
      <3> QED
        BY <2>1, <2>2, <3>2, <3>3, <3>4, SameSignals DEF Kept, Called, After
    <2>3. CASE command.step # "sent"
      <3>1. command' = command /\ command.step = "failed"
        BY <1>5, <2>1, <2>3, <1>0 DEF WorkerConfirms, Kept, Current, TypeOK
      <3> QED
        BY <2>1, <3>1, SameSignals DEF Kept
    <2> QED
      BY <2>2, <2>3
  <1>6. CASE WorkerFails \/ ConnectionLost
    <2>1. /\ Kept /\ UNCHANGED <<calm, shown, signal, pc>> /\ command'.step = "failed"
      BY <1>6, <1>0 DEF WorkerFails, ConnectionLost, IInv, Kept, Current, TypeOK
    <2> QED
      BY <2>1, SameSignals DEF Kept
  <1>7. CASE Poll
    <2>1. /\ Kept /\ UNCHANGED <<calm, station, report, shown, answer, worker, command, signal, pc>>
          /\ polled' = report /\ command.step \in {"none", "queued"}
      BY <1>7, <1>0 DEF Poll, IInv, TypeOK
    <2>2. Current'
      BY <2>1, <1>0, CurrentData, CurrentDataNext DEF Kept
    <2> QED
      BY <2>1, <2>2, SameSignals DEF Kept, Called
  <1>8. CASE Polled
    <2>1. /\ Kept /\ UNCHANGED <<calm, station, report, answer, worker, command, signal, pc>>
          /\ polled # NoSnapshot /\ polled' = NoSnapshot /\ command.step \in {"none", "queued"}
          /\ polled \in Snapshot /\ shown'.data \in {polled.data, shown.data}
      BY <1>8, <1>0, Snapshots DEF Polled, IInv, TypeOK
    <2>2. shown'.data = shown.data
      BY <2>1, <1>0, CurrentData DEF Kept
    <2> QED
      BY <2>1, <2>2, <1>0, KeptFrame
  <1>9. CASE Send
    <2>1. /\ Kept /\ Current
          /\ UNCHANGED <<calm, station, report, shown, answer, signal, pc>>
          /\ command.step = "queued"
      BY <1>9 DEF Send, IInv, Kept
    <2>2. command'.set = command.set
          /\ (command'.step = "failed" \/ (command'.step = "sent" /\ worker'.set = command.set))
      <3>1. /\ command.step = "queued"
            /\ \/ /\ command' = [command EXCEPT !.step = "sent"]
                  /\ worker' = [set |-> command.set, applied |-> FALSE]
               \/ command' = [command EXCEPT !.step = "failed"]
        BY <1>9 DEF Send
      <3>2. CASE command' = [command EXCEPT !.step = "failed"]
        BY <3>2, <1>0 DEF TypeOK
      <3>3. CASE command' = [command EXCEPT !.step = "sent"] /\ worker'.set = command.set
        BY <3>3, <1>0 DEF TypeOK
      <3> QED
        BY <3>1, <3>2, <3>3
    <2> QED
      BY <2>1, <2>2, SameSignals DEF Kept, Called, Current, After
  <1>10. CASE CommandEnds
    <2>1. /\ command.step = "answered" /\ shown' = answer /\ command'.step = "none"
          /\ UNCHANGED <<station, report, worker, signal, polled>>
          /\ polled = NoSnapshot /\ calm # "no" /\ Kept
      BY <1>10, <1>0 DEF CommandEnds, IInv, TypeOK
    <2>2. /\ station = After /\ report.data = After /\ shown'.data = After /\ worker.set = None
          /\ shown.data \in Data /\ Called
      BY <2>1, <1>0, Snapshots DEF Kept, TypeOK
    <2>3. Current'
      BY <2>1, <2>2, <1>0, CurrentDataNext
    <2>4. CASE pc = "reserve"
      <3>1. After.reserve = MinimumReserve
        BY <2>2, <2>4 DEF After, Called, Data
      <3>2. pc' = "raised" /\ calm' = "deciding" /\ MinimumReserve >= MinimumReserve
        BY <1>10, <2>1, <2>4, ReserveAssumption DEF CommandEnds, Kept
      <3> QED
        BY <2>1, <2>2, <2>3, <3>1, <3>2 DEF Kept, Called
    <2>5. CASE pc = "power"
      <3>1. After = [shown.data EXCEPT !.watts = DesiredWatts(shown.data)]
        BY <2>2, <2>5 DEF After, Called
      <3>2. After.watts = DesiredWatts(shown.data) /\ After.reserve = shown.data.reserve
        BY <2>2, <3>1 DEF Data
      <3>3. DesiredWatts(After) = DesiredWatts(shown.data)
        BY <2>2, <3>1, DecisionStands
      <3>4. pc' = "idle" /\ calm' = "settled" /\ shown.data.reserve >= MinimumReserve
        BY <1>10, <2>1, <2>5 DEF CommandEnds, Kept
      <3> QED
        BY <2>1, <2>2, <2>3, <3>2, <3>3, <3>4, SameSignals DEF Kept, Called
    <2> QED
      BY <2>1, <2>4, <2>5, <1>0 DEF TypeOK
  <1>11. CASE Begin
    <2>1. /\ Current' /\ calm' = "deciding" /\ pc' = "latched" /\ command'.step = "none"
      BY <1>11, <1>0 DEF Begin, Current, TypeOK
    <2> QED
      BY <2>1 DEF Kept, Called
  <1>12. CASE RaiseReserve
    <2>1. /\ Kept /\ Current' /\ UNCHANGED <<calm, shown, signal>> /\ pc = "latched"
          /\ \/ shown.data.reserve >= MinimumReserve /\ pc' = "raised" /\ UNCHANGED command
             \/ Calls("reserve", MinimumReserve) /\ pc' = "reserve"
      BY <1>12, <1>0 DEF RaiseReserve, IInv, Kept, Current, TypeOK
    <2> QED
      BY <2>1, <1>0 DEF Kept, Called, TypeOK
  <1>13. CASE SetPower
    <2>1. /\ Kept /\ Current' /\ UNCHANGED <<shown, signal>> /\ pc = "raised"
          /\ \/ /\ Calls("watts", DesiredWatts(shown.data)) /\ pc' = "power"
                /\ UNCHANGED calm
             \/ /\ shown.data.watts = DesiredWatts(shown.data)
                /\ pc' = "idle" /\ UNCHANGED command /\ calm' = "settled"
      BY <1>13, <1>0 DEF SetPower, IInv, Kept, Current, TypeOK
    <2> QED
      BY <2>1, <1>0, SameSignals DEF Kept, Called, TypeOK
  <1>14. CASE Arm \/ ClearLatch \/ CoolsDown \/ UNCHANGED vars
    BY <1>14, <1>0, KeptFrame DEF Arm, ClearLatch, CoolsDown, vars, IInv
  <1>15. CASE Enable
    BY <1>15 DEF Enable, IInv, Kept, TypeOK
  <1> QED
    BY <1>1, <1>2, <1>3, <1>4, <1>5, <1>6, <1>7, <1>8, <1>9, <1>10, <1>11, <1>12, <1>13,
       <1>14, <1>15 DEF Next
-----------------------------------------------------------------------------
(* The invariant. *)

\* It holds at the start, where no sequence has begun.
LEMMA InitInv == Init => IInv
  <1> SUFFICES ASSUME Init PROVE IInv
    OBVIOUS
  <1>1. station \in Data /\ report \in Snapshot /\ shown \in Snapshot
    BY Snapshots DEF Init
  <1>2. /\ lock = "free" /\ command.step = "none" /\ pc = "off" /\ calm = "no"
        /\ polled = NoSnapshot /\ answer = NoSnapshot
        /\ command \in [step : {"none", "queued", "sent", "answered", "failed"},
                        set : Settings \cup {None}]
        /\ worker \in [set : Settings \cup {None}, applied : BOOLEAN]
        /\ signal \in [Signals -> {"start", "hold", "none", "stale"}]
        /\ {armed, latch, cool, uncertain} \subseteq BOOLEAN
    BY DEF Init
  <1>3. changes \in 0..MaxChanges
    BY BoundAssumption DEF Init
  <1>4. TypeOK
    BY <1>1, <1>2, <1>3 DEF TypeOK
  <1>5. Answered /\ Latched
    BY <1>2 DEF Answered, Latched, Init
  <1> QED
    BY <1>2, <1>4, <1>5 DEF IInv

\* Every step keeps it.
LEMMA NextInv == IInv /\ [Next]_vars => IInv'
  BY TypeKept, LatchedKept, KeptKept DEF IInv

\* It holds in every reachable state.
LEMMA Invariance == Spec => []IInv
  <1> QED
    BY InitInv, NextInv, PTL DEF Spec
-----------------------------------------------------------------------------
(* The theorems. *)

\* Every variable keeps its type, and the lock of the coordinator is held
\* exactly by a poll, or by a command that was sent and has not ended.
THEOREM TypeCorrect == Spec => []TypeOK
  <1>1. IInv => TypeOK
    BY DEF IInv
  <1> QED
    BY <1>1, Invariance, PTL

\* After a sequence that ended early the automation sends no command until its
\* user has reviewed it: whatever failed, and also after a restart.
THEOREM NothingAfterFailure == Spec => LatchHolds
  <1>1. IInv /\ [Next]_vars =>
          [command.step = "none" /\ command'.step = "queued" => ~uncertain]_vars
    <2> SUFFICES ASSUME IInv, [Next]_vars,
                        command.step = "none", command'.step = "queued"
                 PROVE  ~uncertain
      OBVIOUS
    <2>1. TypeOK /\ Latched
      BY DEF IInv
    <2>2. RaiseReserve \/ SetPower
      <3>1. ~ UNCHANGED command
        OBVIOUS
      <3>2. ~ (Send \/ ConnectionLost \/ CommandEnds)
        BY DEF Send, ConnectionLost, CommandEnds
      <3>3. ~ (WorkerConfirms \/ WorkerFails)
        BY <3>1 DEF WorkerConfirms, WorkerFails
      <3>4. ~ Restart
        <4>1. Restart => command' = Idle
          BY Zenon DEF Restart
        <4>2. Idle.step = "none"
          OBVIOUS
        <4> QED
          BY <4>1, <4>2, Zenon
      <3> QED
        BY <3>1, <3>2, <3>3, <3>4
           DEF Next, vars, StationChanges, SignalChanges, Reports, Ages, WorkerApplies, Poll,
               Polled, Begin, Arm, ClearLatch, CoolsDown, Enable
    <2>3. pc \in {"latched", "raised"}
      BY <2>2 DEF RaiseReserve, SetPower
    <2> QED
      BY <2>1, <2>3 DEF Latched
  <1> QED
    BY <1>1, Invariance, PTL DEF Spec, LatchHolds

\* A complete sequence that nobody disturbed leaves nothing to do, whatever
\* polls, reports and restarts of the worker's report show meanwhile: the
\* automation does not follow its own changes.
THEOREM ComesToRest == Spec => []Settles
  <1>1. IInv => Settles
    <2> SUFFICES ASSUME IInv, calm = "settled" PROVE ~Wants(shown.data)
      BY DEF Settles
    <2>1. Kept /\ shown.data \in Data
      BY Snapshots DEF IInv, TypeOK
    <2>2. shown.data.reserve >= MinimumReserve /\ shown.data.watts = DesiredWatts(shown.data)
      BY <2>1 DEF Kept
    <2>3. shown.data.reserve \in Nat /\ MinimumReserve \in Nat
      BY <2>1, Fields, ReserveAssumption
    <2> QED
      BY <2>2, <2>3 DEF Wants
  <1> QED
    BY <1>1, Invariance, PTL

\* The minimum of the reserve's entity is at least what the preview asks of the
\* current reserve.
LEMMA RoundedUp ==
  ASSUME NEW f \in Nat
  PROVE  UpToFive(f + 5) \in Nat /\ f + 5 <= UpToFive(f + 5)
  BY DEF UpToFive

\* On the snapshot that both see, the preview proposes what the automation would
\* write, although it applies guards of its own. Where they are stricter, for a
\* reserve too close to the floor, the automation's first command is the raise
\* that puts an end to it.
THEOREM PreviewForetells == Spec => []PreviewAgrees
  <1>1. IInv => PreviewAgrees
    <2> SUFFICES ASSUME IInv, pc = "idle", shown = report PROVE PreviewAgrees
      BY DEF PreviewAgrees
    <2> DEFINE data == shown.data
               guards == armed /\ ~latch /\ cool /\ StationSafety /\ SignalSafety
               limits == NativeMinimum(data) <= MinimumReserve /\ MinimumReserve <= data.cap
    <2>1. data \in Data
      BY Snapshots DEF IInv, TypeOK
    <2>2. /\ data.watts \in Nat /\ data.reserve \in Nat /\ data.battery \in Nat
          /\ data.floor \in Nat /\ data.cap \in Nat /\ data.cap <= 100
          /\ MinimumReserve \in Nat /\ IdleWatts \in Nat /\ ChargingWatts \in Nat
      BY <2>1, Fields, ReserveAssumption, PowerAssumption DEF Data
    <2>3. UpToFive(data.floor + 5) \in Nat /\ data.floor + 5 <= UpToFive(data.floor + 5)
      BY <2>2, RoundedUp
    <2>4. NativeMinimum(data) \in Nat /\ data.floor + 5 <= NativeMinimum(data)
      BY <2>2, <2>3 DEF NativeMinimum, Greater
    <2>5. Reasons(report) = {} <=> guards /\ SettingsValid(data) /\ limits
      <3>1. MinimumReserve \in Greater(5, UpToFive(data.floor + 5))..data.cap <=> limits
        BY <2>2, <2>4 DEF NativeMinimum
      <3>2. {data.lacks} \cap {"mains", "ac_output", "fast", "usage_mode", "tariff", "values"} = {}
            <=> data.lacks \notin {"mains", "ac_output", "fast", "usage_mode", "tariff", "values"}
        OBVIOUS
      <3> QED
        BY <3>1, <3>2 DEF Reasons, StationSafety, SignalSafety
    <2> HIDE DEF data, limits, guards
    <2>6. SettingsValid(data) <=>
            /\ data.floor \in DischargeFloors /\ data.floor + 5 <= data.reserve
            /\ 5 <= data.reserve /\ data.reserve <= data.cap /\ data.reserve % 5 = 0
      <3>1. data.reserve \in 5..100 /\ data.reserve <= data.cap
              <=> 5 <= data.reserve /\ data.reserve <= data.cap
        BY <2>2
      <3> QED
        BY <3>1, Zenon DEF SettingsValid
    <2>7. MayBegin <=> guards /\ PolicyBounds(data) /\ Wants(data)
      BY DEF MayBegin, Recheck, StationSafety, guards, data
    <2>8. PolicyBounds(data) <=> /\ 5 <= data.reserve /\ data.reserve <= data.cap
                                 /\ data.reserve % 5 = 0 /\ limits
      BY DEF PolicyBounds, limits
    <2>9. Proposed(data) = {p \in {Raise, Power(data)} :
                              IF p = Raise THEN data.reserve < MinimumReserve
                                           ELSE data.watts # DesiredWatts(data)}
      <3>1. Proposed(data) = {p \in {[kind |-> "reserve", value |-> Greater(MinimumReserve, data.reserve)],
                                      Power(data)} : p.value # data[p.kind]}
        BY <2>2 DEF Proposed, Power, DesiredWatts, Opportunity, Emergency, Active
      <3> QED
        BY <2>2, <3>1 DEF Greater, Raise, Power
    <2>10. CASE Reasons(report) = {}
      <3>1. MayBegin <=> Wants(data)
        BY <2>5, <2>6, <2>7, <2>8, <2>10
      <3>2. Preview(report) = Proposed(data)
        BY <2>10 DEF Preview, data
      <3>3. Proposed(data) = Writes(data)
        BY <2>9, <3>1 DEF Writes, Wants, Raise, Power
      <3> QED
        BY <3>2, <3>3 DEF PreviewAgrees, data
    <2>11. CASE Reasons(report) # {} /\ ~MayBegin
      BY <2>11 DEF Preview, PreviewAgrees, Writes
    <2>12. CASE Reasons(report) # {} /\ MayBegin
      <3>1. Preview(report) = {}
        BY <2>12 DEF Preview
      <3>2. data.floor \notin DischargeFloors \/ data.reserve < data.floor + 5
        BY <2>2, <2>5, <2>6, <2>7, <2>8, <2>12
      <3>3. data.reserve < data.floor + 5 => Raise \in Writes(data)
        <4>1. data.reserve < data.floor + 5 => data.reserve < MinimumReserve
          BY <2>2, <2>4, <2>7, <2>8, <2>12 DEF limits
        <4> QED
          BY <2>12, <4>1 DEF Writes
      <3> QED
        BY <3>1, <3>2, <3>3 DEF PreviewAgrees, data
    <2> QED
      BY <2>10, <2>11, <2>12
  <1> QED
    BY <1>1, Invariance, PTL
=============================================================================
