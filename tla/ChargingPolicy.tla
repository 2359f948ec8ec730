--------------------------- MODULE ChargingPolicy ---------------------------
(* The charge-only automation (blueprints/automation/solix_link/              *)
(* opportunistic_charging.yaml) and what it works through: the coordinator    *)
(* of the Home Assistant integration, the gateway that reads the worker's     *)
(* status file and forwards commands, and the worker that applies them to the *)
(* station. Next to it the preview of the same policy (charging_policy.py).   *)
(*                                                                            *)
(* The automation sees the station only as the coordinator shows it, which is *)
(* as it was reported; its commands take up to a minute, and the signals, the *)
(* station's user, the network and Home Assistant go on meanwhile. A signal   *)
(* is abstracted to which thresholds it passes: "start" passes both, "hold"   *)
(* only the one that keeps charging going, "none" neither; "stale" is one     *)
(* that may not be used. What the station lacks for a control is "none", or   *)
(* one of mains, AC output, Fast off, standard mode, no tariff, and "values": *)
(* its watts, battery, cap and floor, each there and in its own domain.       *)
EXTENDS Naturals

CONSTANTS
  Watts, IdleWatts, ChargingWatts,
  Reserves, MinimumReserve,      \* of the station, of the policy
  Floors, Caps,                  \* of discharging, of charging
  Batteries,
  Lacks,         \* what else the station can lack
  Signals,       \* what signal_mode selects of price and export
  MaxChanges     \* changes of the station and of the signals by others

ASSUME PowerAssumption ==
  Watts \subseteq Nat /\ {IdleWatts, ChargingWatts} \subseteq Watts /\ IdleWatts <= ChargingWatts
ASSUME ReserveAssumption ==
  /\ Reserves \cup Batteries \cup Floors \subseteq Nat
  /\ Caps \subseteq {80, 85, 90, 95, 100}
  /\ MinimumReserve \in Reserves /\ MinimumReserve \in 5..100 /\ MinimumReserve % 5 = 0
ASSUME LacksAssumption ==
  Lacks \subseteq {"mains", "ac_output", "fast", "usage_mode", "tariff", "values"}
ASSUME BoundAssumption == MaxChanges \in Nat

VARIABLES
  station,    \* the settings and the state of the station
  report,     \* status.json: the last report
  shown,      \* the coordinator's data
  polled,     \* what _async_update_data is about to show
  lock,       \* _io_lock: free, poll, command
  command,    \* a call of async_command: where it is, what it sets
  answer,     \* the snapshot the command returned
  worker,     \* the control the worker runs: none, or what it sets
  signal,
  armed, latch,
  cool,       \* has the cooldown since the latch's last change elapsed
  pc,         \* the automation: off, idle, or where its sequence is
  uncertain,  \* a sequence ended early and nobody has reviewed it
  calm,       \* nothing but the policy changed its inputs since the last
              \* decision ("deciding"), and the sequence is complete ("settled")
  changes

remote == <<station, report, worker>>
coordinator == <<shown, polled, lock, command, answer>>
helpers == <<armed, latch, cool>>
ghosts == <<uncertain, calm>>
vars == <<remote, coordinator, signal, helpers, pc, ghosts, changes>>

Data == [watts : Watts, reserve : Reserves, floor : Floors, cap : Caps,
         battery : Batteries, lacks : Lacks \cup {"none"}]
Snapshot == [data : Data, fresh : BOOLEAN]
None == [kind |-> "none", value |-> 0]
NoSnapshot == [data |-> None, fresh |-> FALSE]
Settings == [kind : {"watts"}, value : Watts] \cup [kind : {"reserve"}, value : Reserves]

TypeOK ==
  /\ station \in Data
  /\ {report, shown} \subseteq Snapshot
  /\ {polled, answer} \subseteq Snapshot \cup {NoSnapshot}
  /\ lock \in {"free", "poll", "command"}
  /\ command \in [step : {"none", "queued", "sent", "answered", "failed"},
                  set : Settings \cup {None}]
  /\ worker \in [set : Settings \cup {None}, applied : BOOLEAN]
  /\ signal \in [Signals -> {"start", "hold", "none", "stale"}]
  /\ {armed, latch, cool, uncertain} \subseteq BOOLEAN
  /\ pc \in {"off", "idle", "latched", "reserve", "raised", "power"}
  /\ calm \in {"no", "deciding", "settled"} /\ changes \in 0..MaxChanges
  /\ lock = "poll" <=> polled # NoSnapshot
  /\ pc \in {"reserve", "power"} <=> command.step # "none"
  /\ lock = "command" <=> command.step \in {"sent", "answered", "failed"}
  /\ pc \in {"latched", "reserve", "raised", "power"} => latch
-----------------------------------------------------------------------------
\* The blueprint's templates, on what the coordinator shows.
Greater(a, b) == IF a > b THEN a ELSE b

Active(data) == data.watts > IdleWatts
Opportunity(data) ==
  \E s \in Signals : signal[s] = "start" \/ (signal[s] = "hold" /\ Active(data))
Emergency(data) == data.battery < Greater(MinimumReserve, data.reserve)
DesiredWatts(data) ==
  IF Opportunity(data) \/ Emergency(data) THEN ChargingWatts ELSE IdleWatts

StationSafety ==
  /\ armed /\ shown.fresh
  /\ shown.data.lacks \notin {"mains", "ac_output", "fast", "usage_mode", "tariff", "values"}
SignalSafety == \A s \in Signals : signal[s] # "stale"

\* math.ceil(x / 5) * 5, and the minimum of the reserve's entity.
UpToFive(x) == 5 * ((x + 4) \div 5)
NativeMinimum(data) == Greater(5, UpToFive(data.floor + 5))

\* Mutant of PolicyBounds: the policy's reserve is not held against the floor.
PolicyBoundsUnfloored(data) ==
  /\ 5 <= data.reserve /\ data.reserve <= data.cap /\ data.reserve % 5 = 0
  /\ MinimumReserve <= data.cap

PolicyBounds(data) ==
  /\ 5 <= data.reserve /\ data.reserve <= data.cap /\ data.reserve % 5 = 0
  /\ NativeMinimum(data) <= MinimumReserve /\ MinimumReserve <= data.cap

Recheck == StationSafety /\ SignalSafety /\ PolicyBounds(shown.data)

\* What the policy would change; the conditions under which a sequence begins.
Wants(data) == data.reserve < MinimumReserve \/ data.watts # DesiredWatts(data)
MayBegin == ~latch /\ cool /\ Recheck /\ Wants(shown.data)
-----------------------------------------------------------------------------
\* preview_charging_policy, on a snapshot of the gateway and the helpers.
DischargeFloors == {1} \cup {5 * n : n \in 1..15}

SettingsValid(data) ==
  /\ data.floor \in DischargeFloors /\ data.reserve \in 5..100 /\ data.reserve % 5 = 0
  /\ data.floor + 5 <= data.reserve /\ data.reserve <= data.cap

Reasons(snapshot) ==
  LET data == snapshot.data
      minimum == Greater(5, UpToFive(data.floor + 5))
  IN  {r \in {"policy_disarmed", "command_latched", "cooldown_active", "telemetry_stale",
              "current_settings_invalid", "policy_reserve_outside_current_caps",
              "signal_stale"} :
         \/ r = "policy_disarmed" /\ ~armed
         \/ r = "command_latched" /\ latch
         \/ r = "cooldown_active" /\ ~cool
         \/ r = "telemetry_stale" /\ ~snapshot.fresh
         \/ r = "current_settings_invalid" /\ ~SettingsValid(data)
         \/ /\ r = "policy_reserve_outside_current_caps" /\ SettingsValid(data)
            /\ MinimumReserve \notin minimum..data.cap
         \/ r = "signal_stale" /\ \E s \in Signals : signal[s] = "stale"}
      \cup ({data.lacks} \cap {"mains", "ac_output", "fast", "usage_mode", "tariff", "values"})

Proposed(data) ==
  LET passes(s) == signal[s] \in (IF data.watts > IdleWatts THEN {"start", "hold"} ELSE {"start"})
      reserve == Greater(MinimumReserve, data.reserve)
      watts == IF (\E s \in Signals : passes(s)) \/ data.battery < reserve
               THEN ChargingWatts ELSE IdleWatts
  IN  {p \in {[kind |-> "reserve", value |-> reserve], [kind |-> "watts", value |-> watts]} :
         p.value # data[p.kind]}

Preview(snapshot) == IF Reasons(snapshot) # {} THEN {} ELSE Proposed(snapshot.data)
-----------------------------------------------------------------------------
Idle == [step |-> "none", set |-> None]

Init ==
  /\ station \in {d \in Data : d.lacks = "none" /\ d.watts = IdleWatts}
  /\ report = [data |-> station, fresh |-> TRUE]
  /\ shown = report /\ polled = NoSnapshot /\ answer = NoSnapshot
  /\ lock = "free" /\ command = Idle
  /\ worker = [set |-> None, applied |-> FALSE]
  /\ signal = [s \in Signals |-> "none"]
  /\ armed = FALSE /\ latch = FALSE /\ cool = TRUE
  /\ pc = "off" /\ uncertain = FALSE /\ calm = "no" /\ changes = 0
-----------------------------------------------------------------------------
\* The world. The station's user, its battery and its sources change it.
Change ==
  /\ changes < MaxChanges /\ changes' = changes + 1 /\ calm' = "no"
  /\ UNCHANGED <<report, worker, coordinator, helpers, pc, uncertain>>

StationChanges ==
  /\ \/ \E w \in Watts \ {station.watts} : station' = [station EXCEPT !.watts = w]
     \/ \E r \in Reserves \ {station.reserve} : station' = [station EXCEPT !.reserve = r]
     \/ \E b \in Batteries \ {station.battery} : station' = [station EXCEPT !.battery = b]
     \/ \E f \in Floors \ {station.floor} : station' = [station EXCEPT !.floor = f]
     \/ \E u \in Caps \ {station.cap} : station' = [station EXCEPT !.cap = u]
     \/ \E l \in (Lacks \cup {"none"}) \ {station.lacks} :
          station' = [station EXCEPT !.lacks = l]
  /\ Change /\ UNCHANGED signal

SignalChanges ==
  /\ \E s \in Signals, x \in {"start", "hold", "none", "stale"} :
       x # signal[s] /\ signal' = [signal EXCEPT ![s] = x]
  /\ Change /\ UNCHANGED station

\* changed(): each report of the station replaces the status file.
Now == [data |-> station, fresh |-> TRUE]

Reports ==
  /\ report # Now /\ report' = Now
  /\ UNCHANGED <<station, worker, coordinator, signal, helpers, pc, ghosts, changes>>

\* Thirty seconds without a report, or without a connection.
Old(snapshot) == [snapshot EXCEPT !.fresh = FALSE]

Ages ==
  /\ report.fresh
  /\ report' = Old(report) /\ shown' = Old(shown)
  /\ polled' = Old(polled) /\ answer' = Old(answer)
  /\ UNCHANGED <<station, worker, lock, command, signal, helpers, pc, ghosts, changes>>
-----------------------------------------------------------------------------
\* The control in the worker: it may reach the station or not, and is
\* confirmed by a report with the value it set. It outlives a caller that is
\* gone; what it sets then is a change the policy knows nothing of.
Wanted == command.step = "sent"

WorkerApplies ==
  /\ worker.set # None /\ ~worker.applied
  /\ worker' = [worker EXCEPT !.applied = TRUE]
  /\ station' = [station EXCEPT ![worker.set.kind] = worker.set.value]
  /\ calm' = IF Wanted THEN calm ELSE "no"
  /\ UNCHANGED <<report, coordinator, signal, helpers, pc, uncertain, changes>>

Answers(step, snapshot) ==
  IF Wanted THEN command' = [command EXCEPT !.step = step] /\ answer' = snapshot
            ELSE UNCHANGED <<command, answer>>

WorkerConfirms ==
  /\ worker.set # None /\ station[worker.set.kind] = worker.set.value
  /\ report' = Now
  /\ worker' = [set |-> None, applied |-> FALSE]
  /\ Answers("answered", Now)
  /\ UNCHANGED <<station, shown, polled, lock, signal, helpers, pc, ghosts, changes>>

\* Refused, unconfirmed or 45 seconds.
WorkerFails ==
  /\ worker.set # None
  /\ worker' = [set |-> None, applied |-> FALSE]
  /\ Answers("failed", NoSnapshot)
  /\ UNCHANGED <<station, report, shown, polled, lock, signal, helpers, pc, ghosts, changes>>
-----------------------------------------------------------------------------
\* Mutant of Poll: the lock is not taken.
PollUnlocked ==
  /\ polled = NoSnapshot /\ polled' = report
  /\ UNCHANGED <<remote, shown, lock, command, answer, signal, helpers, pc, ghosts, changes>>

\* The coordinator's poll, under the lock from the request to the data.
Poll ==
  /\ lock = "free" /\ lock' = "poll" /\ polled' = report
  /\ UNCHANGED <<remote, shown, command, answer, signal, helpers, pc, ghosts, changes>>

Polled ==
  /\ polled # NoSnapshot /\ lock' = "free"
  /\ shown' \in {polled, Old(shown)}       \* Old: UpdateFailed
  /\ polled' = NoSnapshot
  /\ UNCHANGED <<remote, command, answer, signal, helpers, pc, ghosts, changes>>

\* async_command: a fresh snapshot is read and the command checked against it;
\* the gateway checks its own again and forwards it to the worker.
Valid(data, set) ==
  set.kind = "reserve" => data.floor + 5 <= set.value /\ set.value <= data.cap

Send ==
  /\ command.step = "queued" /\ lock = "free" /\ lock' = "command"
  /\ IF report.fresh /\ Valid(report.data, command.set)
     THEN /\ command' = [command EXCEPT !.step = "sent"]
          /\ worker' = [set |-> command.set, applied |-> FALSE]
     ELSE command' = [command EXCEPT !.step = "failed"] /\ UNCHANGED worker
  /\ UNCHANGED <<station, report, shown, polled, answer, signal, helpers, pc, ghosts, changes>>

\* The connection to the gateway or from it to the worker breaks; the worker
\* goes on. (The deadlines are ordered: worker 45, gateway 50, here 60 seconds.)
ConnectionLost ==
  /\ command.step \in {"sent", "answered"}
  /\ command' = [command EXCEPT !.step = "failed"] /\ answer' = NoSnapshot
  /\ UNCHANGED <<remote, shown, polled, lock, signal, helpers, pc, ghosts, changes>>
-----------------------------------------------------------------------------
\* The automation.
Unfinished == pc' = "idle" /\ uncertain' = TRUE /\ calm' = "no"

\* Nothing that others did is still on its way to the coordinator.
Current ==
  /\ station = shown.data /\ station = report.data
  /\ polled \in {NoSnapshot} \cup [data : {station}, fresh : BOOLEAN]
  /\ worker.set = None

Finishes ==
  /\ pc' = "idle" /\ latch' = FALSE /\ cool' = FALSE
  /\ calm' = IF calm = "deciding" THEN "settled" ELSE "no"

Calls(kind, value) ==
  command' = [step |-> "queued", set |-> [kind |-> kind, value |-> value]]

\* Mutant of Begin: the latch is not set before the first command.
BeginUnlatched ==
  /\ pc = "idle" /\ MayBegin /\ pc' = "latched"
  /\ UNCHANGED <<remote, coordinator, signal, helpers, ghosts, changes>>

\* The minute trigger or arming; the latch is on before anything is sent.
Begin ==
  /\ pc = "idle" /\ MayBegin
  /\ latch' = TRUE /\ cool' = FALSE /\ pc' = "latched"
  /\ calm' = IF Current THEN "deciding" ELSE "no"
  /\ UNCHANGED <<remote, coordinator, signal, armed, uncertain, changes>>

RaiseReserve ==
  /\ pc = "latched"
  /\ \/ /\ ~Recheck /\ Unfinished /\ UNCHANGED command
     \/ /\ Recheck /\ shown.data.reserve < MinimumReserve
        /\ Calls("reserve", MinimumReserve) /\ pc' = "reserve"
        /\ UNCHANGED ghosts
     \/ /\ Recheck /\ shown.data.reserve >= MinimumReserve
        /\ pc' = "raised" /\ UNCHANGED <<command, ghosts>>
  /\ UNCHANGED <<remote, shown, polled, lock, answer, signal, helpers, changes>>

\* The decision is made again, from what is shown and signalled now.
SetPower ==
  /\ pc = "raised"
  /\ LET watts == DesiredWatts(shown.data)
     IN  \/ /\ ~Recheck /\ Unfinished /\ UNCHANGED <<command, latch, cool>>
         \/ /\ Recheck /\ shown.data.watts # watts
            /\ Calls("watts", watts) /\ pc' = "power"
            /\ UNCHANGED <<latch, cool, ghosts>>
         \/ /\ Recheck /\ shown.data.watts = watts
            /\ Finishes /\ UNCHANGED <<command, uncertain>>
  /\ UNCHANGED <<remote, shown, polled, lock, answer, signal, armed, changes>>

\* Mutant of CommandEnds: the sequence goes on, or ends as if complete, after
\* an error.
CommandEndsAnyhow ==
  /\ command.step \in {"answered", "failed"}
  /\ command' = Idle /\ lock' = "free" /\ answer' = NoSnapshot
  /\ shown' \in IF command.step = "answered" THEN {answer} ELSE {report, Old(shown)}
  /\ IF pc = "reserve" THEN pc' = "raised" /\ UNCHANGED <<latch, cool, calm>> ELSE Finishes
  /\ uncertain' = (command.step = "failed")
  /\ UNCHANGED <<remote, polled, signal, armed, changes>>

\* async_command ends: its answer is shown, or what a refresh finds, if it
\* finds anything; an error ends the sequence with the latch on.
CommandEnds ==
  /\ command.step \in {"answered", "failed"}
  /\ command' = Idle /\ lock' = "free" /\ answer' = NoSnapshot
  /\ \/ /\ command.step = "answered" /\ shown' = answer /\ UNCHANGED uncertain
        /\ IF pc = "reserve" THEN pc' = "raised" /\ UNCHANGED <<latch, cool, calm>>
                             ELSE Finishes
     \/ /\ command.step = "failed" /\ shown' \in {report, Old(shown)}
        /\ Unfinished /\ UNCHANGED <<latch, cool>>
  /\ UNCHANGED <<remote, polled, signal, armed, changes>>
-----------------------------------------------------------------------------
\* The user arms and disarms, and clears the latch after a review, when
\* no sequence is running.
Arm ==
  /\ armed' = ~armed
  /\ UNCHANGED <<remote, coordinator, signal, latch, cool, pc, ghosts, changes>>

ClearLatch ==
  /\ latch /\ pc \in {"off", "idle"}
  /\ latch' = FALSE /\ cool' = FALSE /\ uncertain' = FALSE
  /\ UNCHANGED <<remote, coordinator, signal, armed, pc, calm, changes>>

\* The cooldown is at least 60 seconds, so that no control of the worker, which
\* has 45, is left from before the latch's last change.
CoolsDown ==
  /\ ~cool /\ worker.set = None /\ cool' = TRUE
  /\ UNCHANGED <<remote, coordinator, signal, armed, latch, pc, ghosts, changes>>

\* A restart of Home Assistant leaves the automation off (initial_state) and
\* ends its sequence. The helpers are restored, after an abrupt end perhaps to
\* what they were some minutes before.
Restart ==
  /\ pc # "off" /\ pc' = "off"
  /\ uncertain' = (uncertain \/ pc # "idle")
  /\ latch' \in {latch, FALSE} /\ cool' = FALSE /\ calm' = "no"
  /\ lock' = "free" /\ command' = Idle /\ shown' = report
  /\ polled' = NoSnapshot /\ answer' = NoSnapshot
  /\ UNCHANGED <<remote, signal, armed, changes>>

\* The user switches the automation on, having looked at what a restart left.
Enable ==
  /\ pc = "off" /\ pc' = "idle"
  /\ uncertain' = (uncertain /\ latch)
  /\ UNCHANGED <<remote, coordinator, signal, helpers, calm, changes>>
-----------------------------------------------------------------------------
Next ==
  \/ StationChanges \/ SignalChanges \/ Reports \/ Ages
  \/ WorkerApplies \/ WorkerConfirms \/ WorkerFails
  \/ Poll \/ Polled \/ Send \/ ConnectionLost \/ CommandEnds
  \/ Begin \/ RaiseReserve \/ SetPower
  \/ Arm \/ ClearLatch \/ CoolsDown \/ Restart \/ Enable

Spec == Init /\ [][Next]_vars
-----------------------------------------------------------------------------
\* docs/home-assistant-charging-automation.md, Failure review: once a sequence
\* ended early, by a failed command, a changed guard or a restart, the policy
\* sends no command until its user has reviewed it. (The latch, and after an
\* abrupt restart that lost the latch the automation that starts disabled.)
LatchHolds == [][command.step = "none" /\ command'.step = "queued" => ~uncertain]_vars

\* The policy comes to rest: after a complete sequence it wants no other
\* command until a signal, the station or its user gives it a reason. That
\* holds through polls and delayed reports: Home Assistant never shows again
\* what the policy has changed (_io_lock; the worker writes the status file
\* before it confirms), and its own change of the watts, which changes the
\* thresholds that apply, does not change the decision.
Settles == calm = "settled" => ~Wants(shown.data)

\* What the automation would write, if nothing else changed.
Raise == [kind |-> "reserve", value |-> MinimumReserve]
Power(data) == [kind |-> "watts", value |-> DesiredWatts(data)]
Writes(data) ==
  {p \in {Raise, Power(data)} :
     MayBegin /\ IF p = Raise THEN data.reserve < MinimumReserve
                              ELSE data.watts # DesiredWatts(data)}

\* docs/charging-policy-preview.md: the decision matches the blueprint. On the
\* same snapshot the preview proposes what the automation would write. It is
\* stricter only where its doc says so, and then proposes nothing: about a floor
\* no station is known to have, and a reserve that is not 5 above the floor,
\* which the automation would first of all raise.
PreviewAgrees ==
  pc = "idle" /\ shown = report =>
    LET data == shown.data
    IN  \/ Preview(report) = Writes(data)
        \/ /\ Preview(report) = {}
           /\ \/ data.floor \notin DischargeFloors
              \/ data.reserve < data.floor + 5 /\ Raise \in Writes(data)
=============================================================================
