--------------------------- MODULE NativeSettings ---------------------------
(***************************************************************************)
(* One setting written by LocalMqttServer (python/solix_link/              *)
(* mqtt_intercept.py): baseline, one write, and the reports that confirm   *)
(* it, over the queues of one native connection.  The families differ in   *)
(* where they take a report from:                                          *)
(*   - a C1000 Gen 2 setting reads the reply of its own status request     *)
(*     (plain; twice: a second report after a pause; floor: the discharge  *)
(*     floor, which the firmware may answer by raising the reserve);       *)
(*   - charging power and charge cap read the server's shared metrics,     *)
(*     which any report replaces, once their status request is answered;   *)
(*   - an original C1000 setting awaits no acknowledgement, and takes any  *)
(*     complete report 0405 for the answer to its status request.          *)
(* A report is the setting's level, the backup reserve and kept, all the   *)
(* rest that is compared; fields the code lets run freely (remaining       *)
(* seconds of a timer, display activity, active tariff) are left out.      *)
(***************************************************************************)
EXTENDS Naturals, Sequences

CONSTANTS
  None,
  Kinds,       \* the settings written: a subset of AllKinds
  Levels,      \* values of the setting, on the scale of the reserves
  Reserves,    \* backup reserves, counted in their steps of 5 percent
  Kepts,       \* states of everything else that is compared
  MaxNotes,    \* bound on the messages the station sends of its own accord
  MaxTouches   \* bound on the changes its user makes

Exact == {"plain", "twice", "floor"}
Shared == {"power", "cap"}
AllKinds == Exact \cup Shared \cup {"original"}

ASSUME KindsAssumption == Kinds \subseteq AllKinds
ASSUME LevelsAssumption ==
  Levels \subseteq Nat /\ Reserves \subseteq Nat /\ \A r, s \in Reserves : r..s \subseteq Reserves
ASSUME BoundsAssumption == MaxNotes \in Nat /\ MaxTouches \in Nat

VARIABLES
  station,     \* what the station has stored
  op,          \* the setting and the level asked for
  step,        \* baseline, write or sample; done when the control has ended
  stage,       \* of that request: queued, sent, or asleep before a sample
  link,        \* the captured connection is open
  down,        \* requests on their way to the station
  up,          \* messages on their way to the server
  settled,     \* the message that settled the pending request, or None
  metrics,     \* server.metrics, as far as this control reads them
  ack,         \* connection._original_ack: None, "none", "ok" or "rejected"
  before,      \* the baseline, None until it is read
  count,       \* confirming samples accepted
  outcome,     \* None while running, then "ok", "error" or "cancelled"
  arrived,     \* history: the write has reached the station
  shown,       \* history: since then the station once held what was asked for
  refused,     \* history: the station answered this write with a rejection
  early,       \* history: samples made before the write reached the station
  notes, touches

netVars == <<down, up, settled, metrics>>
runVars == <<step, stage, count, outcome>>
histVars == <<arrived, shown, refused, early>>
bounds == <<notes, touches>>
vars == <<station, op, before, link, ack, netVars, runVars, histVars, bounds>>

Station == [level : Levels, reserve : Reserves, kept : Kepts]
Report(what, full) == [what |-> what, full |-> full, of |-> station, late |-> arrived]
Ack(code) == [what |-> "ack", code |-> code]
Reports == [what : {"status", "note"}, full : BOOLEAN, of : Station, late : BOOLEAN]
Acks == {Ack(code) : code \in {"ok", "rejected"}}

ASSUME NoneAssumption ==
  None \notin Station \cup Reports \cup Acks \cup {"none", "ok", "rejected", "error", "cancelled"}

-----------------------------------------------------------------------------
Init ==
  /\ station \in Station
  /\ op \in [kind : Kinds, level : Levels]
  /\ step = "baseline" /\ stage = "queued" /\ link = TRUE
  /\ down = <<>> /\ up = <<>> /\ settled = None /\ metrics = None
  /\ ack = None /\ before = None /\ count = 0 /\ outcome = None
  /\ arrived = FALSE /\ shown = FALSE /\ refused = FALSE /\ early = 0
  /\ notes = 0 /\ touches = 0

\* Mutant of Samples: one report too many.
SamplesAndOne == IF op.kind \in {"twice", "original"} THEN 3 ELSE 1

\* A second report for what the firmware settles later (fast charge, Smart),
\* and for every original setting.
Samples == IF op.kind \in {"twice", "original"} THEN 2 ELSE 1

\* Mutant of Guard: the reserve is looked at for the floor only.
GuardFloorOnly(r) == op.kind = "floor" => op.level < r.reserve

\* The writes that would change the reserve as well are refused.
Guard(r) ==
  CASE op.kind = "cap"   -> r.reserve <= op.level
    [] op.kind = "floor" -> op.level < r.reserve
    [] OTHER             -> TRUE

\* The new value, and the protected settings as they were in the baseline.
Wanted(r) ==
  /\ r.level = op.level /\ r.kept = before.kept
  /\ op.kind # "power" => r.reserve = before.reserve

\* Mutant of Confirms: the setting alone is compared.
ConfirmsLevel(r) == r.level = op.level

\* What a confirming report must show.
Confirms(r) == Wanted(r)

-----------------------------------------------------------------------------
(* The control. *)

\* The finally clause of an original setting ends its window.
Ends(result) ==
  /\ step' = "done" /\ stage' = "idle" /\ outcome' = result
  /\ ack' = None
  /\ UNCHANGED count

Fails == Ends("error")

\* request() got the lock of the connection.  An original setting is sent
\* without waiting for an answer, in a window that records acknowledgements.
Publish ==
  /\ stage = "queued" /\ link
  /\ down' = Append(down, IF step = "write" THEN "write" ELSE "status")
  /\ IF step = "write" /\ op.kind = "original"
     THEN ack' = "none" /\ step' = "sample" /\ UNCHANGED stage
     ELSE stage' = "sent" /\ UNCHANGED <<ack, step>>
  /\ UNCHANGED <<station, op, before, link, up, settled, metrics, count, outcome, histVars, bounds>>

\* The subscription is gone when the request's turn comes, or close() fails
\* the one that is pending.
Unavailable ==
  /\ ~link /\ (stage = "queued" \/ (stage = "sent" /\ settled = None))
  /\ Fails
  /\ UNCHANGED <<station, op, before, link, netVars, histVars, bounds>>

\* The report a control looks at: its own reply, or the shared metrics.
Seen == IF op.kind \in Shared THEN metrics ELSE settled

\* The baseline, and the guards that precede the write.
ResumeBaseline ==
  /\ step = "baseline"
  /\ IF Seen.full /\ Guard(Seen.of)
     THEN before' = Seen.of /\ step' = "write" /\ stage' = "queued"
          /\ UNCHANGED <<count, outcome, ack>>
     ELSE Fails /\ UNCHANGED before
  /\ UNCHANGED early

ResumeWrite ==
  /\ step = "write"
  /\ IF settled.code = "ok"
     THEN step' = "sample" /\ stage' = "queued" /\ UNCHANGED <<count, outcome, ack>>
     ELSE Fails
  /\ UNCHANGED <<before, early>>

\* check_original_setting_response(), then the comparison with the baseline.
ResumeSample ==
  /\ step = "sample"
  /\ early' = IF Seen.late THEN early ELSE early + 1
  /\ IF ack = "rejected" \/ ~Seen.full \/ ~Confirms(Seen.of) THEN Fails
     ELSE IF count + 1 = Samples THEN Ends("ok")
     ELSE /\ count' = count + 1
          /\ stage' = IF op.kind = "twice" THEN "asleep" ELSE "queued"
          /\ UNCHANGED <<step, outcome, ack>>
  /\ UNCHANGED before

\* The task runs again after its request was settled; run() may have handled
\* further messages in between.
Resume ==
  /\ stage = "sent" /\ settled # None
  /\ ResumeBaseline \/ ResumeWrite \/ ResumeSample
  /\ settled' = None
  /\ UNCHANGED <<station, op, link, down, up, metrics, arrived, shown, refused, bounds>>

Wake ==
  /\ stage = "asleep" /\ stage' = "queued"
  /\ UNCHANGED <<station, op, before, link, ack, netVars, step, count, outcome, histVars, bounds>>

CloseLink == link' = FALSE /\ down' = <<>> /\ up' = <<>> /\ settled' = None

\* No answer within 12 s: request() closes the connection.
Silence ==
  /\ stage = "sent" /\ settled = None /\ link
  /\ CloseLink /\ Fails
  /\ UNCHANGED <<station, op, before, metrics, histVars, bounds>>

\* The deadline of the control socket, or a shutdown.  An original setting
\* closes the connection wherever it is once it has its baseline.
Cancel ==
  /\ stage \in {"queued", "sent", "asleep"}
  /\ IF stage = "sent" \/ (op.kind = "original" /\ step # "baseline")
     THEN CloseLink /\ UNCHANGED metrics
     ELSE UNCHANGED <<link, netVars>>
  /\ Ends("cancelled")
  /\ UNCHANGED <<station, op, before, histVars, bounds>>

-----------------------------------------------------------------------------
(* _Connection.run() handles the next message. *)

\* A success never erases a rejection recorded in this window.
Recorded(m) == IF ack = "rejected" THEN "rejected" ELSE m.code

\* Replies are matched by their command.  The alias 0405 must be complete.
Settles(m) ==
  CASE m.what = "ack"    -> step = "write"
    [] m.what = "status" -> step # "write"
    [] OTHER             -> step # "write" /\ op.kind = "original" /\ m.full

Receive ==
  /\ up # <<>> /\ link
  /\ LET m == Head(up) IN
     /\ metrics' = IF op.kind \in Shared /\ m.what # "ack" THEN m ELSE metrics
     /\ ack' = IF m.what = "ack" /\ ack # None THEN Recorded(m) ELSE ack
     /\ settled' = IF stage = "sent" /\ settled = None /\ Settles(m) THEN m ELSE settled
  /\ up' = Tail(up)
  /\ UNCHANGED <<station, op, before, link, down, runVars, histVars, bounds>>

-----------------------------------------------------------------------------
(* The station, its user and the network. *)

\* The firmware fits the reserve to a new cap or floor.
Fitted(s) ==
  [s EXCEPT !.level = op.level,
            !.reserve = CASE op.kind = "cap" /\ s.reserve > op.level -> op.level
                          [] op.kind = "floor" /\ s.reserve <= op.level -> op.level + 1
                          [] OTHER -> s.reserve]

\* It answers a status request with the reply; an original C1000 also with
\* its next report.  A report that is not full cannot be used: a field is
\* missing, or a precondition of the setting (an output off, Standard mode,
\* an inactive timer) does not hold.
AnswerStatus ==
  /\ down # <<>> /\ Head(down) = "status"
  /\ \E what \in {"status"} \cup (IF op.kind = "original" THEN {"note"} ELSE {}),
        full \in BOOLEAN :
       up' = Append(up, Report(what, full))
  /\ down' = Tail(down)
  /\ UNCHANGED <<station, op, before, link, ack, settled, metrics, runVars, histVars, bounds>>

\* It may apply a write, ignore it or reject it, and keep silent about it.
AnswerWrite ==
  /\ down # <<>> /\ Head(down) = "write"
  /\ arrived' = TRUE
  /\ \E code \in {"ok", "rejected", None}, applied \in BOOLEAN :
       /\ code = "rejected" => ~applied
       /\ station' = IF applied THEN Fitted(station) ELSE station
       /\ up' = IF code = None THEN up ELSE Append(up, Ack(code))
       /\ refused' = (code = "rejected")
  /\ shown' = Wanted(station')
  /\ down' = Tail(down)
  /\ UNCHANGED <<op, before, link, ack, settled, metrics, runVars, early, bounds>>

\* A report of its own accord (or to the poller), or once more the
\* acknowledgement of an earlier write of the same setting.
Note ==
  /\ notes < MaxNotes /\ link /\ op.kind \notin Exact /\ step # "done"
  /\ \/ \E full \in BOOLEAN : up' = Append(up, Report("note", full))
     \/ op.kind = "original" /\ up' = Append(up, Ack("ok"))
  /\ notes' = notes + 1
  /\ UNCHANGED <<station, op, before, link, ack, down, settled, metrics, runVars, histVars, touches>>

\* Its user, or another application, changes a setting.
Touch ==
  /\ touches < MaxTouches /\ step # "done"
  /\ station' \in Station \ {station}
  /\ touches' = touches + 1
  /\ shown' = (shown \/ (arrived /\ Wanted(station')))
  /\ UNCHANGED <<op, before, link, ack, netVars, runVars, arrived, refused, early, notes>>

Drop ==
  /\ link /\ step # "done"
  /\ link' = FALSE /\ down' = <<>> /\ up' = <<>>
  /\ UNCHANGED <<station, op, before, ack, settled, metrics, runVars, histVars, bounds>>

Control == Publish \/ Unavailable \/ Resume \/ Wake \/ Silence \/ Cancel
Environment == Receive \/ AnswerStatus \/ AnswerWrite \/ Note \/ Touch \/ Drop
Next == Control \/ Environment

Spec == Init /\ [][Next]_vars
-----------------------------------------------------------------------------
(* Properties. *)

TypeOK ==
  /\ station \in Station /\ op \in [kind : Kinds, level : Levels]
  /\ step \in {"baseline", "write", "sample", "done"}
  /\ stage \in {"queued", "sent", "asleep", "idle"}
  /\ link \in BOOLEAN
  /\ down \in Seq({"status", "write"}) /\ up \in Seq(Reports \cup Acks)
  /\ settled \in Reports \cup Acks \cup {None} /\ metrics \in Reports \cup {None}
  /\ ack \in {None, "none", "ok", "rejected"}
  /\ before \in Station \cup {None}
  /\ count \in 0..1 /\ early \in 0..2
  /\ outcome \in {None, "ok", "error", "cancelled"}
  /\ arrived \in BOOLEAN /\ shown \in BOOLEAN /\ refused \in BOOLEAN
  /\ notes \in 0..MaxNotes /\ touches \in 0..MaxTouches

\* Two reports that an original C1000 sent before the write reached it, and
\* that were taken for the answers to both status requests.
ConfirmedEarly == op.kind = "original" /\ early = 2

\* A control that reports success is right: the station did not reject the
\* write, also where acknowledgements are optional and may be repeated, and
\* after the write reached it the station held the new value together with
\* everything the baseline protected, although it may ignore a write it
\* acknowledged, its user may change it at any time, and reports arrive
\* unasked (the comparisons of _set_c1000_setting, set_discharge_floor,
\* set_charge_cap, set_ac_charging_power and _set_original_setting, and
\* _original_ack).
SuccessWasHeld == outcome = "ok" => (shown /\ ~refused) \/ ConfirmedEarly

\* A charge cap or a discharge floor never moves a reserve that is the one of
\* its baseline: only a change by someone else, made since, can let the
\* firmware fit the reserve to the write (the guards before the write).
ReserveIsSafe ==
  [][arrived' # arrived /\ station'.reserve # station.reserve => station.reserve # before.reserve]_vars
=============================================================================
