----------------------------- MODULE BleMonitor -----------------------------
(***************************************************************************)
(* One Bluetooth station of the gateway: the task that keeps a SolixMonitor *)
(* connected (MonitorService._run_device, python/solix_link/manager.py), the *)
(* negotiation and the notifications of the link (SolixMonitor in           *)
(* client.py, Session.feed in protocol.py), and one setting applied through *)
(* it (apply_setting and the methods of the monitor).                       *)
(*                                                                         *)
(* A report carries a part of the fields; the monitor keeps the latest      *)
(* value of each and the number of the report that brought it.  Comparing   *)
(* that number with a baseline is all the code does with it, so the model   *)
(* keeps the set of fields reported since the baseline.                     *)
(*                                                                         *)
(* The pending notifications are one queue: their tasks take the monitor's  *)
(* lock in the order of arrival.  A setting whose monitor was disconnected  *)
(* runs on against the old monitor and touches nothing of the new one; the  *)
(* model lets it end before the next monitor is made.                       *)
(***************************************************************************)
EXTENDS Naturals, Sequences, FiniteSets

CONSTANTS
  None,
  Values,       \* values of a field
  Kinds,        \* the settings applied: a subset of AllKinds
  Rounds,       \* exchanges of the negotiation
  Attempts,     \* status requests of _write_setting
  MaxUpdates,   \* size of the queue of updates
  MaxInbox,     \* bound on the pending notifications
  MaxDown,      \* bound on the requests on their way
  MaxTouches    \* bound on the changes the station's user makes

\* target is the field a setting writes, other stands for the protected ones.
Fields == {"target", "other"}

\* Plain settings, set_charge_cap (its protected fields come from the cache),
\* and the settings with a fresh baseline and a fresh readback.
AllKinds == {"plain", "capped", "checked"}

ASSUME KindsAssumption == Kinds \subseteq AllKinds
ASSUME BoundsAssumption ==
  /\ Rounds \in Nat \ {0} /\ Attempts \in Nat \ {0} /\ MaxUpdates \in Nat \ {0}
  /\ MaxDown \in Nat \ {0} /\ MaxInbox \in Nat /\ MaxTouches \in Nat

VARIABLES
  runner,       \* where _run_device is; while it is serving the monitor is in
                \* _monitors and the station's status is connected
  link,         \* the GATT connection is up
  session,      \* replies of the negotiation handled
  verdict,      \* _negotiation_done and _connect_error
  inbox,        \* notifications not handled yet
  cache,        \* metrics: the latest value of each field, or None
  since,        \* fields reported after the setting's latest baseline
  updates,      \* queue of updates: its length
  rejection,    \* a rejection of the write is in the queue of responses
  setting,      \* the setting applied
  control,      \* where it is; idle when there is none
  expected,     \* the values that confirm it, None before they are known
  attempt,      \* status requests of _write_setting so far
  result,       \* of the last setting: None, "ok" or "error"
  station,      \* the values the station has stored
  down,         \* requests on their way to the station
  owed,         \* the station owes a reply of the negotiation
  arrived,      \* history: the write has reached the station
  held,         \* history: expected values the station held since then
  clean,        \* history: no report made before it arrived is still to come
  refused,      \* history: the station answered this write with a rejection
  touches

linkVars == <<link, down, owed>>
feedVars == <<session, verdict, inbox>>
dataVars == <<cache, since, updates, rejection>>
ctlVars == <<setting, control, expected, attempt, result>>
worldVars == <<station, touches>>
histVars == <<arrived, held, clean, refused>>
vars == <<runner, linkVars, feedVars, dataVars, ctlVars, worldVars, histVars>>

Contents == [Fields -> Values]
Expectations == [{"target"} -> Values] \cup Contents
ASSUME ValuesAssumption ==
  Values # {} /\ None \notin Expectations \cup {"ok", "error", "ready", "failed"}
\* The values of a field are only compared with one another: which of them the
\* station starts with makes no difference.
FirstValue == CHOOSE v \in Values : TRUE
Status == [what |-> "status"]
Write(v) == [what |-> "write", value |-> v, mine |-> TRUE]
Packets == {Status} \cup [what : {"write"}, value : Values, mine : BOOLEAN]
Waiting == {"fill", "base", "reply", "readback"}
Reports == [what : {"report"}, has : SUBSET Fields \ {{}}, of : Contents]
Signals == {[what |-> w] : w \in {"step", "garbled", "rejected"}}

\* SolixMonitor.connected, for the monitor the setting uses.
Connected == link /\ runner = "serving"

-----------------------------------------------------------------------------
Init ==
  /\ runner = "connect"
  /\ link = FALSE /\ down = <<>> /\ owed = FALSE
  /\ session = 0 /\ verdict = None /\ inbox = <<>>
  /\ cache = [f \in Fields |-> None] /\ since = {} /\ updates = 0 /\ rejection = FALSE
  /\ setting = None /\ control = "idle" /\ expected = None /\ attempt = 0 /\ result = None
  /\ station = [f \in Fields |-> FirstValue] /\ touches = 0
  /\ arrived = FALSE /\ held = {} /\ clean = FALSE /\ refused = FALSE

-----------------------------------------------------------------------------
(* _run_device and connect(). *)

\* The client connects, subscribes and starts the negotiation; any of the
\* three may fail, with or without a link to close.
Connect ==
  /\ runner = "connect"
  /\ \/ runner' = "delay" /\ UNCHANGED linkVars
     \/ runner' = "closing" /\ link' = TRUE /\ UNCHANGED <<down, owed>>
     \/ runner' = "negotiate" /\ link' = TRUE /\ owed' = TRUE /\ UNCHANGED down
  /\ UNCHANGED <<feedVars, dataVars, ctlVars, worldVars, histVars>>

\* disconnect(): the responses are dropped and the pending notification tasks
\* cancelled.  on: where the
\* unsubscription is awaited, or the pause before the next attempt.
Disconnect(on) ==
  /\ runner' = IF link THEN on ELSE "delay"
  /\ inbox' = <<>> /\ verdict' = None /\ rejection' = FALSE
  /\ UNCHANGED session

\* connect() ends with the verdict of the negotiation, or after 25 s.
Negotiated ==
  /\ runner = "negotiate"
  /\ \/ verdict = "ready" /\ runner' = "serving" /\ UNCHANGED <<feedVars, rejection>>
     \/ verdict # "ready" /\ Disconnect("closing")
  /\ UNCHANGED <<linkVars, cache, since, updates, ctlVars, worldVars, histVars>>

\* Mutant of Watch: the lost link is not looked at.
WatchTelemetry ==
  /\ runner = "serving" /\ link
  /\ \/ Len(down) < MaxDown /\ down' = Append(down, Status) /\ UNCHANGED <<runner, feedVars, rejection>>
     \/ Disconnect("leaving") /\ UNCHANGED down
  /\ UNCHANGED <<link, owed, cache, since, updates, ctlVars, worldVars, histVars>>

\* Every 30 s: the connection is looked at, a station that was silent is asked
\* for its status, which fails when the link does.
Watch ==
  /\ runner = "serving"
  /\ \/ link /\ Len(down) < MaxDown /\ down' = Append(down, Status) /\ UNCHANGED <<runner, feedVars, rejection>>
     \/ Disconnect("leaving") /\ UNCHANGED down
  /\ UNCHANGED <<link, owed, cache, since, updates, ctlVars, worldVars, histVars>>

\* The rest of disconnect().  An exception of BleakClient.stop_notify(), as when
\* the link is lost before it returns, is caught when connect() called it, and
\* ends the task when the finally clause did.
Closed ==
  /\ runner \in {"closing", "leaving"}
  /\ \/ runner' = "delay"
     \/ runner = "leaving" /\ runner' = "dead"
  /\ link' = FALSE /\ down' = <<>> /\ owed' = FALSE /\ inbox' = <<>>
  /\ UNCHANGED <<session, verdict, dataVars, ctlVars, worldVars, histVars>>

\* After reconnect_delay, with a new monitor.
NextMonitor ==
  /\ runner = "delay" /\ control = "idle"
  /\ runner' = "connect"
  /\ link' = FALSE /\ down' = <<>> /\ owed' = FALSE
  /\ session' = 0 /\ verdict' = None /\ inbox' = <<>>
  /\ cache' = [f \in Fields |-> None] /\ since' = {} /\ updates' = 0 /\ rejection' = FALSE
  /\ UNCHANGED <<ctlVars, worldVars, histVars>>

-----------------------------------------------------------------------------
(* _handle(): one notification. *)

\* The reply of the negotiation is answered; a write that fails leaves the
\* negotiation where it is.
HandleStep ==
  /\ session' = IF session < Rounds THEN session + 1 ELSE session
  /\ \/ UNCHANGED <<verdict, owed, down>>
     \/ /\ link /\ runner = "negotiate"
        /\ owed' = (session' < Rounds)
        /\ IF session' < Rounds THEN UNCHANGED <<verdict, down>>
           ELSE verdict' = "ready" /\ down' = Append(down, Status)
  /\ UNCHANGED dataVars

\* The monitor keeps the error; only connect() looks at it.
HandleGarbled ==
  /\ verdict' = "failed"
  /\ UNCHANGED <<session, owed, down, dataVars>>

HandleReport(m) ==
  /\ cache' = [f \in Fields |-> IF f \in m.has THEN m.of[f] ELSE cache[f]]
  /\ since' = since \cup m.has
  /\ updates' = IF updates < MaxUpdates THEN updates + 1 ELSE updates
  /\ UNCHANGED <<session, verdict, owed, down, rejection>>

HandleRejection ==
  /\ rejection' = TRUE
  /\ UNCHANGED <<session, verdict, owed, down, cache, since, updates>>

Handle ==
  /\ inbox # <<>>
  /\ LET m == Head(inbox) IN
       \/ m.what = "step" /\ HandleStep
       \/ m.what = "garbled" /\ HandleGarbled
       \/ m.what = "report" /\ HandleReport(m)
       \/ m.what = "rejected" /\ HandleRejection
  /\ inbox' = Tail(inbox)
  /\ UNCHANGED <<runner, link, ctlVars, worldVars, histVars>>

-----------------------------------------------------------------------------
(* apply_setting(). *)

ControlEnds(r) ==
  /\ control' = "idle" /\ result' = r
  /\ setting' = None /\ expected' = None /\ attempt' = 0
  /\ arrived' = FALSE /\ held' = {} /\ clean' = FALSE /\ refused' = FALSE

\* request_status() after noting the baseline of field revisions.
AskStatus(next) ==
  /\ down' = Append(down, Status) /\ control' = next
  /\ UNCHANGED <<setting, expected, attempt, result, histVars>>

\* No report is on its way that could be taken for an answer to a write.
NoneToCome == \A i \in DOMAIN inbox : inbox[i].what # "report"

\* Mutant of StartWrite: the baseline of the revisions is not renewed.
StartWriteAgain(values) ==
  /\ updates' = 0 /\ rejection' = FALSE /\ UNCHANGED since
  /\ control' = "pause" /\ expected' = values
  /\ clean' = NoneToCome

\* _write_setting() up to its first pause: the queues are drained and the
\* baseline of the revisions is taken before the packet is written.
StartWrite(values) ==
  /\ updates' = 0 /\ rejection' = FALSE /\ since' = {}
  /\ control' = "pause" /\ expected' = values
  /\ clean' = NoneToCome

Disowned(p) == IF p.what = "write" THEN [p EXCEPT !.mine = FALSE] ELSE p

\* A new setting; a write of an earlier one may still be on its way.
StartControl ==
  /\ control = "idle" /\ Connected /\ Len(down) < MaxDown
  /\ \E s \in [kind : Kinds, value : Values] :
       LET request == IF s.kind = "plain" \/ (s.kind = "capped" /\ cache["other"] # None)
                      THEN Write(s.value) ELSE Status
           known == IF s.kind = "plain" THEN [target |-> s.value]
                    ELSE [target |-> s.value, other |-> cache["other"]] IN
       /\ setting' = s
       /\ IF request = Status
          THEN /\ control' = IF s.kind = "capped" THEN "fill" ELSE "base"
               /\ since' = {} /\ UNCHANGED <<expected, updates, rejection, clean>>
          ELSE StartWrite(known)
       /\ down' = Append([i \in DOMAIN down |-> Disowned(down[i])], request)
  /\ attempt' = 0 /\ result' = None
  /\ UNCHANGED <<arrived, held, refused>>
  /\ UNCHANGED <<runner, link, owed, feedVars, cache, worldVars>>

\* The baseline is there: any update for set_charge_cap, a report of every
\* field after the request for the others.  The write may raise, as when the
\* link is lost, and a baseline that lacks a field is refused.
Baseline ==
  /\ \/ control = "fill" /\ updates > 0
     \/ control = "base" /\ since = Fields
  /\ \/ /\ Connected /\ cache["other"] # None /\ Len(down) < MaxDown
        /\ StartWrite([target |-> setting.value, other |-> cache["other"]])
        /\ down' = Append(down, Write(setting.value))
        /\ UNCHANGED <<setting, attempt, result, arrived, held, refused>>
     \/ ControlEnds("error") /\ UNCHANGED <<down, since, updates, rejection>>
  /\ UNCHANGED <<runner, link, owed, feedVars, cache, worldVars>>

\* The loops that wait for a fresh report of every field take updates off the
\* queue until the report is complete.
SkipUpdate ==
  /\ control \in {"base", "readback"} /\ since # Fields /\ updates > 0
  /\ updates' = updates - 1
  /\ UNCHANGED <<runner, linkVars, feedVars, cache, since, rejection, ctlVars, worldVars, histVars>>

\* 0.5 s later: check_reply() and the next status request.
Poll ==
  /\ control = "pause"
  /\ \/ ~rejection /\ Connected /\ Len(down) < MaxDown /\ AskStatus("reply")
     \/ ControlEnds("error") /\ UNCHANGED down
  /\ UNCHANGED <<runner, link, owed, feedVars, dataVars, worldVars>>

\* The expected values, all reported after the baseline of the write.
Confirmed == DOMAIN expected \subseteq since /\ \A f \in DOMAIN expected : cache[f] = expected[f]

\* Mutant of NextAttempt: one attempt too many.
NextAttemptBeyond ==
  IF attempt < Attempts
  THEN control' = "pause" /\ attempt' = attempt + 1 /\ UNCHANGED <<setting, expected, result, down, since, histVars>>
  ELSE ControlEnds("error") /\ UNCHANGED <<down, since>>

\* The next attempt of _write_setting, or its timeout.
NextAttempt ==
  IF attempt + 1 < Attempts
  THEN control' = "pause" /\ attempt' = attempt + 1 /\ UNCHANGED <<setting, expected, result, down, since, histVars>>
  ELSE ControlEnds("error") /\ UNCHANGED <<down, since>>

\* wait_for_update() returns: check_reply() and the comparison.  On Prime
\* firmware the checked settings are read back once more.
Update ==
  /\ control = "reply" /\ updates > 0
  /\ updates' = updates - 1
  /\ rejection' = FALSE
  /\ IF rejection THEN ControlEnds("error") /\ UNCHANGED <<down, since>>
     ELSE IF ~Confirmed THEN NextAttempt
     ELSE \/ setting.kind = "checked" /\ Connected /\ Len(down) < MaxDown /\ AskStatus("readback") /\ since' = {}
          \/ setting.kind = "checked" /\ ControlEnds("error") /\ UNCHANGED <<down, since>>
          \/ ControlEnds("ok") /\ UNCHANGED <<down, since>>
  /\ UNCHANGED <<runner, link, owed, feedVars, cache, worldVars>>

\* The fresh readback is complete and is compared with the baseline.
Readback ==
  /\ control = "readback" /\ since = Fields
  /\ ControlEnds(IF cache = expected THEN "ok" ELSE "error")
  /\ UNCHANGED <<runner, linkVars, feedVars, dataVars, worldVars>>

\* Mutant of NoUpdate: the wait has no timeout.
WaitForEver == FALSE

\* No update within 5 s (10 s for a baseline or a readback).
NoUpdate ==
  /\ control \in Waiting /\ (control = "reply" => updates = 0)
  /\ IF control = "reply" /\ ~rejection THEN NextAttempt
     ELSE ControlEnds("error") /\ UNCHANGED <<down, since>>
  /\ UNCHANGED <<runner, link, owed, feedVars, cache, updates, rejection, worldVars>>

-----------------------------------------------------------------------------
(* The station, its user and the radio. *)

Notify(m) == Len(inbox) < MaxInbox /\ inbox' = Append(inbox, m)

\* It answers the negotiation, sometimes with what cannot be decrypted.
NegotiateReply ==
  /\ link /\ owed
  /\ \E w \in {"step", "garbled"} : Notify([what |-> w])
  /\ owed' = FALSE
  /\ UNCHANGED <<runner, link, down, session, verdict, dataVars, ctlVars, worldVars, histVars>>

\* The fields in which a station that stores s is as expected.
Met(s) == IF expected = None THEN {} ELSE {f \in DOMAIN expected : s[f] = expected[f]}

\* A report, asked for or of its own accord, of some of the fields.
Report ==
  /\ link /\ session = Rounds
  /\ \E has \in SUBSET Fields \ {{}} : Notify([what |-> "report", has |-> has, of |-> station])
  /\ down' = IF down # <<>> /\ Head(down) = Status THEN Tail(down) ELSE down
  /\ clean' = (clean /\ arrived)
  /\ UNCHANGED <<runner, link, owed, session, verdict, dataVars, ctlVars, worldVars, arrived, held, refused>>

\* It applies the write, ignores it, or rejects it.
ApplyWrite ==
  /\ link /\ down # <<>> /\ Head(down) # Status
  /\ LET p == Head(down)
         own == p.mine /\ control # "idle" IN
     /\ \/ station' \in {station, [station EXCEPT !["target"] = p.value]} /\ UNCHANGED <<inbox, refused>>
        \/ Notify([what |-> "rejected"]) /\ refused' = (refused \/ own) /\ UNCHANGED station
     /\ arrived' = (arrived \/ own)
     /\ held' = IF arrived' THEN held \cup Met(station') ELSE held
  /\ down' = Tail(down)
  /\ UNCHANGED <<runner, link, owed, session, verdict, dataVars, ctlVars, touches, clean>>

\* Its user changes a setting.
Touch ==
  /\ touches < MaxTouches /\ control # "idle"
  /\ station' \in Contents \ {station}
  /\ touches' = touches + 1
  /\ held' = IF arrived THEN held \cup Met(station') ELSE held
  /\ UNCHANGED <<runner, linkVars, feedVars, dataVars, ctlVars, arrived, clean, refused>>

\* The link is lost, with the requests on their way.
LinkLost ==
  /\ link
  /\ link' = FALSE /\ down' = <<>> /\ owed' = FALSE
  /\ UNCHANGED <<runner, feedVars, dataVars, ctlVars, worldVars, histVars>>

-----------------------------------------------------------------------------
Task == Connect \/ Negotiated \/ Closed \/ NextMonitor
ControlStep == Baseline \/ SkipUpdate \/ Poll \/ Update \/ Readback \/ NoUpdate
Next ==
  \/ Task \/ Watch \/ ControlStep \/ Handle \/ StartControl
  \/ NegotiateReply \/ Report \/ ApplyWrite \/ Touch \/ LinkLost

Spec == Init /\ [][Next]_vars

\* The event loop runs its tasks and fires its timers; the station, its user
\* and the radio do what they like.
FairSpec ==
  /\ Spec
  /\ WF_vars(Task) /\ WF_vars(Handle)
  /\ WF_vars(~link /\ Watch)
  /\ WF_vars(Baseline \/ Poll \/ Update \/ Readback \/ NoUpdate)
-----------------------------------------------------------------------------
(* Properties. *)

TypeOK ==
  /\ runner \in {"connect", "negotiate", "serving", "closing", "leaving", "delay", "dead"}
  /\ link \in BOOLEAN /\ owed \in BOOLEAN
  /\ down \in Seq(Packets) /\ Len(down) <= MaxDown
  /\ session \in 0..Rounds /\ verdict \in {None, "ready", "failed"}
  /\ inbox \in Seq(Reports \cup Signals) /\ Len(inbox) <= MaxInbox
  /\ cache \in [Fields -> Values \cup {None}]
  /\ since \in SUBSET Fields /\ updates \in 0..MaxUpdates /\ rejection \in BOOLEAN
  /\ setting \in [kind : Kinds, value : Values] \cup {None}
  /\ control \in Waiting \cup {"idle", "pause"}
  /\ expected \in Expectations \cup {None}
  /\ attempt \in 0..Attempts-1 /\ result \in {None, "ok", "error"}
  /\ station \in Contents /\ touches \in 0..MaxTouches
  /\ arrived \in BOOLEAN /\ held \in SUBSET Fields /\ clean \in BOOLEAN /\ refused \in BOOLEAN

\* A setting that is confirmed was really taken over: after the write reached
\* the station, each expected value was one the station held, and the station
\* had not rejected the write (the field revisions and check_reply() of
\* _write_setting, the fresh readbacks).  Excused: a report made before the
\* write reached the station was still on its way when it was written.  A
\* rejection is dropped with the connection; the value is the right one then.
SettingWasHeld ==
  [][control # "idle" /\ result' = "ok" /\ clean =>
       /\ DOMAIN expected \subseteq held
       /\ refused => runner # "serving"]_vars

\* A link that is lost is noticed, and whatever fails, the service connects
\* again (_run_device).  Excused is the task that ended with the exception of
\* its own finally clause.
Reconnects == ~Connected ~> Connected \/ runner \in {"connect", "dead"}

\* Every setting ends, also when the link is lost or the station keeps silent.
SettingEnds == control # "idle" ~> control = "idle"
=============================================================================
