----------------------------- MODULE TouControl -----------------------------
(***************************************************************************)
(* One Time-of-Use control of LocalMqttServer, from its baseline read to   *)
(* its result (python/solix_link/mqtt_intercept.py): set_tou_plan, which   *)
(* stores or activates a plan, return_to_grid and set_backup_reserve.      *)
(*                                                                         *)
(* _control_lock keeps other controls out, so the station is changed only  *)
(* by this one and by its own user.  Every step is a request() on the      *)
(* connection captured at the start; module NativeLink models request()    *)
(* itself, here it has its outcomes: a reply, a rejection, an unusable     *)
(* reply, a timeout or a cancellation (both close the connection, except   *)
(* a cancellation in the queue of the lock), a lost connection, or a       *)
(* connection that is closed already, on which nothing is sent.            *)
(***************************************************************************)
EXTENDS Integers

CONSTANTS
  None,
  Kinds,        \* the operations started: a subset of AllKinds
  Plans,        \* Time-of-Use plans
  Empty,        \* the plan without a period
  AllDay,       \* the plan of one off-peak period, 0 to 24 h
  Reserves,     \* backup reserves
  Kepts         \* states of everything _tou_protected compares

AllKinds == {"store", "activate", "grid", "reserve"}

ASSUME KindsAssumption == Kinds \subseteq AllKinds
ASSUME PlansAssumption == Empty \in Plans /\ AllDay \in Plans /\ Empty # AllDay

VARIABLES
  station,      \* what the station has stored: mode, plan, reserve, kept
  op,           \* the operation and its arguments
  step,         \* the request it is at; "done" when it has ended
  stage,        \* of that request: queued (for the lock), sent, or asleep
  link,         \* the captured connection: open, or what closed it
  wire,         \* the request sent and not yet answered
  reply,        \* the reply that has settled the request
  before,       \* the baseline, None until it is read and complete
  count,        \* consecutive grid samples in this _wait_grid
  expired,      \* the deadline of this _wait_grid has passed
  failure,      \* the exception to raise at the end
  outcome,      \* None while running, then "ok" or the exception
  touched,      \* history: the user changed the station meanwhile
  excused,      \* history: the undoing write could not take effect
  proof         \* history: consecutive grid reports since the plan was cleared

netVars  == <<link, wire, reply>>
opVars   == <<step, stage, count, expired, failure, outcome>>
histVars == <<touched, excused, proof>>
vars == <<station, op, before, netVars, opVars, histVars>>

Standard == 0
TimeOfUse == 1
Modes == 0..2       \* 2: a usage mode that set_tou_plan does not support

Station == [mode : Modes, plan : Plans, reserve : Reserves, kept : Kepts]
Replies == [result : {"ok", "rejected", "unusable"}, mode : Modes, plan : Plans,
            reserve : Reserves, kept : Kepts, flow : {"grid", "other"}, tariff : {0, 1}]
Waits == {"grid1", "grid2"}
Writes == {"store", "activate", "restore", "select", "clear", "reserve"}
Steps == Writes \cup Waits \cup {"baseline", "ready", "stored", "activated", "restored",
                                 "selected", "cleared", "reserved", "done"}
Undoing == {"restore", "clear"}
Exceptions == {"error", "flow", "cancelled"}

ASSUME NoneAssumption == None \notin Exceptions \cup {"ok"} \cup Station \cup Replies

-----------------------------------------------------------------------------
Init ==
  /\ station \in Station
  /\ op \in [kind : Kinds, plan : Plans, reserve : Reserves]
  /\ op.kind = "activate" => op.plan # Empty    \* checked before any I/O
  /\ step = "baseline" /\ stage = "queued"
  /\ link = "open" /\ wire = None /\ reply = None
  /\ before = None
  /\ count = 0 /\ expired = FALSE
  /\ failure = None /\ outcome = None
  /\ touched = FALSE /\ excused = FALSE /\ proof = 0

\* The request of each step: a query, or the fields a write sets.
Request ==
  CASE step = "store"    -> [mode |-> Standard, plan |-> op.plan]
    [] step = "activate" -> [mode |-> TimeOfUse, plan |-> op.plan]
    [] step = "restore"  -> [mode |-> before.mode, plan |-> before.plan]
    [] step = "select"   -> [mode |-> TimeOfUse, plan |-> AllDay]
    [] step = "clear"    -> [mode |-> Standard, plan |-> Empty]
    [] step = "reserve"  -> [reserve |-> op.reserve]
    [] step = "ready"    -> [query |-> "readiness"]
    [] OTHER             -> [query |-> "status"]

\* commands.tou_plan() refuses to enable a plan without a period.
Sendable == ~(step = "restore" /\ before.mode = TimeOfUse /\ before.plan = Empty)

-----------------------------------------------------------------------------
(* The control flow of the operations. *)

\* The next request; _wait_grid starts its count and its deadline afresh.
GoTo(next) ==
  /\ step' = next /\ stage' = "queued"
  /\ count' = 0 /\ expired' = FALSE
  /\ UNCHANGED <<failure, outcome>>

EndsWith(result) ==
  /\ step' = "done" /\ stage' = "idle"
  /\ outcome' = result
  /\ UNCHANGED <<count, expired, failure>>

\* Mutant of OnFailure: only the failure of a write is undone, not that of its
\* confirmation.
OnWriteFailure(s) ==
  CASE s \in {"store", "activate"} -> "restore"
    [] s = "select"                -> "clear"
    [] OTHER                       -> "done"

\* Where an exception raised at step s leads: set_tou_plan restores the old
\* plan once it tried to write, return_to_grid clears once it has a baseline.
OnFailure(s) ==
  CASE s \in {"store", "stored", "activate", "activated"} -> "restore"
    [] s \in {"select", "selected", "grid1"}              -> "clear"
    [] s = "ready" /\ op.kind = "grid"                    -> "clear"
    [] OTHER                                              -> "done"

\* The exception why is raised at step s.  While the plan is undone only a
\* cancellation replaces the exception that is already on its way.
FailsAt(s, why) ==
  LET first == IF failure = None \/ why = "cancelled" THEN why ELSE failure
      next  == OnFailure(s)
  IN /\ failure' = first
     /\ step' = next
     /\ stage' = IF next = "done" THEN "idle" ELSE "queued"
     /\ outcome' = IF next = "done" THEN first ELSE None
     /\ count' = 0 /\ expired' = FALSE

Fails(why) == FailsAt(step, why)

\* set_tou_plan, return_to_grid or set_backup_reserve after the baseline r:
\* fit stands for the checks of _tou_ready on r, and of the reserve's range.
AfterBaseline(r, fit) ==
  CASE op.kind = "reserve" -> IF fit THEN GoTo("reserve") ELSE FailsAt("baseline", "error")
    [] op.kind = "grid" ->
         IF r.flow = "grid" THEN GoTo("clear")
         ELSE IF fit THEN GoTo("ready") ELSE FailsAt("ready", "error")
    [] OTHER ->
         IF r.mode \notin {Standard, TimeOfUse} THEN FailsAt("baseline", "error")
         ELSE IF op.kind = "store" THEN GoTo("store")
         ELSE IF fit THEN GoTo("ready") ELSE FailsAt("baseline", "error")

\* _tou_protected and the reserve: what no plan write may change.
Preserved(r) == r.kept = before.kept /\ r.reserve = before.reserve

\* Mutants of Confirms: the mode, or the plan, is not compared.
ConfirmsPlanOnly(r, mode, plan) == Preserved(r) /\ r.plan = plan
ConfirmsModeOnly(r, mode, plan) == Preserved(r) /\ r.mode = mode

\* The checks of _write_tou on the report that follows its write.
Confirms(r, mode, plan) ==
  /\ Preserved(r)
  /\ r.mode = mode /\ r.plan = plan
  /\ mode = Standard => r.tariff = 0

\* The checks of set_backup_reserve.
ConfirmsReserve(r) ==
  /\ r.kept = before.kept
  /\ r.reserve = op.reserve /\ r.mode = before.mode /\ r.plan = before.plan

\* _write_tou returns to its caller, or raises.
AfterPlanWrite(confirmed) ==
  IF ~confirmed THEN Fails("error")
  ELSE CASE step = "stored" /\ op.kind = "activate" -> GoTo("activate")
         [] step = "selected" -> GoTo("grid1")
         [] step = "cleared" -> IF failure = None THEN GoTo("grid2") ELSE EndsWith(failure)
         [] OTHER -> EndsWith("ok")

\* Mutants of AfterSample: four samples are asked for, or other samples do not
\* interrupt the count.
AfterSampleOfFour(r) ==
  IF ~Preserved(r) THEN Fails("error")
  ELSE LET n == IF r.flow = "grid" THEN count + 1 ELSE 0 IN
       IF n > 3
       THEN IF step = "grid1" THEN GoTo("clear") ELSE EndsWith("ok")
       ELSE /\ count' = n /\ stage' = "asleep"
            /\ UNCHANGED <<step, expired, failure, outcome>>

AfterSampleCumulative(r) ==
  IF ~Preserved(r) THEN Fails("error")
  ELSE LET n == IF r.flow = "grid" THEN count + 1 ELSE count IN
       IF n >= 3
       THEN IF step = "grid1" THEN GoTo("clear") ELSE EndsWith("ok")
       ELSE /\ count' = n /\ stage' = "asleep"
            /\ UNCHANGED <<step, expired, failure, outcome>>

\* One sample of _wait_grid.
AfterSample(r) ==
  IF ~Preserved(r) THEN Fails("error")
  ELSE LET n == IF r.flow = "grid" THEN count + 1 ELSE 0 IN
       IF n >= 3
       THEN IF step = "grid1" THEN GoTo("clear") ELSE EndsWith("ok")
       ELSE /\ count' = n /\ stage' = "asleep"
            /\ UNCHANGED <<step, expired, failure, outcome>>

\* The code after a reply that request() returned.
AfterReply(r, fit) ==
  CASE step = "baseline"  -> AfterBaseline(r, fit)
    [] step = "ready"     -> IF ~fit THEN Fails("error")
                             ELSE GoTo(IF op.kind = "grid" THEN "select" ELSE "store")
    [] step = "store"     -> GoTo("stored")
    [] step = "activate"  -> GoTo("activated")
    [] step = "restore"   -> GoTo("restored")
    [] step = "select"    -> GoTo("selected")
    [] step = "clear"     -> GoTo("cleared")
    [] step = "reserve"   -> GoTo("reserved")
    [] step = "stored"    -> AfterPlanWrite(Confirms(r, Standard, op.plan))
    [] step = "activated" -> AfterPlanWrite(Confirms(r, TimeOfUse, op.plan))
    [] step = "selected"  -> AfterPlanWrite(Confirms(r, TimeOfUse, AllDay))
    [] step = "cleared"   -> AfterPlanWrite(Confirms(r, Standard, Empty))
    [] step = "reserved"  -> IF ConfirmsReserve(r) THEN EndsWith("ok") ELSE Fails("error")
    [] step = "restored"  -> EndsWith(failure)
    [] step \in Waits     -> AfterSample(r)

-----------------------------------------------------------------------------
(* The steps of the operation. *)

\* request() got the connection's lock and publishes.
Send ==
  /\ stage = "queued" /\ link = "open" /\ Sendable
  /\ wire' = Request /\ reply' = None
  /\ stage' = "sent"
  /\ UNCHANGED <<station, op, before, link, step, count, expired, failure, outcome, histVars>>

\* request() finds its connection closed, or the request cannot be built.
SendFails ==
  /\ stage = "queued" /\ (link # "open" \/ ~Sendable)
  /\ Fails("error")
  /\ excused' = (excused \/ ~Sendable)
  /\ UNCHANGED <<station, op, before, netVars, touched, proof>>

\* request() returns the reply, or raises for a rejection; an unusable status
\* report raises in _fresh_tou.
Resume ==
  /\ stage = "sent" /\ reply # None
  /\ IF reply.result = "ok" THEN \E fit \in BOOLEAN : AfterReply(reply, fit) ELSE Fails("error")
  /\ before' = IF step = "baseline" /\ reply.result = "ok"
               THEN [f \in {"mode", "plan", "reserve", "kept"} |-> reply[f]]
               ELSE before
  /\ reply' = None
  /\ UNCHANGED <<station, op, link, wire, histVars>>

\* request() gives up and closes the connection.
CloseLink(reason) ==
  /\ link' = IF link = "open" THEN reason ELSE link
  /\ wire' = None /\ reply' = None

\* An undoing write that a cancellation keeps from being sent or awaited.
CutShort == excused' = (excused \/ step \in Undoing)

\* Mutant of Silence: the reply is awaited for ever.
NoSilence == FALSE

\* No reply within 12 s.  _wait_grid takes any timeout for its own.
Silence ==
  /\ stage = "sent" /\ reply = None
  /\ CloseLink("silence")
  /\ Fails(IF step \in Waits THEN "flow" ELSE "error")
  /\ UNCHANGED <<station, op, before, histVars>>

\* _wait_grid gives its last request only the time that is left.
DeadlineInRequest ==
  /\ stage = "sent" /\ step \in Waits /\ expired
  /\ CloseLink("deadline")
  /\ Fails("flow")
  /\ UNCHANGED <<station, op, before, histVars>>

\* The connection was lost: close() fails the pending request.
Lost ==
  /\ stage = "sent" /\ reply = None /\ link # "open"
  /\ Fails("error")
  /\ UNCHANGED <<station, op, before, netVars, histVars>>

\* _wait_grid after its pause of at most 2 s: another sample, or the end.
Wake ==
  /\ stage = "asleep"
  /\ IF expired THEN Fails("flow")
     ELSE stage' = "queued" /\ UNCHANGED <<step, count, expired, failure, outcome>>
  /\ UNCHANGED <<station, op, before, netVars, histVars>>

\* The deadline of the control socket, or shutdown, cancels the operation.
Cancel ==
  /\ stage \in {"queued", "sent", "asleep"}
  /\ IF stage = "sent" THEN CloseLink("cancelled") ELSE UNCHANGED netVars
  /\ Fails("cancelled")
  /\ CutShort
  /\ UNCHANGED <<station, op, before, touched, proof>>

-----------------------------------------------------------------------------
(* The station, its user, the network and the clock. *)

\* A write sets the fields it names and no other.
Apply(s, r) == [f \in DOMAIN s |-> IF f \in DOMAIN r THEN r[f] ELSE s[f]]

\* The station answers: it may reject a request, acknowledge a write and
\* ignore it, or send a report that cannot be used.  A report shows what is
\* stored, and a power flow and a tariff that follow in their own time.
Answer(result, applied) ==
  /\ wire # None
  /\ LET write == "query" \notin DOMAIN wire
         stored == IF write /\ result = "ok" /\ applied THEN Apply(station, wire) ELSE station
     IN /\ applied => write /\ result = "ok"
        /\ station' = stored
        /\ \E flow \in {"grid", "other"}, tariff \in {0, 1} :
             /\ write => flow = "other" /\ tariff = 0
             /\ reply' = [result |-> result, mode |-> stored.mode, plan |-> stored.plan,
                          reserve |-> stored.reserve, kept |-> stored.kept,
                          flow |-> flow, tariff |-> tariff]
             /\ proof' = IF step = "clear" /\ applied THEN 0
                         ELSE IF write \/ result # "ok" THEN proof
                         ELSE IF flow # "grid" THEN 0
                         ELSE IF proof < 3 THEN proof + 1 ELSE 3
        /\ excused' = (excused \/ (step \in Undoing /\ ~applied))
  /\ wire' = None
  /\ UNCHANGED <<op, before, link, opVars, touched>>

\* Its user changes a setting (an output button, or another application).
Touch ==
  /\ ~touched /\ step # "done"
  /\ touched' = TRUE
  /\ station' \in Station \ {station}
  /\ UNCHANGED <<op, before, netVars, opVars, excused, proof>>

\* The connection is lost; a request in flight is lost with it.
LinkDrops ==
  /\ link = "open" /\ step # "done"
  /\ link' = "network" /\ wire' = None
  /\ UNCHANGED <<station, op, before, reply, opVars, histVars>>

DeadlinePasses ==
  /\ step \in Waits /\ ~expired
  /\ expired' = TRUE
  /\ UNCHANGED <<station, op, before, netVars, step, stage, count, failure, outcome, histVars>>

-----------------------------------------------------------------------------
OperationStep == Send \/ SendFails \/ Resume \/ Silence \/ DeadlineInRequest \/ Lost \/ Wake

Next ==
  \/ OperationStep \/ Cancel
  \/ \E result \in {"ok", "rejected", "unusable"}, applied \in BOOLEAN : Answer(result, applied)
  \/ Touch \/ LinkDrops \/ DeadlinePasses

Spec == Init /\ [][Next]_vars

\* The event loop runs the operation whenever it can go on, and its timers
\* fire.  The station need not answer.
FairSpec == Spec /\ WF_vars(OperationStep) /\ WF_vars(DeadlinePasses)
-----------------------------------------------------------------------------
(* Properties. *)

Wires == [query : {"status", "readiness"}] \cup [mode : Modes, plan : Plans]
           \cup [reserve : Reserves]

TypeOK ==
  /\ station \in Station
  /\ op \in [kind : Kinds, plan : Plans, reserve : Reserves]
  /\ step \in Steps
  /\ stage \in {"queued", "sent", "asleep", "idle"}
  /\ link \in {"open", "network", "silence", "deadline", "cancelled"}
  /\ wire = None \/ wire \in Wires
  /\ reply = None \/ reply \in Replies
  /\ before = None \/ before \in Station
  /\ count \in 0..2
  /\ expired \in BOOLEAN
  /\ failure \in {None} \cup Exceptions
  /\ outcome \in {None, "ok"} \cup Exceptions
  /\ touched \in BOOLEAN /\ excused \in BOOLEAN
  /\ proof \in 0..3

\* A control that reports success left in the station exactly what was asked
\* for, unless its user changed it meanwhile, although the station may
\* acknowledge a write and ignore it (the readbacks of _write_tou and
\* set_backup_reserve).
SuccessIsTrue ==
  outcome = "ok" /\ ~touched =>
    CASE op.kind = "store"    -> station.mode = Standard /\ station.plan = op.plan
      [] op.kind = "activate" -> station.mode = TimeOfUse /\ station.plan = op.plan
      [] op.kind = "grid"     -> station.mode = Standard /\ station.plan = Empty
      [] op.kind = "reserve"  -> station = [before EXCEPT !.reserve = op.reserve]

\* A plan control that fails wherever it likes undoes what it did as long as
\* the connection is there to do it: set_tou_plan restores the old mode and
\* plan, return_to_grid leaves Standard mode without a plan (the except and
\* finally clauses).  Excused: the undoing write was refused or ignored by
\* the station, could not be built, or was cancelled.
FailureIsUndone ==
  outcome \notin {None, "ok"} /\ before # None /\ link = "open" /\ ~touched /\ ~excused =>
    CASE op.kind \in {"store", "activate"} ->
           station.mode = before.mode /\ station.plan = before.plan
      [] op.kind = "grid" -> station.mode = Standard /\ station.plan = Empty
      [] OTHER -> TRUE

\* A plan is activated only where it was seen stored in Standard mode before,
\* so that the activating write changes the mode alone (set_tou_plan stores
\* first and activates after the readback).
ActivationChangesModeOnly ==
  [][step = "activate" /\ station' # station /\ ~touched'
       => station' = [station EXCEPT !.mode = TimeOfUse] /\ station.mode = Standard]_vars

\* return_to_grid reports success only after three consecutive reports of
\* grid supply that the station made after the plan was cleared: the samples
\* that justified leaving the all-day plan never count again (_wait_grid).
GridIsProven == outcome = "ok" /\ op.kind = "grid" => proof = 3

\* Every control ends, whether the station answers or not (12 s for a reply,
\* the deadline of _wait_grid).
ControlEnds == <>(outcome # None)

\* What a comment of return_to_grid says, "Clear even when the first
\* confirmation fails", and test_grid_timeout_clears_plan checks: when grid
\* supply is not confirmed in time the plan is cleared all the same.  Excused
\* are a lost connection, a station that does not answer for 12 s, and an
\* undoing write that the station refused.
GridTimeoutClears ==
  outcome = "flow" /\ link \in {"open", "deadline"} /\ ~touched /\ ~excused =>
    station.mode = Standard /\ station.plan = Empty
=============================================================================
