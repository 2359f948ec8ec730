-------------------------- MODULE TouControlProofs --------------------------
(***************************************************************************)
(* What TouControl guarantees for any plans, reserves and protected        *)
(* settings: a control that succeeds left in the station what was asked    *)
(* for, one that fails undid what it did where it could, and grid supply   *)
(* was seen three times after the plan was cleared.                        *)
(***************************************************************************)
EXTENDS TouControl, TLAPS

-----------------------------------------------------------------------------
(* The inductive invariant. *)

\* Which operation is at which step, and what it carries there.
Flow ==
  /\ (outcome = None <=> step # "done") /\ (stage = "idle" <=> step = "done")
  /\ stage = "asleep" => step \in Waits
  /\ step = "baseline" => before = None
  /\ step \notin {"baseline", "done"} => before \in Station
  /\ step \in {"store", "stored", "restore", "restored"} => op.kind \in {"store", "activate"}
  /\ step \in {"activate", "activated"} => op.kind = "activate"
  /\ step = "ready" => op.kind \in {"activate", "grid"}
  /\ step \in {"select", "selected", "clear", "cleared"} \cup Waits => op.kind = "grid"
  /\ step \in {"reserve", "reserved"} => op.kind = "reserve"
  /\ failure # None => step \in {"restore", "restored", "clear", "cleared", "done"}
  /\ step \in {"restore", "restored"} => failure # None

\* One request at a time: on its way to the station, or answered.
OneRequest ==
  /\ wire # None => stage = "sent" /\ reply = None /\ link = "open" /\ wire = Request
  /\ reply # None => stage = "sent" /\ wire = None

\* Until the user interferes a reply shows what the station stores.
ReplyShows ==
  reply # None /\ ~touched =>
    /\ station.mode = reply.mode /\ station.plan = reply.plan
    /\ station.reserve = reply.reserve /\ station.kept = reply.kept

Restored == station.mode = before.mode /\ station.plan = before.plan
Cleared == station.mode = Standard /\ station.plan = Empty

\* Until the user interferes the operation knows, where it must, what the
\* station stores.
Mirrors ==
  ~touched =>
    /\ step = "ready" => Restored
    /\ step = "activate" /\ reply = None => station.mode = Standard /\ station.plan = op.plan
    /\ step = "grid2" => Cleared
    /\ ~excused =>
         /\ step = "restore" /\ reply # None => Restored
         /\ step = "restored" => Restored
         /\ step = "clear" /\ reply # None => Cleared
         /\ step = "cleared" => Cleared

\* The samples _wait_grid has counted after the plan was cleared.
CountProves ==
  step = "grid2" =>
    /\ reply = None => count <= proof
    /\ reply # None /\ reply.result = "ok" /\ reply.flow = "grid" => count < proof

IInv ==
  /\ TypeOK /\ Flow /\ OneRequest /\ ReplyShows /\ Mirrors /\ CountProves
  /\ SuccessIsTrue /\ FailureIsUndone /\ GridIsProven

-----------------------------------------------------------------------------
(* Requests and what the station does with them. *)

USE DEF Steps, Writes, Waits, Undoing, Exceptions, Modes, Standard, TimeOfUse, AllKinds

\* The request of a step is a query or sets a plan or the reserve.
LEMMA RequestType ==
  ASSUME TypeOK, Flow, step # "done"
  PROVE  /\ step \notin Writes => Request \in [query : {"status", "readiness"}]
         /\ step \in Writes \ {"reserve"} => Request \in [mode : Modes, plan : Plans]
         /\ step = "reserve" => Request \in [reserve : Reserves]
<1>1. CASE step \notin Writes
  BY <1>1 DEF Request
<1>2. CASE step = "reserve"
  BY <1>2 DEF Request, TypeOK
<1>3. CASE step = "restore"
  BY <1>3 DEF Request, TypeOK, Flow, Station
<1>4. CASE step \in {"store", "activate", "select", "clear"}
  BY <1>4, PlansAssumption DEF Request, TypeOK
<1> QED
  BY <1>1, <1>2, <1>3, <1>4

\* Only queries have the field "query".
LEMMA QueryOrWrite ==
  ASSUME NEW w
  PROVE  /\ w \in [query : {"status", "readiness"}] => "query" \in DOMAIN w
         /\ w \in [mode : Modes, plan : Plans] \cup [reserve : Reserves] => "query" \notin DOMAIN w
  OBVIOUS

\* A plan write sets the mode and the plan and nothing else.
LEMMA ApplyPlan ==
  ASSUME NEW s \in Station, NEW r \in [mode : Modes, plan : Plans]
  PROVE  /\ Apply(s, r) \in Station
         /\ Apply(s, r).mode = r.mode /\ Apply(s, r).plan = r.plan
         /\ Apply(s, r) = [s EXCEPT !.mode = r.mode, !.plan = r.plan]
<1>1. Apply(s, r) = [s EXCEPT !.mode = r.mode, !.plan = r.plan]
  BY DEF Apply, Station
<1>2. /\ Apply(s, r) \in Station
      /\ Apply(s, r).mode = r.mode /\ Apply(s, r).plan = r.plan
  BY DEF Apply, Station
<1> QED
  BY <1>1, <1>2

\* A write of the reserve keeps the station a station.
LEMMA ApplyReserve ==
  ASSUME NEW s \in Station, NEW r \in [reserve : Reserves]
  PROVE  Apply(s, r) \in Station
  BY DEF Apply, Station

-----------------------------------------------------------------------------
(* The steps. *)

\* The initial states satisfy the invariant.
LEMMA InitInv == Init => IInv
<1> SUFFICES ASSUME Init PROVE IInv
  OBVIOUS
<1>1. TypeOK
  <2>1. station \in Station /\ op \in [kind : Kinds, plan : Plans, reserve : Reserves]
    BY DEF Init
  <2>2. /\ step \in Steps /\ stage \in {"queued", "sent", "asleep", "idle"}
        /\ link \in {"open", "network", "silence", "deadline", "cancelled"}
    BY DEF Init
  <2>3. wire = None /\ reply = None /\ before = None /\ failure = None /\ outcome = None
    BY DEF Init
  <2>4. count \in 0..2 /\ proof \in 0..3
    BY DEF Init
  <2>5. expired \in BOOLEAN /\ touched \in BOOLEAN /\ excused \in BOOLEAN
    BY DEF Init
  <2> QED
    BY <2>1, <2>2, <2>3, <2>4, <2>5 DEF TypeOK
<1> QED
  BY <1>1, NoneAssumption DEF IInv, Init, Flow, OneRequest, ReplyShows, Mirrors, CountProves, SuccessIsTrue,
                   FailureIsUndone, GridIsProven

\* An exception leads to the undoing write or to the end.  If it is the end,
\* either there is nothing to undo or it is done, unless an undoing write was
\* not answered on an open link.
LEMMA FailureStep ==
  ASSUME IInv, NEW why \in Exceptions, Fails(why), step # "done",
         UNCHANGED <<station, op, before, touched, proof>>, wire' = None, reply' = None,
         link' \in {"open", "network", "silence", "deadline", "cancelled"}, excused' \in BOOLEAN,
         excused => excused', link # "open" => link' # "open",
         step \in Undoing => reply # None \/ link' # "open" \/ excused'
  PROVE  IInv'
<1> USE NoneAssumption
<1> DEFINE next == OnFailure(step)
           first == IF failure = None \/ why = "cancelled" THEN why ELSE failure
<1>0. TypeOK /\ Flow /\ Mirrors
  BY DEF IInv
<1>1. /\ failure' = first /\ step' = next /\ stage' = IF next = "done" THEN "idle" ELSE "queued"
      /\ outcome' = IF next = "done" THEN first ELSE None
      /\ count' = 0 /\ expired' = FALSE
  BY DEF Fails, FailsAt
<1>2. first \in Exceptions
  BY <1>0 DEF TypeOK
<1>3. \/ next = "restore" /\ op.kind \in {"store", "activate"} /\ before \in Station
      \/ next = "clear" /\ op.kind = "grid" /\ before \in Station
      \/ next = "done"
  BY <1>0 DEF OnFailure, Flow
<1> HIDE DEF next, first
<1>4. TypeOK'
  <2>1. station' \in Station /\ op' \in [kind : Kinds, plan : Plans, reserve : Reserves]
    BY <1>0 DEF TypeOK
  <2>2. /\ step' \in Steps /\ stage' \in {"queued", "sent", "asleep", "idle"}
        /\ link' \in {"open", "network", "silence", "deadline", "cancelled"}
    BY <1>1, <1>3
  <2>3. wire' = None /\ reply' = None /\ (before' = None \/ before' \in Station)
    BY <1>0 DEF TypeOK
  <2>6. failure' \in {None} \cup Exceptions /\ outcome' \in {None, "ok"} \cup Exceptions
    BY <1>1, <1>2
  <2>4. count' \in 0..2 /\ proof' \in 0..3
    BY <1>0, <1>1 DEF TypeOK
  <2>5. expired' \in BOOLEAN /\ touched' \in BOOLEAN /\ excused' \in BOOLEAN
    BY <1>0, <1>1 DEF TypeOK
  <2> QED
    BY <2>1, <2>2, <2>3, <2>4, <2>5, <2>6 DEF TypeOK
<1>5. Flow'
  BY <1>0, <1>1, <1>2, <1>3 DEF Flow
<1>6. OneRequest' /\ ReplyShows' /\ CountProves'
  BY <1>1, <1>3 DEF OneRequest, ReplyShows, CountProves
<1>7. Mirrors'
  BY <1>1, <1>3 DEF Mirrors
<1>8. SuccessIsTrue' /\ GridIsProven'
  BY <1>1, <1>2 DEF SuccessIsTrue, GridIsProven
<1>9. FailureIsUndone'
  <2> SUFFICES ASSUME next = "done", before # None, link' = "open", ~touched, ~excused'
               PROVE  /\ op.kind \in {"store", "activate"} => Restored
                      /\ op.kind = "grid" => Cleared
    BY <1>1 DEF FailureIsUndone, Restored, Cleared
  <2>1. step \notin {"baseline", "store", "stored", "activate", "activated", "select", "selected", "grid1"}
    BY <1>0 DEF Flow, OnFailure, next
  <2>2. ~(step = "ready" /\ op.kind = "grid")
    BY DEF OnFailure, next
  <2>3. CASE step \in {"ready", "restore", "restored"}
    BY <1>0, <2>2, <2>3 DEF Mirrors, Flow
  <2>4. CASE step \in {"clear", "cleared", "grid2"}
    BY <1>0, <2>4 DEF Mirrors, Flow
  <2>5. CASE step \in {"reserve", "reserved"}
    BY <1>0, <2>5 DEF Flow
  <2> QED
    BY <1>0, <2>1, <2>3, <2>4, <2>5 DEF TypeOK
<1> QED
  BY <1>4, <1>5, <1>6, <1>7, <1>8, <1>9 DEF IInv

\* The operation goes on to its next request.
LEMMA GoToStep ==
  ASSUME IInv, NEW next \in Steps \ {"done", "baseline"}, GoTo(next),
         UNCHANGED <<station, op, link, histVars>>, wire' = None, reply' = None,
         before' \in Station, Flow', Mirrors'
  PROVE  IInv'
<1> USE NoneAssumption
<1>0. TypeOK /\ Flow
  BY DEF IInv
<1>1. /\ step' = next /\ stage' = "queued" /\ count' = 0 /\ expired' = FALSE
      /\ UNCHANGED <<failure, outcome, touched, excused, proof>>
  BY DEF GoTo, histVars
<1>2. TypeOK'
  <2>1. station' \in Station /\ op' \in [kind : Kinds, plan : Plans, reserve : Reserves]
    BY <1>0 DEF TypeOK
  <2>2. /\ step' \in Steps /\ stage' \in {"queued", "sent", "asleep", "idle"}
        /\ link' \in {"open", "network", "silence", "deadline", "cancelled"}
    BY <1>0, <1>1 DEF TypeOK
  <2>3. wire' = None /\ reply' = None /\ before' \in Station
    OBVIOUS
  <2>4. failure' \in {None} \cup Exceptions /\ outcome' \in {None, "ok"} \cup Exceptions
    BY <1>0, <1>1 DEF TypeOK
  <2>5. count' \in 0..2 /\ proof' \in 0..3
    BY <1>0, <1>1 DEF TypeOK
  <2>6. expired' \in BOOLEAN /\ touched' \in BOOLEAN /\ excused' \in BOOLEAN
    BY <1>0, <1>1 DEF TypeOK
  <2> QED
    BY <2>1, <2>2, <2>3, <2>4, <2>5, <2>6 DEF TypeOK
<1>3. OneRequest' /\ ReplyShows'
  BY DEF OneRequest, ReplyShows
<1>4. CountProves'
  BY <1>1, <1>2 DEF CountProves, TypeOK
<1>5. outcome' = None
  BY <1>1 DEF Flow
<1>6. SuccessIsTrue' /\ FailureIsUndone' /\ GridIsProven'
  BY <1>5 DEF SuccessIsTrue, FailureIsUndone, GridIsProven
<1> QED
  BY <1>2, <1>3, <1>4, <1>6 DEF IInv

\* The operation ends.
LEMMA EndStep ==
  ASSUME IInv, NEW result \in {"ok"} \cup Exceptions, EndsWith(result), step # "baseline",
         UNCHANGED <<station, op, before, link, histVars>>, wire' = None, reply' = None,
         SuccessIsTrue', FailureIsUndone', GridIsProven'
  PROVE  IInv'
<1> USE NoneAssumption
<1>0. TypeOK /\ Flow
  BY DEF IInv
<1>1. /\ step' = "done" /\ stage' = "idle" /\ outcome' = result
      /\ UNCHANGED <<count, expired, failure, touched, excused, proof>>
  BY DEF EndsWith, histVars
<1>2. TypeOK'
  <2>1. station' \in Station /\ op' \in [kind : Kinds, plan : Plans, reserve : Reserves]
    BY <1>0 DEF TypeOK
  <2>2. /\ step' \in Steps /\ stage' \in {"queued", "sent", "asleep", "idle"}
        /\ link' \in {"open", "network", "silence", "deadline", "cancelled"}
    BY <1>0, <1>1 DEF TypeOK
  <2>3. wire' = None /\ reply' = None /\ (before' = None \/ before' \in Station)
    BY <1>0 DEF TypeOK
  <2>4. failure' \in {None} \cup Exceptions /\ outcome' \in {None, "ok"} \cup Exceptions
    BY <1>0, <1>1 DEF TypeOK
  <2>5. count' \in 0..2 /\ proof' \in 0..3
    BY <1>0, <1>1 DEF TypeOK
  <2>6. expired' \in BOOLEAN /\ touched' \in BOOLEAN /\ excused' \in BOOLEAN
    BY <1>0, <1>1 DEF TypeOK
  <2> QED
    BY <2>1, <2>2, <2>3, <2>4, <2>5, <2>6 DEF TypeOK
<1>3. Flow'
  BY <1>0, <1>1 DEF Flow
<1>4. OneRequest' /\ ReplyShows' /\ Mirrors' /\ CountProves'
  BY <1>1 DEF OneRequest, ReplyShows, Mirrors, CountProves
<1> QED
  BY <1>2, <1>3, <1>4 DEF IInv

\* The reply to the baseline request: what it showed is the baseline.
LEMMA BaselineStep ==
  ASSUME IInv, Resume, step = "baseline", reply.result = "ok"
  PROVE  IInv'
<1> USE NoneAssumption
<1>0. /\ TypeOK /\ Flow /\ reply \in Replies /\ wire = None
      /\ failure = None /\ outcome = None
  BY DEF IInv, TypeOK, Flow, OneRequest, Resume
<1>1. PICK fit \in BOOLEAN : AfterBaseline(reply, fit)
  BY DEF Resume, AfterReply
<1>2. /\ before' = [f \in {"mode", "plan", "reserve", "kept"} |-> reply[f]]
      /\ UNCHANGED <<station, op, link, histVars>> /\ wire' = None /\ reply' = None
  BY <1>0 DEF Resume
<1>3. /\ before' \in Station
      /\ before'.mode = reply.mode /\ before'.plan = reply.plan
  BY <1>0, <1>2 DEF Station, Replies
<1>4. ~touched' => Restored'
  BY <1>2, <1>3 DEF IInv, ReplyShows, Resume, Restored, histVars
<1>5. \/ \E next \in {"store", "ready", "clear", "reserve"} :
           /\ GoTo(next)
           /\ next = "store" => op.kind \in {"store", "activate"}
           /\ next = "ready" => op.kind \in {"activate", "grid"}
           /\ next = "clear" => op.kind = "grid"
           /\ next = "reserve" => op.kind = "reserve"
      \/ op.kind = "grid" /\ FailsAt("ready", "error")
      \/ op.kind # "grid" /\ FailsAt("baseline", "error")
  BY <1>0, <1>1, KindsAssumption DEF AfterBaseline, TypeOK
<1>6. ASSUME NEW next \in {"store", "ready", "clear", "reserve"}, GoTo(next),
             next = "store" => op.kind \in {"store", "activate"},
             next = "ready" => op.kind \in {"activate", "grid"},
             next = "clear" => op.kind = "grid",
             next = "reserve" => op.kind = "reserve"
      PROVE  IInv'
  <2>1. step' = next /\ stage' = "queued" /\ failure' = None /\ outcome' = None
    BY <1>0, <1>6 DEF GoTo
  <2>2. Flow'
    BY <1>2, <1>3, <1>6, <2>1 DEF Flow
  <2>3. Mirrors'
    BY <1>2, <1>4, <2>1 DEF Mirrors
  <2> QED
    BY <1>2, <1>3, <1>6, <2>2, <2>3, GoToStep
<1>7. ASSUME op.kind = "grid", FailsAt("ready", "error") PROVE IInv'
  <2>1. /\ step' = "clear" /\ stage' = "queued" /\ failure' = "error" /\ outcome' = None
        /\ count' = 0 /\ expired' = FALSE
    BY <1>0, <1>7 DEF FailsAt, OnFailure
  <2>2. Flow'
    BY <1>2, <1>3, <1>7, <2>1 DEF Flow
  <2>3. TypeOK'
    <3>1. /\ station' \in Station /\ op' \in [kind : Kinds, plan : Plans, reserve : Reserves]
          /\ link' \in {"open", "network", "silence", "deadline", "cancelled"} /\ proof' \in 0..3
          /\ touched' \in BOOLEAN /\ excused' \in BOOLEAN
      BY <1>0, <1>2 DEF TypeOK, histVars
    <3>2. step' \in Steps /\ stage' \in {"queued", "sent", "asleep", "idle"} /\ count' \in 0..2
      BY <2>1
    <3>3. /\ failure' \in {None} \cup Exceptions /\ outcome' \in {None, "ok"} \cup Exceptions
          /\ expired' \in BOOLEAN
      BY <2>1
    <3>4. wire' = None /\ reply' = None /\ before' \in Station
      BY <1>2, <1>3
    <3> QED
      BY <3>1, <3>2, <3>3, <3>4 DEF TypeOK
  <2>4. OneRequest' /\ ReplyShows' /\ CountProves' /\ Mirrors'
    BY <1>2, <2>1 DEF OneRequest, ReplyShows, CountProves, Mirrors
  <2>5. SuccessIsTrue' /\ FailureIsUndone' /\ GridIsProven'
    BY <2>1 DEF SuccessIsTrue, FailureIsUndone, GridIsProven
  <2> QED
    BY <2>2, <2>3, <2>4, <2>5 DEF IInv
<1>8. ASSUME op.kind # "grid", FailsAt("baseline", "error") PROVE IInv'
  <2>1. /\ step' = "done" /\ stage' = "idle" /\ failure' = "error" /\ outcome' = "error"
        /\ count' = 0 /\ expired' = FALSE
    BY <1>0, <1>8 DEF FailsAt, OnFailure
  <2>2. Flow'
    BY <1>2, <1>3, <1>8, <2>1 DEF Flow
  <2>3. TypeOK'
    <3>1. /\ station' \in Station /\ op' \in [kind : Kinds, plan : Plans, reserve : Reserves]
          /\ link' \in {"open", "network", "silence", "deadline", "cancelled"} /\ proof' \in 0..3
          /\ touched' \in BOOLEAN /\ excused' \in BOOLEAN
      BY <1>0, <1>2 DEF TypeOK, histVars
    <3>2. step' \in Steps /\ stage' \in {"queued", "sent", "asleep", "idle"} /\ count' \in 0..2
      BY <2>1
    <3>3. /\ failure' \in {None} \cup Exceptions /\ outcome' \in {None, "ok"} \cup Exceptions
          /\ expired' \in BOOLEAN
      BY <2>1
    <3>4. wire' = None /\ reply' = None /\ before' \in Station
      BY <1>2, <1>3
    <3> QED
      BY <3>1, <3>2, <3>3, <3>4 DEF TypeOK
  <2>4. OneRequest' /\ ReplyShows' /\ CountProves' /\ Mirrors'
    BY <1>2, <2>1 DEF OneRequest, ReplyShows, CountProves, Mirrors
  <2>5. SuccessIsTrue' /\ GridIsProven'
    BY <2>1 DEF SuccessIsTrue, GridIsProven
  <2>6. FailureIsUndone'
    BY <1>2, <1>4, <1>8 DEF FailureIsUndone, Restored
  <2> QED
    BY <2>2, <2>3, <2>4, <2>5, <2>6 DEF IInv
<1> QED
  BY <1>5, <1>6, <1>7, <1>8

\* A sample of _wait_grid.
LEMMA SampleStep ==
  ASSUME IInv, Resume, step \in Waits, reply.result = "ok"
  PROVE  IInv'
<1> USE NoneAssumption
<1>0. /\ TypeOK /\ Flow /\ Mirrors /\ CountProves /\ reply \in Replies /\ reply # None /\ wire = None
      /\ failure = None /\ outcome = None /\ op.kind = "grid" /\ before \in Station /\ count \in 0..2
  BY DEF IInv, TypeOK, Flow, OneRequest, Resume
<1>1. AfterSample(reply)
  BY DEF Resume, AfterReply
<1>2. UNCHANGED <<station, op, before, link, histVars>> /\ wire' = None /\ reply' = None
  BY <1>0 DEF Resume
<1> DEFINE n == IF reply.flow = "grid" THEN count + 1 ELSE 0
<1>3. CASE ~Preserved(reply)
  <2>1. Fails("error")
    BY <1>1, <1>3 DEF AfterSample
  <2>2. /\ link' \in {"open", "network", "silence", "deadline", "cancelled"}
        /\ excused' \in BOOLEAN /\ excused = excused' /\ link = link'
        /\ UNCHANGED <<touched, proof>>
    BY <1>0, <1>2 DEF TypeOK, histVars
  <2> QED
    BY <1>0, <1>2, <2>1, <2>2, FailureStep
<1>4. CASE Preserved(reply) /\ n >= 3 /\ step = "grid1"
  <2>1. GoTo("clear")
    BY <1>1, <1>4 DEF AfterSample
  <2>2. Flow' /\ Mirrors'
    BY <1>0, <1>2, <2>1 DEF Flow, Mirrors, GoTo
  <2> QED
    BY <1>0, <1>2, <2>1, <2>2, GoToStep
<1>5. CASE Preserved(reply) /\ n >= 3 /\ step = "grid2"
  <2>1. EndsWith("ok")
    BY <1>1, <1>5 DEF AfterSample
  <2>2. proof' = 3
    <3>1. count \in 0..2 /\ count + 1 >= 3 /\ count < proof /\ proof \in 0..3
      BY <1>0, <1>5 DEF CountProves, TypeOK
    <3> QED
      BY <1>2, <3>1 DEF histVars
  <2>3. ~touched' => Cleared'
    BY <1>0, <1>2, <1>5 DEF Mirrors, Cleared, histVars
  <2>4. outcome' = "ok"
    BY <2>1 DEF EndsWith
  <2>5. SuccessIsTrue' /\ FailureIsUndone' /\ GridIsProven'
    BY <1>0, <1>2, <2>2, <2>3, <2>4 DEF SuccessIsTrue, FailureIsUndone, GridIsProven, Cleared
  <2> QED
    BY <1>0, <1>2, <2>1, <2>5, EndStep
<1>6. CASE Preserved(reply) /\ ~(n >= 3)
  <2>1. count' = n /\ stage' = "asleep" /\ UNCHANGED <<step, expired, failure, outcome>>
    BY <1>1, <1>6 DEF AfterSample
  <2>2. n \in 0..2
    BY <1>0, <1>6
  <2> HIDE DEF n
  <2>3. TypeOK'
    <3>1. /\ station' \in Station /\ op' \in [kind : Kinds, plan : Plans, reserve : Reserves]
          /\ link' \in {"open", "network", "silence", "deadline", "cancelled"} /\ proof' \in 0..3
          /\ touched' \in BOOLEAN /\ excused' \in BOOLEAN
      BY <1>0, <1>2 DEF TypeOK, histVars
    <3>2. /\ step' \in Steps /\ stage' \in {"queued", "sent", "asleep", "idle"}
          /\ count' \in 0..2 /\ expired' \in BOOLEAN
          /\ failure' \in {None} \cup Exceptions /\ outcome' \in {None, "ok"} \cup Exceptions
      BY <1>0, <2>1, <2>2 DEF TypeOK
    <3>3. wire' = None /\ reply' = None /\ before' \in Station
      BY <1>0, <1>2
    <3> QED
      BY <3>1, <3>2, <3>3 DEF TypeOK
  <2>4. Flow' /\ OneRequest' /\ ReplyShows'
    BY <1>0, <1>2, <2>1 DEF Flow, OneRequest, ReplyShows
  <2>5. Mirrors'
    BY <1>0, <1>2, <2>1 DEF Mirrors, Cleared, histVars
  <2>6. CountProves'
    <3>1. step = "grid2" => n <= proof
      BY <1>0 DEF CountProves, TypeOK, n
    <3> QED
      BY <1>2, <2>1, <3>1 DEF CountProves, histVars
  <2>7. SuccessIsTrue' /\ FailureIsUndone' /\ GridIsProven'
    BY <1>0, <2>1 DEF SuccessIsTrue, FailureIsUndone, GridIsProven
  <2> QED
    BY <2>3, <2>4, <2>5, <2>6, <2>7 DEF IInv
<1> QED
  BY <1>3, <1>4, <1>5, <1>6

\* What a readback confirms is in the station, unless the user interfered.
LEMMA Confirmed ==
  ASSUME ReplyShows, reply # None, NEW mode, NEW plan, Confirms(reply, mode, plan), ~touched
  PROVE  station.mode = mode /\ station.plan = plan
  BY DEF ReplyShows, Confirms

\* A reply that request() returned, or the exception it raised.
LEMMA ResumeStep == IInv /\ Resume => IInv'
<1> SUFFICES ASSUME IInv, Resume PROVE IInv'
  OBVIOUS
<1> USE NoneAssumption
<1>0. /\ TypeOK /\ Flow /\ Mirrors /\ ReplyShows /\ reply \in Replies /\ reply # None /\ wire = None
      /\ stage = "sent" /\ step # "done" /\ outcome = None
  BY DEF IInv, TypeOK, Flow, OneRequest, Resume
<1>1. CASE step = "baseline" /\ reply.result = "ok"
  BY <1>1, BaselineStep
<1>2. CASE step \in Waits /\ reply.result = "ok"
  BY <1>2, SampleStep
<1>3. CASE ~(step = "baseline" /\ reply.result = "ok")
  <2>1. UNCHANGED <<station, op, before, link, histVars>> /\ wire' = None /\ reply' = None
    BY <1>0, <1>3 DEF Resume
  <2>2. /\ link' \in {"open", "network", "silence", "deadline", "cancelled"}
        /\ excused' \in BOOLEAN /\ excused = excused' /\ link = link'
        /\ UNCHANGED <<touched, proof>>
    BY <1>0, <2>1 DEF TypeOK, histVars
  <2>3. ASSUME Fails("error") PROVE IInv'
    BY <1>0, <2>1, <2>2, <2>3, FailureStep
  <2>4. ASSUME step # "baseline", NEW next \in Steps \ {"done", "baseline"}, GoTo(next), Flow', Mirrors'
        PROVE  IInv'
    BY <1>0, <2>1, <2>4, GoToStep DEF Flow
  <2>5. CASE reply.result # "ok"
    BY <2>3, <2>5 DEF Resume
  <2>6. CASE reply.result = "ok" /\ step = "ready"
    <3>1. \/ Fails("error")
          \/ op.kind = "grid" /\ GoTo("select")
          \/ op.kind = "activate" /\ GoTo("store")
      BY <1>0, <2>6 DEF Resume, AfterReply, Flow
    <3>2. ASSUME NEW next \in {"select", "store"}, GoTo(next), next = "store" => op.kind = "activate",
                 next = "select" => op.kind = "grid"
          PROVE  IInv'
      <4>1. step' = next /\ stage' = "queued" /\ UNCHANGED <<failure, outcome>>
        BY <3>2 DEF GoTo
      <4>2. Flow' /\ Mirrors'
        BY <1>0, <2>1, <2>6, <3>2, <4>1 DEF Flow, Mirrors
      <4> QED
        BY <2>4, <2>6, <3>2, <4>2
    <3> QED
      BY <2>3, <3>1, <3>2
  <2>7. CASE reply.result = "ok" /\ step \in Writes
    <3>1. \E next \in {"stored", "activated", "restored", "selected", "cleared", "reserved"} :
            /\ GoTo(next)
            /\ next = "stored" <=> step = "store"
            /\ next = "activated" <=> step = "activate"
            /\ next = "restored" <=> step = "restore"
            /\ next = "selected" <=> step = "select"
            /\ next = "cleared" <=> step = "clear"
            /\ next = "reserved" <=> step = "reserve"
      BY <2>7 DEF Resume, AfterReply
    <3>2. PICK next \in {"stored", "activated", "restored", "selected", "cleared", "reserved"} :
            /\ GoTo(next)
            /\ next = "stored" <=> step = "store"
            /\ next = "activated" <=> step = "activate"
            /\ next = "restored" <=> step = "restore"
            /\ next = "selected" <=> step = "select"
            /\ next = "cleared" <=> step = "clear"
            /\ next = "reserved" <=> step = "reserve"
      BY <3>1
    <3>3. step' = next /\ stage' = "queued" /\ UNCHANGED <<failure, outcome>>
      BY <3>2 DEF GoTo
    <3>4. Flow'
      BY <1>0, <2>1, <2>7, <3>2, <3>3 DEF Flow
    <3>5. Mirrors'
      BY <1>0, <2>1, <2>2, <2>7, <3>2, <3>3 DEF Mirrors, Restored, Cleared
    <3> QED
      BY <2>4, <2>7, <3>2, <3>4, <3>5
  <2>8. CASE reply.result = "ok" /\ step \in {"stored", "activated", "selected", "cleared"}
    <3>1. PICK mode \in Modes, plan \in Plans : 
            /\ AfterPlanWrite(Confirms(reply, mode, plan))
            /\ step \in {"stored", "cleared"} <=> mode = Standard
            /\ step \in {"activated", "selected"} <=> mode = TimeOfUse
            /\ step \in {"stored", "activated"} => plan = op.plan
            /\ step = "cleared" => plan = Empty
      <4>1. op.plan \in Plans /\ Empty \in Plans /\ AllDay \in Plans
        BY <1>0, PlansAssumption DEF TypeOK
      <4>2. \/ step = "stored" /\ AfterPlanWrite(Confirms(reply, Standard, op.plan))
            \/ step = "activated" /\ AfterPlanWrite(Confirms(reply, TimeOfUse, op.plan))
            \/ step = "selected" /\ AfterPlanWrite(Confirms(reply, TimeOfUse, AllDay))
            \/ step = "cleared" /\ AfterPlanWrite(Confirms(reply, Standard, Empty))
        BY <2>8 DEF Resume, AfterReply
      <4> QED
        BY <4>1, <4>2
    <3>2. CASE ~Confirms(reply, mode, plan)
      BY <2>3, <3>1, <3>2 DEF AfterPlanWrite
    <3>3. CASE Confirms(reply, mode, plan)
      <4>1. ~touched => station.mode = mode /\ station.plan = plan
        BY <1>0, <3>3, Confirmed
      <4>2. \/ /\ step = "stored" /\ op.kind = "activate" /\ GoTo("activate")
            \/ /\ step = "selected" /\ GoTo("grid1")
            \/ /\ step = "cleared" /\ failure = None /\ GoTo("grid2")
            \/ /\ step = "cleared" /\ failure # None /\ EndsWith(failure)
            \/ /\ step \in {"stored", "activated"} /\ ~(step = "stored" /\ op.kind = "activate")
               /\ EndsWith("ok")
        BY <2>8, <3>1, <3>3 DEF AfterPlanWrite
      <4>3. ASSUME NEW next \in {"activate", "grid1", "grid2"}, GoTo(next),
                   next = "activate" => step = "stored" /\ op.kind = "activate",
                   next = "grid1" => step = "selected",
                   next = "grid2" => step = "cleared" /\ failure = None
            PROVE  IInv'
        <5>1. step' = next /\ stage' = "queued" /\ UNCHANGED <<failure, outcome>>
          BY <4>3 DEF GoTo
        <5>2. Flow'
          BY <1>0, <2>1, <2>8, <4>3, <5>1 DEF Flow
        <5>3. Mirrors'
          BY <2>1, <2>2, <3>1, <4>1, <4>3, <5>1 DEF Mirrors, Cleared
        <5> QED
          BY <2>4, <2>8, <4>3, <5>2, <5>3
      <4>4. CASE step = "cleared" /\ failure # None /\ EndsWith(failure)
        <5>1. outcome' = failure /\ failure \in Exceptions
          BY <1>0, <4>4 DEF EndsWith, TypeOK
        <5>2. ~touched' => Cleared'
          BY <2>1, <2>2, <3>1, <4>1, <4>4 DEF Cleared
        <5>3. SuccessIsTrue' /\ FailureIsUndone' /\ GridIsProven'
          BY <1>0, <2>1, <4>4, <5>1, <5>2 DEF SuccessIsTrue, FailureIsUndone, GridIsProven, Cleared, Flow
        <5> QED
          BY <2>1, <4>4, <5>1, <5>3, EndStep
      <4>5. CASE /\ step \in {"stored", "activated"} /\ ~(step = "stored" /\ op.kind = "activate")
                 /\ EndsWith("ok")
        <5>1. outcome' = "ok"
          BY <4>5 DEF EndsWith
        <5>2. \/ op.kind = "store" /\ mode = Standard
              \/ op.kind = "activate" /\ mode = TimeOfUse
          BY <1>0, <3>1, <4>5 DEF Flow
        <5>3. SuccessIsTrue' /\ FailureIsUndone' /\ GridIsProven'
          BY <2>1, <2>2, <3>1, <4>1, <4>5, <5>1, <5>2
             DEF SuccessIsTrue, FailureIsUndone, GridIsProven
        <5> QED
          BY <2>1, <4>5, <5>3, EndStep
      <4> QED
        BY <4>2, <4>3, <4>4, <4>5
    <3> QED
      BY <3>2, <3>3
  <2>9. CASE reply.result = "ok" /\ step = "restored"
    <3>1. EndsWith(failure) /\ failure \in Exceptions /\ op.kind \in {"store", "activate"}
      BY <1>0, <2>9 DEF Resume, AfterReply, TypeOK, Flow
    <3>2. outcome' = failure
      BY <3>1 DEF EndsWith
    <3>3. ~touched' /\ ~excused' => Restored'
      BY <1>0, <2>1, <2>2, <2>9 DEF Mirrors, Restored
    <3>4. SuccessIsTrue' /\ FailureIsUndone' /\ GridIsProven'
      BY <2>1, <3>1, <3>2, <3>3 DEF SuccessIsTrue, FailureIsUndone, GridIsProven, Restored
    <3> QED
      BY <2>1, <2>9, <3>1, <3>4, EndStep
  <2>10. CASE reply.result = "ok" /\ step = "reserved"
    <3>1. op.kind = "reserve" /\ before \in Station
      BY <1>0, <2>10 DEF Flow
    <3>2. \/ Fails("error")
          \/ ConfirmsReserve(reply) /\ EndsWith("ok")
      BY <2>10 DEF Resume, AfterReply
    <3>3. CASE ConfirmsReserve(reply) /\ EndsWith("ok")
      <4>1. outcome' = "ok"
        BY <3>3 DEF EndsWith
      <4>2. ~touched => station = [before EXCEPT !.reserve = op.reserve]
        <5>1. SUFFICES ASSUME ~touched PROVE station = [before EXCEPT !.reserve = op.reserve]
          OBVIOUS
        <5>2. /\ station.mode = before.mode /\ station.plan = before.plan
              /\ station.reserve = op.reserve /\ station.kept = before.kept
          BY <1>0, <3>3, <5>1 DEF ReplyShows, ConfirmsReserve
        <5>3. station \in Station /\ before \in Station
          BY <1>0, <3>1 DEF TypeOK
        <5> QED
          BY <5>2, <5>3 DEF Station
      <4>3. SuccessIsTrue' /\ FailureIsUndone' /\ GridIsProven'
        BY <2>1, <2>2, <3>1, <4>1, <4>2 DEF SuccessIsTrue, FailureIsUndone, GridIsProven
      <4> QED
        BY <2>1, <2>10, <3>3, <4>3, EndStep
    <3> QED
      BY <2>3, <3>2, <3>3
  <2> QED
    BY <1>0, <1>2, <1>3, <2>5, <2>6, <2>7, <2>8, <2>9, <2>10 DEF TypeOK
<1> QED
  BY <1>1, <1>3

\* An exception that the station's answer did not raise.
LEMMA ExceptionSteps ==
  ASSUME IInv, SendFails \/ Silence \/ DeadlineInRequest \/ Lost \/ Cancel
  PROVE  IInv'
<1> USE NoneAssumption
<1>0. TypeOK /\ Flow /\ OneRequest
  BY DEF IInv
<1>1. /\ \E why \in Exceptions : Fails(why)
      /\ stage # "idle"
      /\ UNCHANGED <<station, op, before, touched, proof>>
  BY <1>0 DEF SendFails, Silence, DeadlineInRequest, Lost, Cancel, histVars
<1>2. wire' = None /\ reply' = None
  BY <1>0 DEF SendFails, Silence, DeadlineInRequest, Lost, Cancel, CloseLink, OneRequest, netVars
<1>3. /\ link' \in {"open", "network", "silence", "deadline", "cancelled"}
      /\ link # "open" => link' # "open"
  BY <1>0 DEF SendFails, Silence, DeadlineInRequest, Lost, Cancel, CloseLink, netVars, TypeOK
<1>4. excused' \in BOOLEAN /\ (excused => excused')
  BY <1>0 DEF SendFails, Silence, DeadlineInRequest, Lost, Cancel, CutShort, histVars, TypeOK
<1>5. step \in Undoing => reply # None \/ link' # "open" \/ excused'
  BY DEF SendFails, Silence, DeadlineInRequest, Lost, Cancel, CloseLink, CutShort, netVars
<1> QED
  BY <1>0, <1>1, <1>2, <1>3, <1>4, <1>5, FailureStep DEF Flow

\* _wait_grid wakes up: it takes another sample, or its time is over.
LEMMA WakeStep == IInv /\ Wake => IInv'
<1> SUFFICES ASSUME IInv, Wake PROVE IInv'
  OBVIOUS
<1> USE NoneAssumption
<1>0. /\ TypeOK /\ Flow /\ Mirrors /\ CountProves
      /\ stage = "asleep" /\ step \in Waits /\ wire = None /\ reply = None /\ outcome = None
      /\ UNCHANGED <<station, op, before, link, touched, excused, proof>>
      /\ wire' = None /\ reply' = None
  BY DEF IInv, Wake, Flow, OneRequest, netVars, histVars
<1>1. CASE expired
  <2>1. Fails("flow")
    BY <1>1 DEF Wake
  <2>2. link' \in {"open", "network", "silence", "deadline", "cancelled"} /\ excused' \in BOOLEAN
    BY <1>0 DEF TypeOK
  <2> QED
    BY <1>0, <2>1, <2>2, FailureStep
<1>2. CASE ~expired
  <2>1. stage' = "queued" /\ UNCHANGED <<step, count, expired, failure, outcome>>
    BY <1>2 DEF Wake
  <2>2. TypeOK'
    BY <1>0, <2>1 DEF TypeOK
  <2>3. Flow' /\ OneRequest' /\ ReplyShows'
    BY <1>0, <2>1 DEF Flow, OneRequest, ReplyShows
  <2>4. Mirrors' /\ CountProves'
    BY <1>0, <2>1 DEF Mirrors, Cleared, CountProves
  <2>5. SuccessIsTrue' /\ FailureIsUndone' /\ GridIsProven'
    BY <1>0, <2>1 DEF SuccessIsTrue, FailureIsUndone, GridIsProven
  <2> QED
    BY <2>2, <2>3, <2>4, <2>5 DEF IInv
<1> QED
  BY <1>1, <1>2

\* A request is published.
LEMMA SendStep == IInv /\ Send => IInv'
<1> SUFFICES ASSUME IInv, Send PROVE IInv'
  OBVIOUS
<1> USE NoneAssumption
<1>0. /\ TypeOK /\ Flow /\ OneRequest /\ Mirrors /\ CountProves
      /\ stage = "queued" /\ step # "done" /\ link = "open" /\ outcome = None /\ reply = None
      /\ wire' = Request /\ reply' = None /\ stage' = "sent"
      /\ UNCHANGED <<station, op, before, link, step, count, expired, failure, outcome,
                     touched, excused, proof>>
  BY DEF IInv, Send, Flow, OneRequest, histVars
<1>1. TypeOK'
  <2>1. wire' \in Wires
    BY <1>0, RequestType DEF Wires
  <2>2. stage' \in {"queued", "sent", "asleep", "idle"}
    BY <1>0
  <2> QED
    BY <1>0, <2>1, <2>2 DEF TypeOK
<1>2. Flow' /\ ReplyShows'
  BY <1>0 DEF Flow, ReplyShows
<1>3. OneRequest'
  BY <1>0 DEF OneRequest, Request
<1>4. Mirrors' /\ CountProves'
  BY <1>0 DEF Mirrors, Restored, Cleared, CountProves
<1>5. SuccessIsTrue' /\ FailureIsUndone' /\ GridIsProven'
  BY <1>0 DEF SuccessIsTrue, FailureIsUndone, GridIsProven
<1> QED
  BY <1>1, <1>2, <1>3, <1>4, <1>5 DEF IInv

\* What an answer does: a write that the station applies stores the fields of
\* the step's request, and the reply shows the result.
LEMMA Answered ==
  ASSUME IInv, NEW result \in {"ok", "rejected", "unusable"}, NEW applied \in BOOLEAN,
         Answer(result, applied)
  PROVE  /\ applied => step \in Writes
         /\ station' = IF applied THEN Apply(station, Request) ELSE station
         /\ station' \in Station
         /\ reply' \in Replies /\ reply' # None /\ reply'.result = result
         /\ reply'.mode = station'.mode /\ reply'.plan = station'.plan
         /\ reply'.reserve = station'.reserve /\ reply'.kept = station'.kept
         /\ stage = "sent" /\ step # "done" /\ reply = None /\ link = "open" /\ wire = Request
<1> USE NoneAssumption
<1>0. TypeOK /\ Flow /\ wire = Request /\ stage = "sent" /\ reply = None /\ link = "open" /\ step # "done"
  BY DEF IInv, OneRequest, Flow, Answer
<1>1. "query" \notin DOMAIN wire <=> step \in Writes
  BY <1>0, RequestType, QueryOrWrite DEF TypeOK
<1>2. applied => step \in Writes /\ result = "ok"
  BY <1>1 DEF Answer
<1>3. station' = IF applied THEN Apply(station, Request) ELSE station
  BY <1>0, <1>1, <1>2 DEF Answer
<1>4. station' \in Station
  <2>1. CASE applied
    BY <1>0, <1>2, <1>3, <2>1, RequestType, ApplyPlan, ApplyReserve DEF TypeOK
  <2>2. CASE ~applied
    BY <1>0, <1>3, <2>2 DEF TypeOK
  <2> QED
    BY <2>1, <2>2
<1>5. PICK flow \in {"grid", "other"}, tariff \in {0, 1} :
        reply' = [result |-> result, mode |-> station'.mode, plan |-> station'.plan,
                  reserve |-> station'.reserve, kept |-> station'.kept,
                  flow |-> flow, tariff |-> tariff]
  BY DEF Answer
<1>6. reply' \in Replies
  BY <1>4, <1>5 DEF Station, Replies
<1> QED
  BY <1>0, <1>2, <1>3, <1>4, <1>5, <1>6

\* The station answers.
LEMMA AnswerStep ==
  ASSUME IInv, NEW result \in {"ok", "rejected", "unusable"}, NEW applied \in BOOLEAN,
         Answer(result, applied)
  PROVE  IInv'
<1> USE NoneAssumption
<1>0. /\ TypeOK /\ Flow /\ Mirrors /\ CountProves /\ outcome = None
      /\ UNCHANGED <<op, before, link, step, stage, count, expired, failure, outcome, touched>>
      /\ wire' = None
  BY Answered DEF IInv, Answer, opVars, Flow
<1>1. /\ applied => step \in Writes
      /\ station' = IF applied THEN Apply(station, Request) ELSE station
      /\ station' \in Station
      /\ reply' \in Replies /\ reply' # None /\ reply'.result = result
      /\ reply'.mode = station'.mode /\ reply'.plan = station'.plan
      /\ reply'.reserve = station'.reserve /\ reply'.kept = station'.kept
      /\ stage = "sent" /\ step # "done" /\ reply = None /\ link = "open"
  BY Answered
<1>2. excused' = (excused \/ (step \in Undoing /\ ~applied))
  BY DEF Answer
<1>3. /\ proof' \in 0..3
      /\ step = "grid2" /\ result = "ok" /\ reply'.flow = "grid" => proof' = 3 \/ proof' = proof + 1
  <2>1. PICK flow \in {"grid", "other"}, tariff \in {0, 1} :
          /\ reply' = [result |-> result, mode |-> station'.mode, plan |-> station'.plan,
                       reserve |-> station'.reserve, kept |-> station'.kept,
                       flow |-> flow, tariff |-> tariff]
          /\ proof' = IF step = "clear" /\ applied THEN 0
                      ELSE IF "query" \notin DOMAIN wire \/ result # "ok" THEN proof
                      ELSE IF flow # "grid" THEN 0
                      ELSE IF proof < 3 THEN proof + 1 ELSE 3
    BY DEF Answer
  <2>2. proof \in 0..3
    BY <1>0 DEF TypeOK
  <2>3. proof' \in 0..3
    BY <2>1, <2>2
  <2>4. step = "grid2" => "query" \in DOMAIN wire
    BY <1>0, RequestType, QueryOrWrite, Answered
  <2>5. reply'.flow = flow
    BY <2>1
  <2> QED
    BY <2>1, <2>2, <2>3, <2>4, <2>5
<1>4. TypeOK'
  <2>1. excused' \in BOOLEAN
    BY <1>0, <1>2 DEF TypeOK
  <2> QED
    BY <1>0, <1>1, <1>3, <2>1 DEF TypeOK
<1>5. Flow' /\ OneRequest' /\ ReplyShows'
  BY <1>0, <1>1 DEF Flow, OneRequest, ReplyShows
<1>6. Mirrors'
  <2> SUFFICES ASSUME ~touched PROVE Mirrors'
    BY <1>0 DEF Mirrors
  <2>1. step \notin Writes => station' = station
    BY <1>1
  <2>2. step = "ready" => Restored'
    BY <1>0, <2>1 DEF Mirrors, Restored
  <2>3. step = "grid2" => Cleared'
    BY <1>0, <2>1 DEF Mirrors, Cleared
  <2>4. step = "restored" /\ ~excused' => Restored'
    BY <1>0, <1>2, <2>1 DEF Mirrors, Restored
  <2>5. step = "cleared" /\ ~excused' => Cleared'
    BY <1>0, <1>2, <2>1 DEF Mirrors, Cleared
  <2>6. step = "restore" /\ ~excused' => Restored'
    <3> SUFFICES ASSUME step = "restore", applied PROVE Restored'
      BY <1>2
    <3>1. Request = [mode |-> before.mode, plan |-> before.plan]
      BY DEF Request
    <3>2. station \in Station /\ Request \in [mode : Modes, plan : Plans]
      BY <1>0, RequestType DEF TypeOK
    <3> QED
      BY <1>0, <1>1, <3>1, <3>2, ApplyPlan DEF Restored
  <2>7. step = "clear" /\ ~excused' => Cleared'
    <3> SUFFICES ASSUME step = "clear", applied PROVE Cleared'
      BY <1>2
    <3>1. Request = [mode |-> Standard, plan |-> Empty]
      BY DEF Request
    <3>2. station \in Station /\ Request \in [mode : Modes, plan : Plans]
      BY <1>0, RequestType DEF TypeOK
    <3> QED
      BY <1>0, <1>1, <3>1, <3>2, ApplyPlan DEF Cleared
  <2> QED
    BY <1>0, <1>1, <2>2, <2>3, <2>4, <2>5, <2>6, <2>7 DEF Mirrors
<1>7. CountProves'
  <2> SUFFICES ASSUME step = "grid2", result = "ok", reply'.flow = "grid" PROVE count < proof'
    BY <1>0, <1>1 DEF CountProves
  <2>1. count <= proof /\ count \in 0..2 /\ proof \in 0..3
    BY <1>0, <1>1 DEF CountProves, TypeOK
  <2> QED
    BY <1>3, <2>1
<1>8. SuccessIsTrue' /\ FailureIsUndone' /\ GridIsProven'
  BY <1>0 DEF SuccessIsTrue, FailureIsUndone, GridIsProven
<1> QED
  BY <1>4, <1>5, <1>6, <1>7, <1>8 DEF IInv

\* The user, the network and the clock.
LEMMA EnvironmentSteps == IInv /\ (Touch \/ LinkDrops \/ DeadlinePasses \/ UNCHANGED vars) => IInv'
<1> SUFFICES ASSUME IInv, Touch \/ LinkDrops \/ DeadlinePasses \/ UNCHANGED vars PROVE IInv'
  OBVIOUS
<1> USE NoneAssumption
<1>0. TypeOK /\ Flow /\ OneRequest /\ ReplyShows /\ Mirrors /\ CountProves
      /\ SuccessIsTrue /\ FailureIsUndone /\ GridIsProven
  BY DEF IInv
<1>1. CASE Touch
  <2>1. /\ touched' = TRUE /\ station' \in Station
        /\ UNCHANGED <<op, before, link, wire, reply, step, stage, count, expired, failure, outcome,
                       excused, proof>>
    BY <1>1 DEF Touch, netVars, opVars
  <2>2. TypeOK'
    BY <1>0, <2>1 DEF TypeOK
  <2>3. Request' = Request
    BY <2>1 DEF Request
  <2>4. Flow' /\ OneRequest' /\ ReplyShows' /\ Mirrors' /\ CountProves'
    BY <1>0, <2>1, <2>3 DEF Flow, OneRequest, ReplyShows, Mirrors, CountProves
  <2>5. SuccessIsTrue' /\ FailureIsUndone' /\ GridIsProven'
    BY <1>0, <2>1 DEF SuccessIsTrue, FailureIsUndone, GridIsProven
  <2> QED
    BY <2>2, <2>4, <2>5 DEF IInv
<1>2. CASE LinkDrops
  <2>1. /\ link' = "network" /\ wire' = None /\ step # "done"
        /\ UNCHANGED <<station, op, before, reply, step, stage, count, expired, failure, outcome,
                       touched, excused, proof>>
    BY <1>2 DEF LinkDrops, opVars, histVars
  <2>2. TypeOK'
    BY <1>0, <2>1 DEF TypeOK
  <2>3. Flow' /\ OneRequest' /\ ReplyShows'
    BY <1>0, <2>1 DEF Flow, OneRequest, ReplyShows
  <2>4. Mirrors' /\ CountProves'
    BY <1>0, <2>1 DEF Mirrors, CountProves, Restored, Cleared
  <2>5. SuccessIsTrue' /\ FailureIsUndone' /\ GridIsProven'
    BY <1>0, <2>1 DEF SuccessIsTrue, FailureIsUndone, GridIsProven
  <2> QED
    BY <2>2, <2>3, <2>4, <2>5 DEF IInv
<1>3. CASE DeadlinePasses
  <2>1. /\ expired' = TRUE
        /\ UNCHANGED <<station, op, before, link, wire, reply, step, stage, count, failure, outcome,
                       touched, excused, proof>>
    BY <1>3 DEF DeadlinePasses, netVars, histVars
  <2>2. TypeOK'
    BY <1>0, <2>1 DEF TypeOK
  <2>3. Request' = Request
    BY <2>1 DEF Request
  <2>4. Flow' /\ OneRequest' /\ ReplyShows' /\ Mirrors' /\ CountProves'
    BY <1>0, <2>1, <2>3 DEF Flow, OneRequest, ReplyShows, Mirrors, CountProves, Restored, Cleared
  <2>5. SuccessIsTrue' /\ FailureIsUndone' /\ GridIsProven'
    BY <1>0, <2>1 DEF SuccessIsTrue, FailureIsUndone, GridIsProven
  <2> QED
    BY <2>2, <2>4, <2>5 DEF IInv
<1>4. CASE UNCHANGED vars
  <2>1. UNCHANGED <<station, op, before, link, wire, reply, step, stage, count, expired, failure,
                    outcome, touched, excused, proof>>
    BY <1>4 DEF vars, netVars, opVars, histVars
  <2>2. TypeOK'
    BY <1>0, <2>1 DEF TypeOK
  <2>3. Request' = Request
    BY <2>1 DEF Request
  <2>4. Flow' /\ OneRequest' /\ ReplyShows' /\ Mirrors' /\ CountProves'
    BY <1>0, <2>1, <2>3 DEF Flow, OneRequest, ReplyShows, Mirrors, CountProves, Restored, Cleared
  <2>5. SuccessIsTrue' /\ FailureIsUndone' /\ GridIsProven'
    BY <1>0, <2>1 DEF SuccessIsTrue, FailureIsUndone, GridIsProven
  <2> QED
    BY <2>2, <2>4, <2>5 DEF IInv
<1> QED
  BY <1>1, <1>2, <1>3, <1>4

\* Every action keeps the invariant.
LEMMA NextInv == IInv /\ [Next]_vars => IInv'
  BY ResumeStep, ExceptionSteps, WakeStep, SendStep, AnswerStep, EnvironmentSteps
     DEF Next, OperationStep

\* IInv holds initially, so it always holds.
LEMMA Invariant == Spec => []IInv
  BY InitInv, NextInv, PTL DEF Spec

-----------------------------------------------------------------------------
(* The theorems. *)

\* Every variable of a control keeps its type.
THEOREM TypeCorrect == Spec => []TypeOK
<1>1. IInv => TypeOK
  BY DEF IInv
<1> QED
  BY <1>1, Invariant, PTL

\* A control that reports success left in the station what was asked for.
THEOREM SuccessMeansDone == Spec => []SuccessIsTrue
<1>1. IInv => SuccessIsTrue
  BY DEF IInv
<1> QED
  BY <1>1, Invariant, PTL

\* A control that fails undid what it did, unless it could not.
THEOREM FailureMeansUndone == Spec => []FailureIsUndone
<1>1. IInv => FailureIsUndone
  BY DEF IInv
<1> QED
  BY <1>1, Invariant, PTL

\* return_to_grid succeeds only after three samples of grid supply in a row
\* that the station took after its plan was cleared.
THEOREM GridSupplyIsProven == Spec => []GridIsProven
<1>1. IInv => GridIsProven
  BY DEF IInv
<1> QED
  BY <1>1, Invariant, PTL

\* A plan is activated where it is stored: the activating write changes the
\* mode alone, and changes it from Standard.
THEOREM ActivationIsModeOnly == Spec => ActivationChangesModeOnly
<1> DEFINE ModeOnly == step = "activate" /\ station' # station /\ ~touched'
                         => station' = [station EXCEPT !.mode = TimeOfUse] /\ station.mode = Standard
<1>1. IInv /\ [Next]_vars => [ModeOnly]_vars
  <2> SUFFICES ASSUME IInv, Next, step = "activate", station' # station, ~touched'
               PROVE  station' = [station EXCEPT !.mode = TimeOfUse] /\ station.mode = Standard
    BY DEF vars
  <2>1. PICK result \in {"ok", "rejected", "unusable"}, applied \in BOOLEAN : Answer(result, applied)
    BY DEF Next, OperationStep, Send, SendFails, Resume, Silence, DeadlineInRequest, Lost, Wake,
           Cancel, Touch, LinkDrops, DeadlinePasses
  <2>2. station' = Apply(station, Request) /\ reply = None
    BY <2>1, Answered
  <2>3. ~touched
    BY <2>1 DEF Answer
  <2>4. station.mode = Standard /\ station.plan = op.plan /\ station \in Station /\ op.plan \in Plans
    BY <2>2, <2>3 DEF IInv, Mirrors, TypeOK
  <2>5. Request = [mode |-> TimeOfUse, plan |-> op.plan]
    BY DEF Request
  <2>6. station' = [station EXCEPT !.mode = TimeOfUse, !.plan = op.plan]
    <3>1. Request \in [mode : Modes, plan : Plans] /\ Request.mode = TimeOfUse /\ Request.plan = op.plan
      BY <2>4, <2>5
    <3>2. Apply(station, Request) = [station EXCEPT !.mode = Request.mode, !.plan = Request.plan]
      BY <2>4, <3>1, ApplyPlan
    <3> QED
      BY <2>2, <3>1, <3>2
  <2>7. [station EXCEPT !.mode = TimeOfUse, !.plan = op.plan] = [station EXCEPT !.mode = TimeOfUse]
    BY <2>4 DEF Station
  <2> QED
    BY <2>4, <2>6, <2>7
<1> QED
  BY <1>1, Invariant, PTL DEF Spec, ActivationChangesModeOnly
=============================================================================
