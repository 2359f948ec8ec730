------------------------ MODULE NativeSettingsProofs ------------------------
(***************************************************************************)
(* What a native setting guarantees for any levels, reserves and protected *)
(* settings, and any number of reports sent unasked and of changes made by *)
(* others: that a success was held by the station, and that the reserve is *)
(* not moved by a cap or a floor that was written.                         *)
(***************************************************************************)
EXTENDS NativeSettings, SequenceTheorems, TLAPS

-----------------------------------------------------------------------------
(* The inductive invariant. *)

\* A report made after the write reached the station.
Late(m) == m.what # "ack" /\ m.late

WriteSent == \E i \in DOMAIN down : down[i] = "write"

\* The steps of the control.
Steps ==
  /\ step = "done" <=> stage = "idle"
  /\ stage = "asleep" => step = "sample"
  /\ stage # "sent" => settled = None
  /\ settled \in Acks => step = "write"
  /\ settled \in Reports => step # "write" /\ (op.kind \in Shared => metrics \in Reports)
  /\ step # "done" => outcome = None
  /\ step \in {"baseline", "write"} => count = 0 /\ early = 0
  /\ step # "done" => early <= count /\ count < Samples
  /\ op.kind = "original" =>
       /\ step = "write" => stage # "sent"
       /\ step = "sample" => ack # None
  /\ ~link => down = <<>> /\ up = <<>>

\* The write is on its way at most once, and only before it has arrived, and
\* it has passed the guard of its baseline.
OneWrite ==
  /\ \A i, j \in DOMAIN down : down[i] = "write" /\ down[j] = "write" => i = j
  /\ WriteSent => ~arrived
  /\ refused => arrived
  /\ step = "baseline" \/ (step = "write" /\ stage # "sent") => ~arrived /\ ~WriteSent
  /\ step \in {"write", "sample"} \/ WriteSent => before \in Station /\ Guard(before)

\* A late report that shows what was asked for is a proof that it was held.
Truthful(m) == Late(m) => arrived /\ (Wanted(m.of) => shown)

\* The station's messages arrive in order.
Order ==
  /\ arrived /\ Wanted(station) => shown
  /\ \A i \in DOMAIN up : Truthful(up[i])
  /\ settled \in Reports => Truthful(settled)
  /\ metrics \in Reports => Truthful(metrics)
  /\ \A i, j \in DOMAIN up : i < j /\ Late(up[i]) /\ up[j].what # "ack" => up[j].late
  /\ metrics \in Reports /\ Late(metrics) =>
       \A i \in DOMAIN up : up[i].what # "ack" => up[i].late

\* The settings but the original ones: one request at a time, each with its
\* own answer.
Pending == stage = "sent" /\ settled = None
Quiet == down = <<>> /\ \A i \in DOMAIN up : up[i].what = "note"
OnItsWay ==
  /\ \A i \in DOMAIN up : up[i].what = "note"
  /\ down = <<IF step = "write" THEN "write" ELSE "status">>
Answering ==
  /\ down = <<>>
  /\ \E k \in DOMAIN up : up[k].what = IF step = "write" THEN "ack" ELSE "status"
  /\ \A i, j \in DOMAIN up : up[i].what # "note" /\ up[j].what # "note" => i = j
  /\ \A i \in DOMAIN up :
       up[i].what # "note" => up[i].what = IF step = "write" THEN "ack" ELSE "status"

Exchange ==
  op.kind # "original" =>
    /\ step # "done" => Quiet \/ (Pending /\ (OnItsWay \/ Answering))
    /\ step = "done" => down = <<>>

\* Their write is answered before the samples are asked for.
Answered ==
  op.kind # "original" =>
    /\ step = "write" =>
         \A m \in Acks : (m = settled \/ \E i \in DOMAIN up : up[i] = m) =>
           arrived /\ (m.code = "ok" => ~refused)
    /\ step = "sample" =>
         /\ arrived /\ ~refused
         /\ \A i \in DOMAIN up : up[i].what = "status" => up[i].late
         /\ settled # None =>
              settled.late /\ (op.kind \in Shared => metrics \in Reports /\ metrics.late)

\* The original settings: an accepted sample that was not early proves the
\* success, and a rejection comes before every late report.
Rejection ==
  op.kind = "original" /\ step = "sample" /\ refused /\ ack # "rejected" =>
    /\ early = count /\ (settled \in Reports => ~Late(settled))
    /\ link => \E i \in DOMAIN up :
         /\ up[i] = Ack("rejected")
         /\ \A j \in DOMAIN up : j < i => ~Late(up[j])

Proven ==
  /\ step = "sample" /\ early < count => arrived /\ shown
  /\ outcome = "ok" => (shown /\ ~refused /\ ~WriteSent) \/ ConfirmedEarly

IInv ==
  /\ TypeOK
  /\ Steps /\ OneWrite /\ Order /\ Exchange /\ Answered /\ Rejection /\ Proven
-----------------------------------------------------------------------------
(* Queues and values. *)

\* What is appended is the last, and the others stay where they are.
LEMMA Appended ==
  ASSUME NEW S, NEW s \in Seq(S), NEW x \in S, NEW t, t = Append(s, x)
  PROVE  /\ t \in Seq(S) /\ Len(s) \in Nat /\ DOMAIN s = 1..Len(s)
         /\ DOMAIN t = 1..(Len(s) + 1) /\ t[Len(s) + 1] = x
         /\ \A i \in 1..Len(s) : t[i] = s[i]
  OBVIOUS

\* Without the first, the others move up.
LEMMA Removed ==
  ASSUME NEW S, NEW s \in Seq(S), s # <<>>, NEW t, t = Tail(s)
  PROVE  /\ t \in Seq(S) /\ Head(s) = s[1] /\ Head(s) \in S
         /\ Len(s) \in Nat \ {0} /\ DOMAIN s = 1..Len(s) /\ DOMAIN t = 1..(Len(s) - 1)
         /\ \A i \in 1..(Len(s) - 1) : t[i] = s[i + 1]
  BY HeadTailProperties, EmptySeq

\* A fitted station is still one: the reserve stays between two reserves.
LEMMA FittedIsStation ==
  ASSUME TypeOK, before \in Station, Guard(before)
  PROVE  Fitted(station) \in Station
  <1>1. /\ station \in Station /\ op.level \in Levels /\ op.level \in Nat
        /\ station.reserve \in Reserves /\ station.reserve \in Nat
        /\ before.reserve \in Reserves /\ before.reserve \in Nat
    BY LevelsAssumption DEF TypeOK, Station
  <1>2. CASE op.kind = "cap" /\ station.reserve > op.level
    <2>1. op.level \in before.reserve..station.reserve
      BY <1>1, <1>2 DEF Guard
    <2>2. op.level \in Reserves
      BY <1>1, <2>1, LevelsAssumption
    <2> QED
      BY <1>1, <1>2, <2>2 DEF Fitted, Station
  <1>3. CASE op.kind = "floor" /\ station.reserve <= op.level
    <2>1. op.level + 1 \in station.reserve..before.reserve
      BY <1>1, <1>3 DEF Guard
    <2>2. op.level + 1 \in Reserves
      BY <1>1, <2>1, LevelsAssumption
    <2> QED
      BY <1>1, <1>3, <2>2 DEF Fitted, Station
  <1>4. CASE /\ ~(op.kind = "cap" /\ station.reserve > op.level)
             /\ ~(op.kind = "floor" /\ station.reserve <= op.level)
    <2>1. Fitted(station).reserve = station.reserve
      BY <1>1, <1>4 DEF Fitted, Station
    <2> QED
      BY <1>1, <1>4, <2>1 DEF Fitted, Station
  <1> QED
    BY <1>2, <1>3, <1>4

\* A message of the station is no acknowledgement, or it is one.
LEMMA Messages ==
  /\ \A m \in Reports : m.what \in {"status", "note"} /\ m.what # "ack" /\ m.of \in Station
                        /\ m.full \in BOOLEAN /\ m.late \in BOOLEAN /\ m # None
  /\ \A m \in Acks : m.what = "ack" /\ m.code \in {"ok", "rejected"} /\ m # None /\ m = Ack(m.code)
  /\ \A what \in {"status", "note"}, full \in BOOLEAN :
       TypeOK => /\ Report(what, full) \in Reports /\ Report(what, full).what = what
                 /\ Report(what, full).of = station /\ Report(what, full).late = arrived
  /\ \A code \in {"ok", "rejected"} : Ack(code) \in Acks
  <1>1. \A m \in Reports : m.what \in {"status", "note"} /\ m.what # "ack" /\ m.of \in Station
                        /\ m.full \in BOOLEAN /\ m.late \in BOOLEAN /\ m # None
    BY NoneAssumption DEF Reports
  <1>2. \A m \in Acks : m.what = "ack" /\ m.code \in {"ok", "rejected"} /\ m # None /\ m = Ack(m.code)
    BY NoneAssumption DEF Acks, Ack
  <1>3. \A what \in {"status", "note"}, full \in BOOLEAN :
       TypeOK => /\ Report(what, full) \in Reports /\ Report(what, full).what = what
                 /\ Report(what, full).of = station /\ Report(what, full).late = arrived
    BY DEF TypeOK, Report, Reports
  <1>4. \A code \in {"ok", "rejected"} : Ack(code) \in Acks
    BY DEF Acks
  <1> QED
    BY <1>1, <1>2, <1>3, <1>4
-----------------------------------------------------------------------------
(* Types. *)

\* Every step keeps the types.
LEMMA TypeKept == IInv /\ [Next]_vars => TypeOK'
  <1> SUFFICES ASSUME IInv, [Next]_vars PROVE TypeOK'
    OBVIOUS
  <1>0. TypeOK
    BY DEF IInv
  <1>1. station' \in Station /\ op' \in [kind : Kinds, level : Levels]
    <2>1. station \in Station /\ op \in [kind : Kinds, level : Levels]
      BY <1>0 DEF TypeOK
    <2>2. CASE AnswerWrite
      <3>1. WriteSent
        <4>1. down # <<>> /\ Head(down) = "write"
          BY <2>2 DEF AnswerWrite
        <4>2. 1 \in DOMAIN down /\ down[1] = "write"
          BY <1>0, <4>1, EmptySeq DEF TypeOK
        <4> QED
          BY <4>2 DEF WriteSent
      <3>2. Fitted(station) \in Station
        BY <1>0, <3>1, FittedIsStation DEF IInv, OneWrite
      <3> QED
        BY <2>1, <2>2, <3>2 DEF AnswerWrite
    <2>3. CASE ~AnswerWrite
      BY <2>1, <2>3
         DEF Next, vars, Control, Environment, Publish, Unavailable, Resume, Wake,
             Silence, Cancel, Receive, AnswerStatus, Note, Touch, Drop, ResumeBaseline,
             ResumeWrite, ResumeSample, Ends, Fails, CloseLink, netVars, runVars,
             histVars, bounds
    <2> QED
      BY <2>2, <2>3
  <1>2. step' \in {"baseline", "write", "sample", "done"}
    BY <1>0
       DEF Next, vars, Control, Environment, Publish, Unavailable, Resume, Wake,
           Silence, Cancel, Receive, AnswerStatus, AnswerWrite, Note, Touch, Drop,
           ResumeBaseline, ResumeWrite, ResumeSample, Ends, Fails, CloseLink, netVars,
           runVars, histVars, bounds, TypeOK
  <1>3. stage' \in {"queued", "sent", "asleep", "idle"}
    BY <1>0
       DEF Next, vars, Control, Environment, Publish, Unavailable, Resume, Wake,
           Silence, Cancel, Receive, AnswerStatus, AnswerWrite, Note, Touch, Drop,
           ResumeBaseline, ResumeWrite, ResumeSample, Ends, Fails, CloseLink, netVars,
           runVars, histVars, bounds, TypeOK
  <1>4. link' \in BOOLEAN
    BY <1>0
       DEF Next, vars, Control, Environment, Publish, Unavailable, Resume, Wake,
           Silence, Cancel, Receive, AnswerStatus, AnswerWrite, Note, Touch, Drop,
           ResumeBaseline, ResumeWrite, ResumeSample, Ends, Fails, CloseLink, netVars,
           runVars, histVars, bounds, TypeOK
  <1>5. down' \in Seq({"status", "write"})
    <2>1. down \in Seq({"status", "write"})
      BY <1>0 DEF TypeOK
    <2>2. CASE Publish
      BY <2>1, <2>2 DEF Publish
    <2>3. CASE down # <<>> /\ down' = Tail(down)
      BY <2>1, <2>3, HeadTailProperties
    <2>4. CASE ~Publish
      <3>1. down' = down \/ down' = <<>> \/ (down # <<>> /\ down' = Tail(down))
        BY <2>4
           DEF Next, vars, Control, Environment, Unavailable, Resume, Wake, Silence,
               Cancel, Receive, AnswerStatus, AnswerWrite, Note, Touch, Drop,
               ResumeBaseline, ResumeWrite, ResumeSample, Ends, Fails, CloseLink,
               netVars, runVars, histVars, bounds
      <3>2. CASE down' = down
        BY <2>1, <3>2
      <3>3. CASE down' = <<>>
        BY <3>3
      <3> QED
        BY <2>3, <3>1, <3>2, <3>3
    <2> QED
      BY <2>2, <2>4
  <1>6. up' \in Seq(Reports \cup Acks)
    <2>1. up \in Seq(Reports \cup Acks)
      BY <1>0 DEF TypeOK
    <2>2. CASE \E m \in Reports \cup Acks : up' = Append(up, m)
      BY <2>1, <2>2
    <2>3. CASE up # <<>> /\ up' = Tail(up)
      BY <2>1, <2>3, HeadTailProperties
    <2>4. CASE AnswerStatus
      BY <1>0, <2>2, <2>4, Messages DEF AnswerStatus
    <2>5. CASE AnswerWrite
      BY <2>1, <2>2, <2>5, Messages DEF AnswerWrite
    <2>6. CASE Note
      BY <1>0, <2>2, <2>6, Messages DEF Note
    <2>7. CASE ~AnswerStatus /\ ~AnswerWrite /\ ~Note
      <3>1. up' = up \/ up' = <<>> \/ (up # <<>> /\ up' = Tail(up))
        BY <2>7
           DEF Next, vars, Control, Environment, Publish, Unavailable, Resume, Wake,
               Silence, Cancel, Receive, Touch, Drop, ResumeBaseline, ResumeWrite,
               ResumeSample, Ends, Fails, CloseLink, netVars, runVars, histVars, bounds
      <3>2. CASE up' = up
        BY <2>1, <3>2
      <3>3. CASE up' = <<>>
        BY <3>3
      <3> QED
        BY <2>3, <3>1, <3>2, <3>3
    <2> QED
      BY <2>4, <2>5, <2>6, <2>7
  <1>7. settled' \in Reports \cup Acks \cup {None} /\ metrics' \in Reports \cup {None}
    <2>1. /\ settled \in Reports \cup Acks \cup {None} /\ metrics \in Reports \cup {None}
          /\ up \in Seq(Reports \cup Acks)
      BY <1>0 DEF TypeOK
    <2>2. CASE Receive
      <3>1. Head(up) \in Reports \cup Acks
        BY <2>1, <2>2, HeadTailProperties DEF Receive
      <3> QED
        BY <2>1, <2>2, <3>1, Messages DEF Receive
    <2>3. CASE ~Receive
      BY <2>1, <2>3
         DEF Next, vars, Control, Environment, Publish, Unavailable, Resume, Wake,
             Silence, Cancel, AnswerStatus, AnswerWrite, Note, Touch, Drop,
             ResumeBaseline, ResumeWrite, ResumeSample, Ends, Fails, CloseLink, netVars,
             runVars, histVars, bounds
    <2> QED
      BY <2>2, <2>3
  <1>8. ack' \in {None, "none", "ok", "rejected"}
    <2>1. ack \in {None, "none", "ok", "rejected"} /\ up \in Seq(Reports \cup Acks)
      BY <1>0 DEF TypeOK
    <2>2. CASE Receive
      <3>1. Head(up) \in Reports \cup Acks
        BY <2>1, <2>2, HeadTailProperties DEF Receive
      <3> QED
        BY <2>1, <2>2, <3>1, Messages DEF Receive, Recorded
    <2>3. CASE ~Receive
      BY <2>1, <2>3
         DEF Next, vars, Control, Environment, Publish, Unavailable, Resume, Wake,
             Silence, Cancel, AnswerStatus, AnswerWrite, Note, Touch, Drop,
             ResumeBaseline, ResumeWrite, ResumeSample, Ends, Fails, CloseLink, netVars,
             runVars, histVars, bounds
    <2> QED
      BY <2>2, <2>3
  <1>9. before' \in Station \cup {None}
    <2>1. /\ settled \in Reports \cup Acks \cup {None} /\ metrics \in Reports \cup {None}
          /\ before \in Station \cup {None}
      BY <1>0 DEF TypeOK
    <2>2. CASE Resume /\ ResumeBaseline
      <3>1. Seen \in Reports
        BY <2>1, <2>2 DEF Seen, Resume, ResumeBaseline, IInv, Steps
      <3> QED
        BY <2>1, <2>2, <3>1, Messages DEF ResumeBaseline
    <2>3. CASE ~(Resume /\ ResumeBaseline)
      BY <2>1, <2>3
         DEF Next, vars, Control, Environment, Publish, Unavailable, Resume, Wake,
             Silence, Cancel, Receive, AnswerStatus, AnswerWrite, Note, Touch, Drop,
             ResumeWrite, ResumeSample, Ends, Fails, CloseLink, netVars, runVars,
             histVars, bounds
    <2> QED
      BY <2>2, <2>3
  <1>10. count' \in 0..1 /\ early' \in 0..2
    <2>1. /\ count \in 0..1 /\ early \in 0..2 /\ Samples \in {1, 2}
          /\ step # "done" => early <= count /\ count < Samples
      BY <1>0 DEF TypeOK, Samples, IInv, Steps
    <2>2. CASE Resume /\ ResumeSample
      <3>1. early' = early \/ early' = early + 1
        BY <2>2 DEF ResumeSample
      <3>2. count' = count \/ (count + 1 # Samples /\ count' = count + 1)
        BY <2>2 DEF ResumeSample, Fails, Ends
      <3>3. step # "done"
        BY <2>2 DEF ResumeSample
      <3> QED
        BY <2>1, <3>1, <3>2, <3>3
    <2>3. CASE ~(Resume /\ ResumeSample)
      BY <2>1, <2>3
         DEF Next, vars, Control, Environment, Publish, Unavailable, Resume, Wake,
             Silence, Cancel, Receive, AnswerStatus, AnswerWrite, Note, Touch, Drop,
             ResumeBaseline, ResumeWrite, Ends, Fails, CloseLink, netVars, runVars,
             histVars, bounds
    <2> QED
      BY <2>2, <2>3
  <1>11. outcome' \in {None, "ok", "error", "cancelled"}
    BY <1>0
       DEF Next, vars, Control, Environment, Publish, Unavailable, Resume, Wake,
           Silence, Cancel, Receive, AnswerStatus, AnswerWrite, Note, Touch, Drop,
           ResumeBaseline, ResumeWrite, ResumeSample, Ends, Fails, CloseLink, netVars,
           runVars, histVars, bounds, TypeOK
  <1>12. arrived' \in BOOLEAN /\ shown' \in BOOLEAN /\ refused' \in BOOLEAN
    <2>1. arrived \in BOOLEAN /\ shown \in BOOLEAN /\ refused \in BOOLEAN
      BY <1>0 DEF TypeOK
    <2>2. CASE AnswerWrite
      <3>1. /\ arrived' = TRUE /\ shown' = Wanted(station')
            /\ \E code \in {"ok", "rejected", None} : refused' = (code = "rejected")
        BY <2>2 DEF AnswerWrite
      <3>2. Wanted(station') \in BOOLEAN
        BY ZenonT(20) DEF Wanted
      <3> QED
        BY <3>1, <3>2
    <2>3. CASE Touch
      BY <2>1, <2>3 DEF Touch
    <2>4. CASE ~AnswerWrite /\ ~Touch
      BY <2>1, <2>4
         DEF Next, vars, Control, Environment, Publish, Unavailable, Resume, Wake,
             Silence, Cancel, Receive, AnswerStatus, Note, Drop, ResumeBaseline,
             ResumeWrite, ResumeSample, Ends, Fails, CloseLink, netVars, runVars,
             histVars, bounds
    <2> QED
      BY <2>2, <2>3, <2>4
  <1>13. notes' \in 0..MaxNotes /\ touches' \in 0..MaxTouches
    <2>1. /\ notes' = notes \/ (notes < MaxNotes /\ notes' = notes + 1)
          /\ touches' = touches \/ (touches < MaxTouches /\ touches' = touches + 1)
      BY DEF Next, vars, Control, Environment, Publish, Unavailable, Resume, Wake,
             Silence, Cancel, Receive, AnswerStatus, AnswerWrite, Note, Touch, Drop,
             ResumeBaseline, ResumeWrite, ResumeSample, Ends, Fails, CloseLink, netVars,
             runVars, histVars, bounds
    <2> QED
      BY <1>0, <2>1, BoundsAssumption DEF TypeOK
  <1> QED
    BY <1>1, <1>2, <1>3, <1>4, <1>5, <1>6, <1>7, <1>8, <1>9, <1>10, <1>11, <1>12, <1>13
       DEF TypeOK
-----------------------------------------------------------------------------
(* The steps of a control. *)

\* A control goes through its steps.
LEMMA StepsKept == IInv /\ [Next]_vars => Steps'
  <1> SUFFICES ASSUME IInv, [Next]_vars PROVE Steps'
    OBVIOUS
  <1>0. TypeOK /\ Steps
    BY DEF IInv
  <1>1. step' = "done" <=> stage' = "idle"
    BY <1>0
       DEF Next, vars, Control, Environment, Publish, Unavailable, Resume, Wake,
           Silence, Cancel, Receive, AnswerStatus, AnswerWrite, Note, Touch, Drop,
           ResumeBaseline, ResumeWrite, ResumeSample, Ends, Fails, CloseLink, netVars,
           runVars, histVars, bounds, Steps
  <1>2. stage' = "asleep" => step' = "sample"
    BY <1>0
       DEF Next, vars, Control, Environment, Publish, Unavailable, Resume, Wake,
           Silence, Cancel, Receive, AnswerStatus, AnswerWrite, Note, Touch, Drop,
           ResumeBaseline, ResumeWrite, ResumeSample, Ends, Fails, CloseLink, netVars,
           runVars, histVars, bounds, Steps
  <1>3. stage' # "sent" => settled' = None
    BY <1>0
       DEF Next, vars, Control, Environment, Publish, Unavailable, Resume, Wake,
           Silence, Cancel, Receive, AnswerStatus, AnswerWrite, Note, Touch, Drop,
           ResumeBaseline, ResumeWrite, ResumeSample, Ends, Fails, CloseLink, netVars,
           runVars, histVars, bounds, Steps
  <1>4. /\ settled' \in Acks => step' = "write"
        /\ settled' \in Reports => step' # "write" /\ (op'.kind \in Shared => metrics' \in Reports)
    <2>1. /\ settled \in Acks => step = "write"
          /\ settled \in Reports => step # "write" /\ (op.kind \in Shared => metrics \in Reports)
          /\ stage # "sent" => settled = None
      BY <1>0 DEF Steps
    <2>2. None \notin Acks /\ None \notin Reports
      BY NoneAssumption
    <2>3. CASE Receive
      <3>1. Head(up) \in Reports \cup Acks
        BY <1>0, <2>3, HeadTailProperties DEF Receive, TypeOK
      <3> QED
        BY <2>1, <2>3, <3>1, Messages DEF Receive, Settles, runVars, Shared
    <2>4. CASE ~Receive
      <3>1. settled' = None \/ UNCHANGED <<settled, metrics, step, op>>
        BY <2>1, <2>4
           DEF Next, vars, Control, Environment, Publish, Unavailable, Resume, Wake,
               Silence, Cancel, AnswerStatus, AnswerWrite, Note, Touch, Drop,
               ResumeBaseline, ResumeWrite, ResumeSample, Ends, Fails, CloseLink,
               netVars, runVars, histVars, bounds
      <3> QED
        BY <2>1, <2>2, <3>1
    <2> QED
      BY <2>3, <2>4
  <1>5. step' # "done" => outcome' = None
    BY <1>0
       DEF Next, vars, Control, Environment, Publish, Unavailable, Resume, Wake,
           Silence, Cancel, Receive, AnswerStatus, AnswerWrite, Note, Touch, Drop,
           ResumeBaseline, ResumeWrite, ResumeSample, Ends, Fails, CloseLink, netVars,
           runVars, histVars, bounds, Steps
  <1>6. /\ step' \in {"baseline", "write"} => count' = 0 /\ early' = 0
        /\ step' # "done" => early' <= count' /\ count' < Samples'
    <2>1. /\ count \in 0..1 /\ early \in 0..2 /\ Samples \in {1, 2} /\ Samples' = Samples
          /\ step # "done" => early <= count /\ count < Samples
          /\ step \in {"baseline", "write"} => count = 0 /\ early = 0
      <3>1. op' = op
        BY DEF Next, vars, Control, Environment, Publish, Unavailable, Resume, Wake,
               Silence, Cancel, Receive, AnswerStatus, AnswerWrite, Note, Touch, Drop,
               ResumeBaseline, ResumeWrite, ResumeSample, Ends, Fails, CloseLink,
               netVars, runVars, histVars, bounds
      <3> QED
        BY <1>0, <3>1 DEF TypeOK, Samples, Steps
    <2>2. CASE Resume /\ ResumeSample
      <3>1. early' = early \/ early' = early + 1
        BY <2>2 DEF ResumeSample
      <3>2. step = "sample" /\ (step' = step \/ step' = "done")
        BY <2>2 DEF ResumeSample, Fails, Ends
      <3>3. step' # "done" => count + 1 # Samples /\ count' = count + 1
        BY <2>2 DEF ResumeSample, Fails, Ends
      <3> QED
        BY <2>1, <3>1, <3>2, <3>3
    <2>3. CASE ~(Resume /\ ResumeSample)
      <3>1. UNCHANGED <<count, early>>
        BY <2>3
           DEF Next, vars, Control, Environment, Publish, Unavailable, Resume, Wake,
               Silence, Cancel, Receive, AnswerStatus, AnswerWrite, Note, Touch, Drop,
               ResumeBaseline, ResumeWrite, Ends, Fails, CloseLink, netVars, runVars,
               histVars, bounds
      <3>2. /\ step = "done" => step' = "done"
            /\ step' \in {"baseline", "write"} => step \in {"baseline", "write"}
        BY <1>0, <2>3
           DEF Next, vars, Control, Environment, Publish, Unavailable, Resume, Wake,
               Silence, Cancel, Receive, AnswerStatus, AnswerWrite, Note, Touch, Drop,
               ResumeBaseline, ResumeWrite, Ends, Fails, CloseLink, netVars, runVars,
               histVars, bounds, Steps
      <3> QED
        BY <2>1, <3>1, <3>2
    <2> QED
      BY <2>2, <2>3
  <1>7. op'.kind = "original" => /\ step' = "write" => stage' # "sent"
                                 /\ step' = "sample" => ack' # None
    <2>1. CASE Receive
      <3>1. Head(up) \in Reports \cup Acks
        BY <1>0, <2>1, HeadTailProperties DEF Receive, TypeOK
      <3> QED
        BY <1>0, <2>1, <3>1, Messages, NoneAssumption DEF Receive, Recorded, Steps, runVars
    <2>2. CASE ~Receive
      BY <1>0, <2>2, NoneAssumption
         DEF Next, vars, Control, Environment, Publish, Unavailable, Resume, Wake,
             Silence, Cancel, AnswerStatus, AnswerWrite, Note, Touch, Drop,
             ResumeBaseline, ResumeWrite, ResumeSample, Ends, Fails, CloseLink, netVars,
             runVars, histVars, bounds, Steps
    <2> QED
      BY <2>1, <2>2
  <1>8. ~link' => down' = <<>> /\ up' = <<>>
    BY <1>0
       DEF Next, vars, Control, Environment, Publish, Unavailable, Resume, Wake,
           Silence, Cancel, Receive, AnswerStatus, AnswerWrite, Note, Touch, Drop,
           ResumeBaseline, ResumeWrite, ResumeSample, Ends, Fails, CloseLink, netVars,
           runVars, histVars, bounds, Steps
  <1> QED
    BY <1>1, <1>2, <1>3, <1>4, <1>5, <1>6, <1>7, <1>8 DEF Steps

\* The write is sent once, after its guard.
LEMMA OneWriteKept == IInv /\ [Next]_vars => OneWrite'
  <1> SUFFICES ASSUME IInv, [Next]_vars PROVE OneWrite'
    OBVIOUS
  <1>0. TypeOK /\ Steps /\ OneWrite
    BY DEF IInv
  <1>a. refused' => arrived'
    <2>1. CASE AnswerWrite
      BY <2>1 DEF AnswerWrite
    <2>2. CASE ~AnswerWrite
      <3>1. UNCHANGED <<arrived, refused>>
        BY <2>2
           DEF Next, vars, Control, Environment, Publish, Unavailable, Resume, Wake,
               Silence, Cancel, Receive, AnswerStatus, Note, Touch, Drop,
               ResumeBaseline, ResumeWrite, ResumeSample, Ends, Fails, CloseLink,
               netVars, runVars, histVars, bounds
      <3> QED
        BY <1>0, <3>1 DEF OneWrite
    <2> QED
      BY <2>1, <2>2
  <1>1. CASE Publish
    <2> DEFINE what == IF step = "write" THEN "write" ELSE "status"
    <2>1. down \in Seq({"status", "write"}) /\ down' = Append(down, what)
      BY <1>0, <1>1 DEF TypeOK, Publish
    <2>2. /\ Len(down) \in Nat /\ DOMAIN down = 1..Len(down)
          /\ DOMAIN down' = 1..(Len(down) + 1) /\ down'[Len(down) + 1] = what
          /\ \A i \in 1..Len(down) : down'[i] = down[i]
      BY <2>1, Appended
    <2>3. /\ UNCHANGED <<arrived, before, op, station>> /\ stage = "queued"
          /\ step' = step \/ (step = "write" /\ step' = "sample" /\ op.kind = "original")
          /\ step = "write" => stage' = "sent" \/ step' = "sample"
      BY <1>1 DEF Publish, histVars
    <2>4. CASE step = "write"
      <3>1. ~arrived /\ ~WriteSent /\ before \in Station /\ Guard(before)
        BY <1>0, <2>3, <2>4 DEF OneWrite
      <3>2. \A i \in DOMAIN down' : down'[i] = "write" => i = Len(down) + 1
        BY <2>2, <3>1 DEF WriteSent
      <3>3. Guard(before)'
        BY <2>3, <3>1 DEF Guard
      <3> QED
        BY <1>a, <2>2, <2>3, <2>4, <3>1, <3>2, <3>3 DEF OneWrite
    <2>5. CASE step # "write"
      <3>1. /\ \A i \in DOMAIN down' : down'[i] = "write" => i \in DOMAIN down /\ down[i] = "write"
            /\ WriteSent' => WriteSent
        BY <2>2, <2>5 DEF WriteSent
      <3> QED
        BY <1>0, <1>a, <2>2, <2>3, <2>5, <3>1 DEF OneWrite, Guard
    <2> QED
      BY <2>4, <2>5
  <1>2. CASE AnswerStatus \/ AnswerWrite
    <2>1. /\ down # <<>> /\ down' = Tail(down) /\ down \in Seq({"status", "write"})
          /\ UNCHANGED <<before, op, step, stage>>
          /\ Head(down) \in {"status", "write"}
          /\ arrived' = arrived \/ Head(down) = "write"
      BY <1>0, <1>2 DEF AnswerStatus, AnswerWrite, histVars, runVars, TypeOK
    <2>2. /\ Head(down) = down[1] /\ DOMAIN down = 1..Len(down) /\ Len(down) \in Nat \ {0}
          /\ DOMAIN down' = 1..(Len(down) - 1)
          /\ \A i \in 1..(Len(down) - 1) : down'[i] = down[i + 1]
      BY <2>1, Removed
    <2>3. \A i \in DOMAIN down' : i + 1 \in DOMAIN down /\ down'[i] = down[i + 1]
      BY <2>2
    <2>4. /\ WriteSent' => WriteSent
          /\ Head(down) = "write" => WriteSent /\ ~WriteSent'
      <3>1. WriteSent' => WriteSent
        BY <2>3 DEF WriteSent
      <3>2. Head(down) = "write" => WriteSent
        BY <2>2 DEF WriteSent
      <3>3. Head(down) = "write" => ~WriteSent'
        <4>1. SUFFICES ASSUME Head(down) = "write", NEW i \in DOMAIN down', down'[i] = "write"
                       PROVE  FALSE
          BY DEF WriteSent
        <4>2. i + 1 \in DOMAIN down /\ down[i + 1] = "write" /\ 1 \in DOMAIN down /\ down[1] = "write"
          BY <2>2, <2>3, <4>1
        <4>3. i + 1 = 1 /\ i \in 1..(Len(down) - 1)
          BY <1>0, <2>2, <4>2 DEF OneWrite
        <4> QED
          BY <2>2, <4>3
      <3> QED
        BY <3>1, <3>2, <3>3
    <2>5. \A i, j \in DOMAIN down' : down'[i] = "write" /\ down'[j] = "write" => i = j
      <3>1. SUFFICES ASSUME NEW i \in DOMAIN down', NEW j \in DOMAIN down',
                            down'[i] = "write", down'[j] = "write"
                     PROVE  i = j
        OBVIOUS
      <3>2. i + 1 = j + 1
        BY <1>0, <2>3, <3>1 DEF OneWrite
      <3> QED
        BY <2>2, <3>2
    <2>6. Guard(before)' <=> Guard(before)
      BY <2>1 DEF Guard
    <2> QED
      BY <1>0, <1>a, <2>1, <2>4, <2>5, <2>6 DEF OneWrite
  <1>3. CASE ~Publish /\ ~AnswerStatus /\ ~AnswerWrite
    <2>1. UNCHANGED <<arrived, op>> /\ (down' = down \/ down' = <<>>)
      BY <1>3
         DEF Next, vars, Control, Environment, Unavailable, Resume, Wake, Silence,
             Cancel, Receive, Note, Touch, Drop, ResumeBaseline, ResumeWrite,
             ResumeSample, Ends, Fails, CloseLink, netVars, runVars, histVars, bounds
    <2>2. WriteSent' => WriteSent
      BY <2>1 DEF WriteSent
    <2>3. \A i, j \in DOMAIN down' : down'[i] = "write" /\ down'[j] = "write" => i = j
      BY <1>0, <2>1 DEF OneWrite
    <2>4. CASE Resume /\ ResumeBaseline
      <3>1. ~arrived /\ ~WriteSent /\ step = "baseline"
        BY <1>0, <2>4 DEF OneWrite, ResumeBaseline
      <3>2. step' = "done" \/ (step' = "write" /\ stage' = "queued" /\ before' = Seen.of /\ Guard(Seen.of))
        BY <2>4 DEF ResumeBaseline, Fails, Ends
      <3>3. step' = "write" => before' \in Station /\ Guard(before)'
        <4>1. Seen \in Reports
          BY <1>0, <2>4 DEF Seen, Resume, ResumeBaseline, TypeOK, Steps
        <4>2. Seen.of \in Station
          BY <4>1, Messages
        <4> QED
          BY <2>1, <3>2, <4>2 DEF Guard
      <3> QED
        BY <1>a, <2>1, <2>2, <2>3, <3>1, <3>2, <3>3 DEF OneWrite
    <2>5. CASE ~(Resume /\ ResumeBaseline)
      <3>1. before' = before
        BY <1>3, <2>5
           DEF Next, vars, Control, Environment, Unavailable, Resume, Wake, Silence,
               Cancel, Receive, Note, Touch, Drop, ResumeWrite, ResumeSample, Ends,
               Fails, CloseLink, netVars, runVars, histVars, bounds
      <3>2. /\ step' \in {"write", "sample"} => step \in {"write", "sample"}
            /\ step' = "baseline" \/ (step' = "write" /\ stage' # "sent") =>
                 step = "baseline" \/ (step = "write" /\ stage # "sent")
        BY <1>0, <1>3, <2>5
           DEF Next, vars, Control, Environment, Unavailable, Resume, Wake, Silence,
               Cancel, Receive, Note, Touch, Drop, ResumeWrite, ResumeSample, Ends,
               Fails, CloseLink, netVars, runVars, histVars, bounds, Steps
      <3>3. Guard(before)' <=> Guard(before)
        BY <2>1, <3>1 DEF Guard
      <3> QED
        BY <1>0, <1>a, <2>1, <2>2, <2>3, <3>1, <3>2, <3>3 DEF OneWrite
    <2> QED
      BY <2>4, <2>5
  <1> QED
    BY <1>1, <1>2, <1>3
-----------------------------------------------------------------------------
(* The messages of the station. *)

\* A message is received or sent in a step, not both.
LEMMA ReceiveAlone == IInv /\ Receive => ~AnswerStatus /\ ~AnswerWrite /\ ~Note
  BY DEF IInv, TypeOK, Receive, AnswerStatus, AnswerWrite, Note

\* An answer to a request, or a note, is no answer to the write.
LEMMA SentAlone == AnswerStatus \/ Note => ~AnswerWrite
  BY DEF AnswerStatus, AnswerWrite, Note

\* What each step does to the queue of messages.
LEMMA MessagesMove ==
  ASSUME IInv, [Next]_vars
  PROVE  \/ /\ up # <<>> /\ Receive /\ Head(up) = up[1] /\ up[1] \in Reports \cup Acks
            /\ DOMAIN up = 1..Len(up) /\ DOMAIN up' = 1..(Len(up) - 1) /\ Len(up) \in Nat \ {0}
            /\ \A i \in 1..(Len(up) - 1) : up'[i] = up[i + 1]
         \/ /\ AnswerStatus \/ AnswerWrite \/ Note
            /\ DOMAIN up = 1..Len(up) /\ DOMAIN up' = 1..(Len(up) + 1) /\ Len(up) \in Nat
            /\ \A i \in 1..Len(up) : up'[i] = up[i]
            /\ up'[Len(up) + 1] \in Reports \cup Acks
            /\ up'[Len(up) + 1] \in Reports =>
                 up'[Len(up) + 1].late = arrived /\ up'[Len(up) + 1].of = station
            /\ AnswerStatus => up'[Len(up) + 1] \in Reports
            /\ AnswerWrite => \E code \in {"ok", "rejected"} :
                 up'[Len(up) + 1] = Ack(code) /\ refused' = (code = "rejected")
            /\ Note => \/ up'[Len(up) + 1] \in Reports /\ up'[Len(up) + 1].what = "note"
                       \/ up'[Len(up) + 1] \in Acks /\ op.kind = "original"
         \/ ~Receive /\ ~AnswerStatus /\ ~Note /\ (up' = up \/ up' = <<>>)
              /\ (AnswerWrite => up' = up)
  <1>0. TypeOK /\ up \in Seq(Reports \cup Acks)
    BY DEF IInv, TypeOK
  <1>1. CASE Receive
    <2>1. up # <<>> /\ up' = Tail(up)
      BY <1>1 DEF Receive
    <2> QED
      BY <1>0, <1>1, <2>1, Removed
  <1>2. CASE AnswerStatus
    <2>1. PICK what \in {"status", "note"}, full \in BOOLEAN : up' = Append(up, Report(what, full))
      BY <1>2 DEF AnswerStatus
    <2>2. PICK m \in Reports : m = Report(what, full) /\ m.of = station /\ m.late = arrived
      BY <1>0, Messages
    <2>3. up' = Append(up, m) /\ m \in Reports \cup Acks
      BY <2>1, <2>2
    <2>4. /\ DOMAIN up = 1..Len(up) /\ DOMAIN up' = 1..(Len(up) + 1) /\ Len(up) \in Nat
          /\ \A i \in 1..Len(up) : up'[i] = up[i]
          /\ up'[Len(up) + 1] = m
      BY <1>0, <2>3, Appended
    <2>5. ~AnswerWrite /\ ~Note
      BY <1>2 DEF AnswerStatus, AnswerWrite, Note
    <2> QED
      BY <1>2, <2>2, <2>3, <2>4, <2>5
  <1>3. CASE AnswerWrite
    <2>1. PICK code \in {"ok", "rejected", None} :
            /\ up' = IF code = None THEN up ELSE Append(up, Ack(code))
            /\ refused' = (code = "rejected")
      BY <1>3 DEF AnswerWrite
    <2>2. ~AnswerStatus /\ ~Note /\ ~Receive
      <3>1. ~AnswerStatus /\ ~Note
        BY <1>3 DEF AnswerStatus, AnswerWrite, Note
      <3>2. ~Receive
        BY <1>3 DEF AnswerWrite, Receive, IInv, TypeOK
      <3> QED
        BY <3>1, <3>2
    <2>3. CASE code = None
      BY <1>3, <2>1, <2>2, <2>3
    <2>4. CASE code # None
      <3>1. PICK m \in Acks : m = Ack(code)
        BY <2>1, <2>4, Messages
      <3>2. up' = Append(up, m) /\ m \in Reports \cup Acks /\ m \notin Reports
        BY <2>1, <2>4, <3>1, Messages
      <3>3. /\ DOMAIN up = 1..Len(up) /\ DOMAIN up' = 1..(Len(up) + 1) /\ Len(up) \in Nat
            /\ \A i \in 1..Len(up) : up'[i] = up[i]
            /\ up'[Len(up) + 1] = m
        BY <1>0, <3>2, Appended
      <3> QED
        BY <1>3, <2>1, <2>2, <2>4, <3>1, <3>2, <3>3
    <2> QED
      BY <2>3, <2>4
  <1>4. CASE Note
    <2>1. PICK m \in Reports \cup Acks :
            /\ up' = Append(up, m)
            /\ m \in Reports => m.late = arrived /\ m.of = station
            /\ \/ m \in Reports /\ m.what = "note"
               \/ m \in Acks /\ op.kind = "original"
      <3>1. CASE \E full \in BOOLEAN : up' = Append(up, Report("note", full))
        BY <1>0, <3>1, Messages
      <3>2. CASE op.kind = "original" /\ up' = Append(up, Ack("ok"))
        BY <3>2, Messages
      <3> QED
        BY <1>4, <3>1, <3>2 DEF Note
    <2>2. /\ DOMAIN up = 1..Len(up) /\ DOMAIN up' = 1..(Len(up) + 1) /\ Len(up) \in Nat
          /\ \A i \in 1..Len(up) : up'[i] = up[i]
          /\ up'[Len(up) + 1] = m
      BY <1>0, <2>1, Appended
    <2>3. ~AnswerStatus /\ ~AnswerWrite
      BY <1>4 DEF AnswerStatus, AnswerWrite, Note
    <2> QED
      BY <1>4, <2>1, <2>2, <2>3
  <1>5. CASE ~Receive /\ ~AnswerStatus /\ ~AnswerWrite /\ ~Note
    <2>1. up' = up \/ up' = <<>>
      BY <1>5
         DEF Next, vars, Control, Environment, Publish, Unavailable, Resume, Wake,
             Silence, Cancel, Touch, Drop, ResumeBaseline, ResumeWrite, ResumeSample,
             Ends, Fails, CloseLink, netVars, runVars, histVars, bounds
    <2> QED
      BY <1>5, <2>1
  <1> QED
    BY <1>1, <1>2, <1>3, <1>4, <1>5

\* What was late stays late, and what was held stays held, until the end.
LEMMA TruthKept ==
  ASSUME IInv, [Next]_vars, NEW m, m \in Reports, Truthful(m)
  PROVE  Truthful(m)'
  <1>0. TypeOK /\ OneWrite
    BY DEF IInv
  <1>1. op' = op
    BY DEF Next, vars, Control, Environment, Publish, Unavailable, Resume, Wake,
           Silence, Cancel, Receive, AnswerStatus, AnswerWrite, Note, Touch, Drop,
           ResumeBaseline, ResumeWrite, ResumeSample, Ends, Fails, CloseLink, netVars,
           runVars, histVars, bounds
  <1>2. CASE AnswerWrite
    <2>1. WriteSent
      <3>1. down # <<>> /\ Head(down) = "write"
        BY <1>2 DEF AnswerWrite
      <3>2. 1 \in DOMAIN down /\ down[1] = "write"
        BY <1>0, <3>1, EmptySeq DEF TypeOK
      <3> QED
        BY <3>2 DEF WriteSent
    <2> QED
      BY <1>0, <2>1 DEF OneWrite, Truthful, Late
  <1>3. CASE Resume /\ ResumeBaseline
    BY <1>0, <1>3 DEF OneWrite, ResumeBaseline, Resume, Truthful, Late
  <1>4. CASE ~AnswerWrite /\ ~(Resume /\ ResumeBaseline)
    <2>1. before' = before /\ arrived' = arrived /\ (shown => shown')
      <3>1. before' = before /\ arrived' = arrived
        BY <1>4
           DEF Next, vars, Control, Environment, Publish, Unavailable, Resume, Wake,
               Silence, Cancel, Receive, AnswerStatus, Note, Touch, Drop, ResumeWrite,
               ResumeSample, Ends, Fails, CloseLink, netVars, runVars, histVars, bounds
      <3>2. CASE Touch
        BY <3>1, <3>2 DEF Touch
      <3>3. CASE ~Touch
        <4>1. shown' = shown
          BY <1>4, <3>3
             DEF Next, vars, Control, Environment, Publish, Unavailable, Resume, Wake,
                 Silence, Cancel, Receive, AnswerStatus, Note, Drop, ResumeWrite,
                 ResumeSample, Ends, Fails, CloseLink, netVars, runVars, histVars,
                 bounds
        <4> QED
          BY <3>1, <4>1
      <3> QED
        BY <3>2, <3>3
    <2>2. Wanted(m.of)' <=> Wanted(m.of)
      BY <1>1, <2>1 DEF Wanted
    <2> QED
      BY <2>1, <2>2 DEF Truthful, Late
  <1> QED
    BY <1>2, <1>3, <1>4

\* The messages arrive in order, and the late ones are truthful.
LEMMA OrderKept == IInv /\ [Next]_vars => Order'
  <1> SUFFICES ASSUME IInv, [Next]_vars PROVE Order'
    OBVIOUS
  <1>0. TypeOK /\ Steps /\ OneWrite /\ Order
    BY DEF IInv
  <1>1. op' = op
    BY DEF Next, vars, Control, Environment, Publish, Unavailable, Resume, Wake,
           Silence, Cancel, Receive, AnswerStatus, AnswerWrite, Note, Touch, Drop,
           ResumeBaseline, ResumeWrite, ResumeSample, Ends, Fails, CloseLink, netVars,
           runVars, histVars, bounds
  <1>2. arrived' /\ Wanted(station)' => shown'
    <2>1. CASE AnswerWrite
      BY <1>1, <2>1 DEF AnswerWrite, Wanted
    <2>2. CASE Touch
      BY <1>1, <2>2 DEF Touch, Wanted, histVars, runVars
    <2>3. CASE Resume /\ ResumeBaseline
      <3>1. ~arrived /\ arrived' = arrived
        BY <1>0, <2>3 DEF OneWrite, ResumeBaseline, Resume
      <3> QED
        BY <3>1
    <2>4. CASE ~AnswerWrite /\ ~Touch /\ ~(Resume /\ ResumeBaseline)
      <3>1. UNCHANGED <<before, arrived, shown, station>>
        BY <2>4
           DEF Next, vars, Control, Environment, Publish, Unavailable, Resume, Wake,
               Silence, Cancel, Receive, AnswerStatus, Note, Drop, ResumeWrite,
               ResumeSample, Ends, Fails, CloseLink, netVars, runVars, histVars, bounds
      <3>2. Wanted(station)' <=> Wanted(station)
        BY <1>1, <3>1 DEF Wanted
      <3> QED
        BY <1>0, <3>1, <3>2 DEF Order
    <2> QED
      BY <2>1, <2>2, <2>3, <2>4
  <1>3. \A m \in Reports \cup Acks : Truthful(m) => Truthful(m)'
    <2>1. SUFFICES ASSUME NEW m \in Reports \cup Acks, Truthful(m) PROVE Truthful(m)'
      OBVIOUS
    <2>2. CASE m \in Reports
      BY <2>1, <2>2, TruthKept
    <2>3. CASE m \in Acks
      BY <2>3, Messages DEF Truthful, Late
    <2> QED
      BY <2>2, <2>3
  <1>4. \A i \in DOMAIN up : up[i] \in Reports \cup Acks /\ Truthful(up[i])
    BY <1>0 DEF TypeOK, Order
  <1>5. \A i \in DOMAIN up' : up'[i] \in Reports \cup Acks /\ Truthful(up'[i])
    <2>1. SUFFICES ASSUME NEW i \in DOMAIN up'
                   PROVE  up'[i] \in Reports \cup Acks /\ Truthful(up'[i])
      OBVIOUS
    <2>2. CASE \E j \in DOMAIN up : up'[i] = up[j]
      BY <1>4, <2>2
    <2>3. CASE /\ up'[i] \in Reports \cup Acks
               /\ up'[i] \in Reports => up'[i].late = arrived /\ up'[i].of = station
      BY <1>0, <2>3, Messages DEF Order, Truthful, Late
    <2> QED
      BY <2>2, <2>3, MessagesMove
  <1>6. \A i \in DOMAIN up' : Truthful(up[i])'
    <2>1. SUFFICES ASSUME NEW i \in DOMAIN up' PROVE Truthful(up[i])'
      OBVIOUS
    <2>2. PICK m \in Reports \cup Acks : m = up'[i] /\ Truthful(m)
      BY <1>5
    <2>3. Truthful(m)'
      BY <1>3, <2>2
    <2> QED
      BY <2>2, <2>3 DEF Truthful, Late, Wanted
  <1>7. \A m \in Reports : (m = settled' \/ m = metrics') => Truthful(m)'
    <2>1. SUFFICES ASSUME NEW m \in Reports, m = settled' \/ m = metrics'
                   PROVE  Truthful(m)
      BY <1>3
    <2>2. CASE Receive
      <3>1. /\ settled' = settled \/ settled' = Head(up)
            /\ metrics' = metrics \/ metrics' = Head(up)
            /\ ~AnswerStatus /\ ~AnswerWrite /\ ~Note
        BY <1>0, <2>2 DEF Receive, AnswerStatus, AnswerWrite, Note, TypeOK
      <3>2. Head(up) = up[1] /\ 1 \in DOMAIN up
        BY <2>2, <3>1, MessagesMove
      <3> QED
        BY <1>0, <1>4, <2>1, <3>1, <3>2 DEF Order
    <2>3. CASE ~Receive
      <3>1. metrics' = metrics /\ (settled' = settled \/ settled' = None)
        BY <2>3
           DEF Next, vars, Control, Environment, Publish, Unavailable, Resume, Wake,
               Silence, Cancel, AnswerStatus, AnswerWrite, Note, Touch, Drop,
               ResumeBaseline, ResumeWrite, ResumeSample, Ends, Fails, CloseLink,
               netVars, runVars, histVars, bounds
      <3> QED
        BY <1>0, <2>1, <3>1, NoneAssumption DEF Order
    <2> QED
      BY <2>2, <2>3
  <1>8. (settled' \in Reports => Truthful(settled)') /\ (metrics' \in Reports => Truthful(metrics)')
    <2>1. ASSUME settled' \in Reports PROVE Truthful(settled)'
      <3>1. PICK m \in Reports : m = settled'
        BY <2>1
      <3>2. Truthful(m)'
        BY <1>7, <3>1
      <3> QED
        BY <3>1, <3>2 DEF Truthful, Late, Wanted
    <2>2. ASSUME metrics' \in Reports PROVE Truthful(metrics)'
      <3>1. PICK m \in Reports : m = metrics'
        BY <2>2
      <3>2. Truthful(m)'
        BY <1>7, <3>1
      <3> QED
        BY <3>1, <3>2 DEF Truthful, Late, Wanted
    <2> QED
      BY <2>1, <2>2
  <1>9. /\ \A i, j \in DOMAIN up' : i < j /\ Late(up[i])' /\ up'[j].what # "ack" => up'[j].late
        /\ metrics' \in Reports /\ Late(metrics)' =>
             \A i \in DOMAIN up' : up'[i].what # "ack" => up'[i].late
    <2>1. CASE Receive
      <3>1. /\ DOMAIN up = 1..Len(up) /\ DOMAIN up' = 1..(Len(up) - 1) /\ Len(up) \in Nat \ {0}
            /\ \A i \in 1..(Len(up) - 1) : up'[i] = up[i + 1]
            /\ Head(up) = up[1]
        <4>1. ~AnswerStatus /\ ~AnswerWrite /\ ~Note
          BY <1>0, <2>1 DEF Receive, AnswerStatus, AnswerWrite, Note, TypeOK
        <4> QED
          BY <2>1, <4>1, MessagesMove
      <3>2. metrics' = metrics \/ metrics' = up[1]
        BY <2>1, <3>1 DEF Receive
      <3>3. \A i \in DOMAIN up' : i + 1 \in DOMAIN up /\ up'[i] = up[i + 1] /\ 1 < i + 1
        BY <3>1
      <3>4. 1 \in DOMAIN up
        BY <3>1
      <3>5. ASSUME NEW i \in DOMAIN up', NEW j \in DOMAIN up', i < j, Late(up[i])',
                   up'[j].what # "ack"
            PROVE  up'[j].late
        <4>1. i + 1 < j + 1 /\ Late(up[i + 1])
          BY <3>1, <3>3, <3>5 DEF Late
        <4> QED
          BY <1>0, <3>3, <3>5, <4>1 DEF Order
      <3>6. ASSUME metrics' \in Reports, Late(metrics)', NEW i \in DOMAIN up', up'[i].what # "ack"
            PROVE  up'[i].late
        <4>1. CASE metrics' = metrics
          BY <1>0, <3>3, <3>6, <4>1 DEF Order, Late
        <4>2. CASE metrics' = up[1]
          BY <1>0, <3>3, <3>4, <3>6, <4>2 DEF Order, Late
        <4> QED
          BY <3>2, <4>1, <4>2
      <3> QED
        BY <3>5, <3>6
    <2>2. CASE ~Receive
      <3>1. metrics' = metrics
        BY <2>2
           DEF Next, vars, Control, Environment, Publish, Unavailable, Resume, Wake,
               Silence, Cancel, AnswerStatus, AnswerWrite, Note, Touch, Drop,
               ResumeBaseline, ResumeWrite, ResumeSample, Ends, Fails, CloseLink,
               netVars, runVars, histVars, bounds
      <3>2. CASE up' = up \/ up' = <<>>
        BY <1>0, <3>1, <3>2 DEF Order, Late
      <3>3. CASE /\ DOMAIN up = 1..Len(up) /\ DOMAIN up' = 1..(Len(up) + 1) /\ Len(up) \in Nat
                 /\ \A i \in 1..Len(up) : up'[i] = up[i]
                 /\ up'[Len(up) + 1] \in Reports \cup Acks
                 /\ up'[Len(up) + 1] \in Reports =>
                      up'[Len(up) + 1].late = arrived /\ up'[Len(up) + 1].of = station
        <4>1. up'[Len(up) + 1].what # "ack" => up'[Len(up) + 1].late = arrived
          BY <3>3, Messages
        <4>2. \A i \in DOMAIN up' : (i \in DOMAIN up /\ up'[i] = up[i]) \/ i = Len(up) + 1
          BY <3>3
        <4>3. \A i \in DOMAIN up : Late(up[i]) => arrived
          BY <1>0 DEF Order, Truthful
        <4>4. metrics \in Reports /\ Late(metrics) => arrived
          BY <1>0 DEF Order, Truthful
        <4>5. ASSUME NEW i \in DOMAIN up', NEW j \in DOMAIN up', i < j, Late(up[i])',
                     up'[j].what # "ack"
              PROVE  up'[j].late
          <5>1. i \in DOMAIN up /\ up'[i] = up[i] /\ Late(up[i])
            <6>1. i # Len(up) + 1
              BY <3>3, <4>5
            <6> QED
              BY <4>2, <4>5, <6>1 DEF Late
          <5>2. CASE j \in DOMAIN up /\ up'[j] = up[j]
            BY <1>0, <4>5, <5>1, <5>2 DEF Order
          <5>3. CASE j = Len(up) + 1
            BY <4>1, <4>3, <4>5, <5>1, <5>3
          <5> QED
            BY <4>2, <5>2, <5>3
        <4>6. ASSUME metrics' \in Reports, Late(metrics)', NEW i \in DOMAIN up', up'[i].what # "ack"
              PROVE  up'[i].late
          <5>1. metrics \in Reports /\ Late(metrics)
            BY <3>1, <4>6 DEF Late
          <5>2. CASE i \in DOMAIN up /\ up'[i] = up[i]
            BY <1>0, <4>6, <5>1, <5>2 DEF Order
          <5>3. CASE i = Len(up) + 1
            BY <4>1, <4>4, <4>6, <5>1, <5>3
          <5> QED
            BY <4>2, <5>2, <5>3
        <4> QED
          BY <4>5, <4>6
      <3> QED
        BY <2>2, <3>2, <3>3, MessagesMove
    <2> QED
      BY <2>1, <2>2
  <1> QED
    BY <1>2, <1>6, <1>8, <1>9 DEF Order
-----------------------------------------------------------------------------
(* The settings but the original ones. *)

\* One request at a time is on its way, or its answer is.
LEMMA ExchangeKept == IInv /\ [Next]_vars => Exchange'
  <1> SUFFICES ASSUME IInv, [Next]_vars PROVE Exchange'
    OBVIOUS
  <1>a. op' = op
    BY DEF Next, vars, Control, Environment, Publish, Unavailable, Resume, Wake,
           Silence, Cancel, Receive, AnswerStatus, AnswerWrite, Note, Touch, Drop,
           ResumeBaseline, ResumeWrite, ResumeSample, Ends, Fails, CloseLink, netVars,
           runVars, histVars, bounds
  <1> SUFFICES ASSUME op.kind # "original" PROVE Exchange'
    BY <1>a DEF Exchange
  <1>0. TypeOK /\ Steps /\ Exchange
    BY DEF IInv
  <1>1. /\ step # "done" => Quiet \/ (Pending /\ (OnItsWay \/ Answering))
        /\ step = "done" => down = <<>>
        /\ op' = op
    BY <1>0, <1>a DEF Exchange
  <1>2. CASE Publish
    <2>1. /\ step' = step /\ stage' = "sent" /\ stage = "queued" /\ UNCHANGED <<up, settled>>
          /\ down' = Append(down, IF step = "write" THEN "write" ELSE "status")
      BY <1>2 DEF Publish
    <2>2. settled = None /\ step # "done" /\ Quiet
      BY <1>0, <1>1, <2>1 DEF Steps, Pending
    <2>3. Pending' /\ OnItsWay'
      BY <2>1, <2>2 DEF Pending, OnItsWay, Quiet
    <2> QED
      BY <1>1, <2>1, <2>2, <2>3 DEF Exchange
  <1>3. CASE Receive
    <2>1. /\ DOMAIN up = 1..Len(up) /\ DOMAIN up' = 1..(Len(up) - 1) /\ Len(up) \in Nat \ {0}
          /\ \A i \in 1..(Len(up) - 1) : up'[i] = up[i + 1]
          /\ Head(up) = up[1] /\ up[1] \in Reports \cup Acks
      <3>1. ~AnswerStatus /\ ~AnswerWrite /\ ~Note
        BY <1>0, <1>3 DEF Receive, AnswerStatus, AnswerWrite, Note, TypeOK
      <3> QED
        BY <1>3, <3>1, MessagesMove
    <2>2. UNCHANGED <<step, stage, down>>
      BY <1>3 DEF Receive, runVars
    <2>3. /\ \A i \in DOMAIN up' : i + 1 \in DOMAIN up /\ up'[i] = up[i + 1] /\ 1 # i + 1
          /\ 1 \in DOMAIN up
      BY <2>1
    <2>4. CASE step = "done"
      BY <1>1, <2>2, <2>4 DEF Exchange
    <2>5. CASE step # "done" /\ Quiet
      <3>1. Quiet'
        BY <2>2, <2>3, <2>5 DEF Quiet
      <3> QED
        BY <2>2, <2>5, <3>1 DEF Exchange
    <2>6. CASE step # "done" /\ Pending /\ OnItsWay
      <3>1. settled' = settled
        <4>1. up[1].what = "note"
          BY <2>3, <2>6 DEF OnItsWay
        <4> QED
          BY <1>3, <2>1, <4>1 DEF Receive, Settles
      <3>2. Pending' /\ OnItsWay'
        BY <2>2, <2>3, <2>6, <3>1 DEF Pending, OnItsWay
      <3> QED
        BY <2>2, <2>6, <3>2 DEF Exchange
    <2>7. CASE step # "done" /\ Pending /\ Answering
      <3>1. CASE up[1].what = "note"
        <4>1. settled' = settled
          BY <1>3, <2>1, <3>1 DEF Receive, Settles
        <4>2. Pending' /\ down' = <<>>
          BY <2>2, <2>7, <4>1 DEF Pending, Answering
        <4>3. \E k \in DOMAIN up' : up'[k].what = IF step' = "write" THEN "ack" ELSE "status"
          <5>1. PICK k \in DOMAIN up : up[k].what = IF step = "write" THEN "ack" ELSE "status"
            BY <2>7 DEF Answering
          <5>2. k # 1
            BY <3>1, <5>1
          <5>3. k - 1 \in DOMAIN up' /\ up'[k - 1] = up[k]
            BY <2>1, <5>1, <5>2
          <5> QED
            BY <2>2, <5>1, <5>3
        <4>4. \A i, j \in DOMAIN up' : up'[i].what # "note" /\ up'[j].what # "note" => i = j
          <5>1. \A i, j \in DOMAIN up' : up'[i].what # "note" /\ up'[j].what # "note" => i + 1 = j + 1
            BY <2>3, <2>7 DEF Answering
          <5> QED
            BY <2>1, <5>1
        <4>5. \A i \in DOMAIN up' :
                up'[i].what # "note" => up'[i].what = IF step' = "write" THEN "ack" ELSE "status"
          BY <2>2, <2>3, <2>7 DEF Answering
        <4>6. Answering'
          BY <4>2, <4>3, <4>4, <4>5 DEF Answering
        <4> QED
          BY <2>2, <2>7, <4>2, <4>6 DEF Exchange
      <3>2. CASE up[1].what # "note"
        <4>1. \A i \in DOMAIN up' : up'[i].what = "note"
          BY <2>3, <2>7, <3>2 DEF Answering
        <4>2. Quiet'
          BY <2>2, <2>7, <4>1 DEF Quiet, Answering
        <4> QED
          BY <2>2, <2>7, <4>2 DEF Exchange
      <3> QED
        BY <3>1, <3>2
    <2> QED
      BY <1>1, <2>4, <2>5, <2>6, <2>7
  <1>4. CASE AnswerStatus \/ AnswerWrite
    <2>1. /\ down # <<>> /\ down' = Tail(down) /\ down \in Seq({"status", "write"})
          /\ UNCHANGED <<step, stage, settled>> /\ ~Receive /\ ~Note
          /\ Head(down) = IF AnswerWrite THEN "write" ELSE "status"
      BY <1>0, <1>4 DEF AnswerStatus, AnswerWrite, Receive, Note, runVars, TypeOK
    <2>2. step # "done" /\ Pending /\ OnItsWay
      BY <1>1, <2>1 DEF Quiet, Answering
    <2>3. /\ down = <<IF step = "write" THEN "write" ELSE "status">>
          /\ \A i \in DOMAIN up : up[i].what = "note"
      BY <2>2 DEF OnItsWay
    <2>4. down' = <<>> /\ (AnswerWrite <=> step = "write") /\ Pending'
      <3>1. down' = <<>>
        BY <2>1, <2>3
      <3>2. Head(down) = IF step = "write" THEN "write" ELSE "status"
        BY <2>3
      <3> QED
        BY <2>1, <2>2, <3>1, <3>2 DEF Pending
    <2>5. CASE up' = up
      BY <2>1, <2>2, <2>3, <2>4, <2>5 DEF Exchange, Quiet
    <2>6. CASE up' # up
      <3>1. /\ DOMAIN up = 1..Len(up) /\ DOMAIN up' = 1..(Len(up) + 1) /\ Len(up) \in Nat
            /\ \A i \in 1..Len(up) : up'[i] = up[i]
            /\ up'[Len(up) + 1].what = IF step = "write" THEN "ack" ELSE "status"
        <4>1. CASE AnswerStatus
          <5>1. up \in Seq(Reports \cup Acks)
            BY <1>0 DEF TypeOK
          <5>2. PICK full \in BOOLEAN : up' = Append(up, Report("status", full))
            BY <4>1 DEF AnswerStatus
          <5>3. PICK m \in Reports : m = Report("status", full) /\ m.what = "status"
            BY <1>0, Messages
          <5>4. up' = Append(up, m) /\ m \in Reports \cup Acks
            BY <5>2, <5>3
          <5>5. step # "write"
            BY <2>1, <2>4, <4>1 DEF AnswerStatus, AnswerWrite
          <5> QED
            BY <5>1, <5>3, <5>4, <5>5, Appended
        <4>2. CASE AnswerWrite
          BY <2>1, <2>4, <2>6, <4>2, MessagesMove, Messages
        <4> QED
          BY <1>4, <4>1, <4>2
      <3>2. \A i \in DOMAIN up' : up'[i].what # "note" => i = Len(up) + 1
        BY <2>3, <3>1
      <3>3. Answering'
        BY <2>1, <2>4, <3>1, <3>2 DEF Answering
      <3> QED
        BY <2>1, <2>2, <2>4, <3>3 DEF Exchange
    <2> QED
      BY <2>5, <2>6
  <1>5. CASE Note
    <2>1. /\ UNCHANGED <<step, stage, settled, down>> /\ step # "done" /\ ~Receive
          /\ ~AnswerStatus /\ ~AnswerWrite
      BY <1>0, <1>5 DEF Note, Receive, AnswerStatus, AnswerWrite, runVars, TypeOK
    <2>2. /\ DOMAIN up = 1..Len(up) /\ DOMAIN up' = 1..(Len(up) + 1) /\ Len(up) \in Nat
          /\ \A i \in 1..Len(up) : up'[i] = up[i]
          /\ up'[Len(up) + 1].what = "note"
      BY <1>5, <2>1, MessagesMove
    <2>3. /\ \A i \in DOMAIN up' : (i \in DOMAIN up /\ up'[i] = up[i]) \/ up'[i].what = "note"
          /\ \A i \in DOMAIN up : i \in DOMAIN up' /\ up'[i] = up[i]
      BY <2>2
    <2>4. Quiet => Quiet'
      BY <2>1, <2>3 DEF Quiet
    <2>5. Pending => Pending'
      BY <2>1 DEF Pending
    <2>6. OnItsWay => OnItsWay'
      BY <2>1, <2>3 DEF OnItsWay
    <2>7. Answering => Answering'
      BY <2>1, <2>3 DEF Answering
    <2> QED
      BY <1>1, <2>1, <2>4, <2>5, <2>6, <2>7 DEF Exchange
  <1>6. CASE Resume
    <2>1. /\ stage = "sent" /\ settled # None /\ UNCHANGED <<down, up>>
      BY <1>6 DEF Resume
    <2>2. Quiet
      BY <1>0, <1>1, <2>1 DEF Pending, Steps
    <2> QED
      BY <2>1, <2>2 DEF Exchange, Quiet
  <1>7. CASE Unavailable
    <2>1. down = <<>> /\ down' = down /\ step' = "done"
      BY <1>0, <1>7 DEF Unavailable, Fails, Ends, Steps, netVars
    <2> QED
      BY <2>1 DEF Exchange
  <1>8. CASE Silence
    <2>1. down' = <<>> /\ step' = "done"
      BY <1>8 DEF Silence, CloseLink, Fails, Ends
    <2> QED
      BY <2>1 DEF Exchange
  <1>9. CASE Cancel
    <2>1. step' = "done" /\ (down' = <<>> \/ (down' = down /\ stage # "sent"))
      BY <1>9 DEF Cancel, CloseLink, Ends, netVars
    <2>2. down' = <<>>
      BY <1>0, <1>1, <1>9, <2>1 DEF Quiet, Pending, Steps, Cancel
    <2> QED
      BY <2>1, <2>2 DEF Exchange
  <1>10. CASE Drop
    <2>1. down' = <<>> /\ up' = <<>>
      BY <1>10 DEF Drop
    <2> QED
      BY <2>1 DEF Exchange, Quiet
  <1>11. CASE Wake
    <2>1. UNCHANGED <<step, down, up, settled>> /\ stage # "sent"
      BY <1>11 DEF Wake, netVars
    <2> QED
      BY <1>1, <2>1 DEF Exchange, Quiet, Pending
  <1>12. CASE UNCHANGED <<step, stage, settled, down, up>>
    BY <1>1, <1>12 DEF Exchange, Quiet, Pending, OnItsWay, Answering
  <1>13. CASE Touch \/ UNCHANGED vars
    BY <1>12, <1>13 DEF Touch, vars, runVars, netVars
  <1> QED
    BY <1>2, <1>3, <1>4, <1>5, <1>6, <1>7, <1>8, <1>9, <1>10, <1>11, <1>13
       DEF Next, Control, Environment

\* The samples are asked for after the write was answered.
LEMMA AnsweredKept == IInv /\ [Next]_vars => Answered'
  <1> SUFFICES ASSUME IInv, [Next]_vars PROVE Answered'
    OBVIOUS
  <1>a. op' = op
    BY DEF Next, vars, Control, Environment, Publish, Unavailable, Resume, Wake,
           Silence, Cancel, Receive, AnswerStatus, AnswerWrite, Note, Touch, Drop,
           ResumeBaseline, ResumeWrite, ResumeSample, Ends, Fails, CloseLink, netVars,
           runVars, histVars, bounds
  <1> SUFFICES ASSUME op.kind # "original" PROVE Answered'
    BY <1>a DEF Answered
  <1>0. TypeOK /\ Steps /\ OneWrite /\ Order /\ Exchange
    BY DEF IInv
  <1>1. /\ step # "done" => Quiet \/ (Pending /\ (OnItsWay \/ Answering))
        /\ step = "done" => down = <<>>
        /\ step = "write" =>
             \A m \in Acks : (m = settled \/ \E i \in DOMAIN up : up[i] = m) =>
               arrived /\ (m.code = "ok" => ~refused)
        /\ step = "sample" =>
             /\ arrived /\ ~refused
             /\ \A i \in DOMAIN up : up[i].what = "status" => up[i].late
             /\ settled # None =>
                  settled.late /\ (op.kind \in Shared => metrics \in Reports /\ metrics.late)
    BY DEF IInv, Exchange, Answered
  <1>2. CASE Receive
    <2>1. /\ DOMAIN up = 1..Len(up) /\ DOMAIN up' = 1..(Len(up) - 1) /\ Len(up) \in Nat \ {0}
          /\ \A i \in 1..(Len(up) - 1) : up'[i] = up[i + 1]
          /\ Head(up) = up[1] /\ up[1] \in Reports \cup Acks
      <3>1. ~AnswerStatus /\ ~AnswerWrite /\ ~Note
        BY <1>0, <1>2 DEF Receive, AnswerStatus, AnswerWrite, Note, TypeOK
      <3> QED
        BY <1>2, <3>1, MessagesMove
    <2>2. UNCHANGED <<step, stage, arrived, refused>>
      BY <1>2 DEF Receive, runVars, histVars
    <2>3. /\ \A i \in DOMAIN up' : i + 1 \in DOMAIN up /\ up'[i] = up[i + 1]
          /\ 1 \in DOMAIN up
      BY <2>1
    <2>4. /\ settled' = settled \/ (settled' = up[1] /\ settled = None /\ Settles(up[1]))
          /\ metrics' = IF op.kind \in Shared /\ up[1].what # "ack" THEN up[1] ELSE metrics
      BY <1>2, <2>1 DEF Receive
    <2>5. CASE step = "write"
      <3>1. \A m \in Acks : (m = settled' \/ \E i \in DOMAIN up' : up'[i] = m) =>
              (m = settled \/ \E i \in DOMAIN up : up[i] = m)
        BY <2>3, <2>4
      <3> QED
        BY <1>1, <2>2, <2>5, <3>1 DEF Answered
    <2>6. CASE step = "sample"
      <3>1. \A i \in DOMAIN up' : up'[i].what = "status" => up'[i].late
        BY <1>1, <2>3, <2>6
      <3>2. ASSUME settled' # None
            PROVE  settled'.late /\ (op.kind \in Shared => metrics' \in Reports /\ metrics'.late)
        <4>1. CASE settled # None
          <5>1. settled' = settled
            BY <2>4, <4>1
          <5>2. up[1].what = "ack" \/ (up[1] \in Reports /\ up[1].what # "ack")
            BY <2>1, Messages
          <5>3. op.kind \in Shared => (up[1].what # "ack" => up[1].late)
            <6>1. SUFFICES ASSUME op.kind \in Shared, up[1].what # "ack" PROVE up[1].late
              OBVIOUS
            <6>2. metrics \in Reports /\ metrics.late /\ Late(metrics)
              BY <1>1, <2>6, <4>1, <6>1, Messages DEF Late
            <6> QED
              BY <1>0, <2>3, <6>1, <6>2 DEF Order
          <5> QED
            BY <1>1, <2>4, <2>6, <4>1, <5>1, <5>2, <5>3
        <4>2. CASE settled = None
          <5>1. settled' = up[1] /\ Settles(up[1])
            BY <2>4, <3>2, <4>2
          <5>2. up[1].what = "status" /\ up[1] \in Reports
            BY <2>1, <2>6, <5>1, Messages DEF Settles
          <5>3. up[1].late /\ (op.kind \in Shared => metrics' = up[1])
            BY <1>1, <2>3, <2>4, <2>6, <5>2
          <5> QED
            BY <5>1, <5>2, <5>3
        <4> QED
          BY <4>1, <4>2
      <3> QED
        BY <1>1, <1>a, <2>2, <2>6, <3>1, <3>2 DEF Answered
    <2> QED
      BY <2>2, <2>5, <2>6 DEF Answered
  <1>3. CASE AnswerStatus \/ Note
    <2>1. UNCHANGED <<step, settled, metrics, arrived, refused>> /\ ~Receive /\ ~AnswerWrite
      <3>1. UNCHANGED <<step, settled, metrics, arrived, refused>>
        BY <1>3 DEF AnswerStatus, Note, runVars, histVars
      <3> QED
        BY <1>0, <1>3, <3>1 DEF AnswerStatus, AnswerWrite, Receive, Note, TypeOK
    <2>2. /\ DOMAIN up = 1..Len(up) /\ DOMAIN up' = 1..(Len(up) + 1) /\ Len(up) \in Nat
          /\ \A i \in 1..Len(up) : up'[i] = up[i]
          /\ up'[Len(up) + 1] \in Reports /\ up'[Len(up) + 1].late = arrived
      BY <1>3, <2>1, MessagesMove
    <2>3. \A i \in DOMAIN up' : (i \in DOMAIN up /\ up'[i] = up[i])
                                  \/ (up'[i] \in Reports /\ up'[i].late = arrived)
      BY <2>2
    <2>4. \A m \in Acks : (m = settled' \/ \E i \in DOMAIN up' : up'[i] = m) =>
            (m = settled \/ \E i \in DOMAIN up : up[i] = m)
      BY <2>1, <2>3, Messages
    <2> QED
      BY <1>1, <1>a, <2>1, <2>3, <2>4 DEF Answered
  <1>4. CASE AnswerWrite
    <2>1. /\ down # <<>> /\ Head(down) = "write" /\ UNCHANGED <<step, settled>> /\ arrived' = TRUE
      BY <1>4 DEF AnswerWrite, runVars
    <2>2. step # "done" /\ Pending /\ OnItsWay
      BY <1>1, <2>1 DEF Quiet, Answering
    <2>3. /\ step = "write" /\ settled = None
          /\ \A i \in DOMAIN up : up[i].what = "note"
      <3>1. Head(down) = IF step = "write" THEN "write" ELSE "status"
        BY <2>2 DEF OnItsWay
      <3> QED
        BY <2>1, <2>2, <3>1 DEF Pending, OnItsWay
    <2>4. \A m \in Acks : \A i \in DOMAIN up' : up'[i] = m => (m.code = "ok" => ~refused')
      <3>1. SUFFICES ASSUME NEW m \in Acks, NEW i \in DOMAIN up', up'[i] = m, m.code = "ok"
                     PROVE  ~refused'
        OBVIOUS
      <3>2. ~(i \in DOMAIN up /\ up'[i] = up[i])
        BY <2>3, <3>1, Messages
      <3>3. ~Receive /\ ~AnswerStatus /\ ~Note
        BY <1>0, <1>4 DEF AnswerStatus, AnswerWrite, Receive, Note, TypeOK
      <3>4. PICK code \in {"ok", "rejected"} : m = Ack(code) /\ refused' = (code = "rejected")
        BY <1>4, <3>1, <3>2, <3>3, MessagesMove
      <3>5. code = "ok"
        BY <3>1, <3>4 DEF Ack
      <3> QED
        BY <3>4, <3>5
    <2> QED
      BY <2>1, <2>3, <2>4, Messages DEF Answered
  <1>5. CASE Resume
    <2>1. stage = "sent" /\ settled # None /\ settled' = None /\ UNCHANGED <<up, arrived, refused>>
      BY <1>5 DEF Resume
    <2>2. Quiet
      BY <1>0, <1>1, <2>1 DEF Pending, Steps
    <2>3. \A i \in DOMAIN up' : up'[i].what = "note"
      BY <2>1, <2>2 DEF Quiet
    <2>4. step' = "sample" => arrived /\ ~refused
      <3>1. CASE ResumeWrite
        <4>1. step = "write" /\ (step' = "sample" => settled.code = "ok")
          BY <3>1 DEF ResumeWrite, Fails, Ends
        <4>2. settled \in Acks
          BY <1>0, <2>1, <4>1 DEF Steps, TypeOK
        <4> QED
          BY <1>1, <4>1, <4>2
      <3>2. CASE ~ResumeWrite
        <4>1. step' = "sample" => step = "sample"
          BY <1>5, <3>2 DEF Resume, ResumeBaseline, ResumeSample, Fails, Ends
        <4> QED
          BY <1>1, <4>1
      <3> QED
        BY <3>1, <3>2
    <2> QED
      BY <2>1, <2>3, <2>4, Messages DEF Answered
  <1>6. CASE step' = "done"
    BY <1>6 DEF Answered
  <1>7. CASE UNCHANGED <<step, settled, metrics, arrived, refused>> /\ (up' = up \/ up' = <<>>)
    BY <1>1, <1>a, <1>7 DEF Answered
  <1>8. CASE ~Receive /\ ~AnswerStatus /\ ~Note /\ ~AnswerWrite /\ ~Resume
    <2>1. \/ step' = "done"
          \/ UNCHANGED <<step, settled, metrics, arrived, refused>> /\ (up' = up \/ up' = <<>>)
      BY <1>8
         DEF Next, vars, Control, Environment, Publish, Unavailable, Wake, Silence,
             Cancel, Touch, Drop, ResumeBaseline, ResumeWrite, ResumeSample, Ends,
             Fails, CloseLink, netVars, runVars, histVars, bounds
    <2> QED
      BY <1>6, <1>7, <2>1
  <1> QED
    BY <1>2, <1>3, <1>4, <1>5, <1>8
-----------------------------------------------------------------------------
(* The original settings, and success. *)

\* A rejection is recorded before a late report is taken for an answer.
LEMMA RejectionKept == IInv /\ [Next]_vars => Rejection'
  <1> SUFFICES ASSUME IInv, [Next]_vars PROVE Rejection'
    OBVIOUS
  <1>a. op' = op
    BY DEF Next, vars, Control, Environment, Publish, Unavailable, Resume, Wake,
           Silence, Cancel, Receive, AnswerStatus, AnswerWrite, Note, Touch, Drop,
           ResumeBaseline, ResumeWrite, ResumeSample, Ends, Fails, CloseLink, netVars,
           runVars, histVars, bounds
  <1> SUFFICES ASSUME op.kind = "original", step' = "sample", refused', ack' # "rejected"
               PROVE  /\ early' = count' /\ (settled' \in Reports => ~Late(settled'))
                      /\ link' => \E i \in DOMAIN up' :
                           /\ up'[i] = Ack("rejected")
                           /\ \A j \in DOMAIN up' : j < i => ~Late(up'[j])
    BY <1>a DEF Rejection, Ack, Late
  <1>0. TypeOK /\ Steps /\ OneWrite /\ Order /\ Proven
    BY DEF IInv
  <1>1. ASSUME step = "sample", refused, ack # "rejected"
        PROVE  /\ early = count /\ (settled \in Reports => ~Late(settled))
               /\ link => \E i \in DOMAIN up :
                    /\ up[i] = Ack("rejected")
                    /\ \A j \in DOMAIN up : j < i => ~Late(up[j])
    BY <1>1 DEF IInv, Rejection
  <1>2. CASE Receive
    <2>1. /\ DOMAIN up = 1..Len(up) /\ DOMAIN up' = 1..(Len(up) - 1) /\ Len(up) \in Nat \ {0}
          /\ \A i \in 1..(Len(up) - 1) : up'[i] = up[i + 1]
          /\ Head(up) = up[1] /\ up[1] \in Reports \cup Acks
      <3>1. ~AnswerStatus /\ ~AnswerWrite /\ ~Note
        BY <1>2, ReceiveAlone
      <3> QED
        BY <1>2, <3>1, MessagesMove
    <2>2. /\ UNCHANGED <<step, count, early, refused, link>> /\ link
          /\ settled' = settled \/ settled' = up[1]
          /\ ack' = IF up[1].what = "ack" /\ ack # None THEN Recorded(up[1]) ELSE ack
      BY <1>2, <2>1 DEF Receive, runVars, histVars
    <2>3. step = "sample" /\ refused /\ ack # "rejected" /\ ack # None
      <3>1. step = "sample" /\ refused /\ ack # None
        BY <1>0, <2>2 DEF Steps
      <3> QED
        BY <2>2, <3>1 DEF Recorded
    <2>4. PICK i \in DOMAIN up : /\ up[i] = Ack("rejected")
                                 /\ \A j \in DOMAIN up : j < i => ~Late(up[j])
      BY <1>1, <2>2, <2>3
    <2>5. i # 1
      <3>1. SUFFICES ASSUME up[1] = Ack("rejected") PROVE FALSE
        BY <2>4
      <3>2. up[1].what = "ack" /\ Recorded(up[1]) = "rejected"
        BY <3>1 DEF Ack, Recorded
      <3> QED
        BY <2>2, <2>3, <3>2
    <2>6. i - 1 \in DOMAIN up' /\ up'[i - 1] = up[i] /\ ~Late(up[1])
      BY <2>1, <2>4, <2>5
    <2>7. ASSUME NEW j \in DOMAIN up', j < i - 1
          PROVE  ~Late(up'[j])
      <3>1. j + 1 \in DOMAIN up /\ up'[j] = up[j + 1] /\ j + 1 < i
        BY <2>1, <2>4, <2>7
      <3> QED
        BY <2>4, <3>1
    <2>8. settled' \in Reports => ~Late(settled')
      BY <1>1, <2>2, <2>3, <2>6
    <2> QED
      BY <1>1, <2>2, <2>3, <2>4, <2>6, <2>7, <2>8
  <1>3. CASE AnswerStatus \/ Note
    <2>1. UNCHANGED <<step, settled, count, early, refused, link, ack>> /\ ~Receive /\ ~AnswerWrite
      <3>1. UNCHANGED <<step, settled, count, early, refused, link, ack>>
        BY <1>3 DEF AnswerStatus, Note, runVars, histVars
      <3>2. ~Receive
        BY <1>3, ReceiveAlone
      <3>3. ~AnswerWrite
        BY <1>3, SentAlone
      <3> QED
        BY <3>1, <3>2, <3>3
    <2>2. /\ DOMAIN up = 1..Len(up) /\ DOMAIN up' = 1..(Len(up) + 1) /\ Len(up) \in Nat
          /\ \A i \in 1..Len(up) : up'[i] = up[i]
      BY <1>3, <2>1, MessagesMove
    <2>3. /\ early = count /\ (settled \in Reports => ~Late(settled))
          /\ link => \E i \in DOMAIN up :
               /\ up[i] = Ack("rejected")
               /\ \A j \in DOMAIN up : j < i => ~Late(up[j])
      BY <1>1, <2>1
    <2>4. ASSUME link
          PROVE  \E i \in DOMAIN up' : /\ up'[i] = Ack("rejected")
                                       /\ \A j \in DOMAIN up' : j < i => ~Late(up'[j])
      <3>1. PICK i \in DOMAIN up : /\ up[i] = Ack("rejected")
                                   /\ \A j \in DOMAIN up : j < i => ~Late(up[j])
        BY <2>3, <2>4
      <3>2. i \in DOMAIN up' /\ up'[i] = up[i]
        BY <2>2
      <3>3. ASSUME NEW j \in DOMAIN up', j < i PROVE ~Late(up'[j])
        <4>1. j \in DOMAIN up /\ up'[j] = up[j]
          BY <2>2, <3>3
        <4> QED
          BY <3>1, <3>3, <4>1
      <3> QED
        BY <3>1, <3>2, <3>3
    <2> QED
      BY <2>1, <2>3, <2>4
  <1>4. CASE AnswerWrite
    <2>1. /\ WriteSent /\ UNCHANGED <<step, settled, count, early, link>>
      <3>1. down # <<>> /\ Head(down) = "write" /\ UNCHANGED <<step, settled, count, early, link>>
        BY <1>4 DEF AnswerWrite, runVars
      <3>2. 1 \in DOMAIN down /\ down[1] = "write"
        BY <1>0, <3>1, EmptySeq DEF TypeOK
      <3> QED
        BY <3>1, <3>2 DEF WriteSent
    <2>2. /\ ~arrived /\ step = "sample"
          /\ \A i \in DOMAIN up : ~Late(up[i])
          /\ settled \in Reports => ~Late(settled)
      BY <1>0, <2>1 DEF OneWrite, Order, Truthful
    <2>3. early = count
      <3>1. early \in 0..2 /\ count \in 0..1 /\ early <= count /\ ~(early < count)
        BY <1>0, <2>2 DEF TypeOK, Steps, Proven
      <3> QED
        BY <3>1
    <2>4. /\ DOMAIN up = 1..Len(up) /\ DOMAIN up' = 1..(Len(up) + 1) /\ Len(up) \in Nat
          /\ \A i \in 1..Len(up) : up'[i] = up[i]
          /\ up'[Len(up) + 1] = Ack("rejected")
      <3>1. PICK code \in {"ok", "rejected", None} :
              /\ up' = IF code = None THEN up ELSE Append(up, Ack(code))
              /\ refused' = (code = "rejected")
        BY <1>4 DEF AnswerWrite
      <3>2. code = "rejected" /\ code # None
        BY <3>1, NoneAssumption
      <3>3. up' = Append(up, Ack("rejected")) /\ Ack("rejected") \in Reports \cup Acks
        BY <3>1, <3>2, Messages
      <3>4. up \in Seq(Reports \cup Acks)
        BY <1>0 DEF TypeOK
      <3> QED
        BY <3>3, <3>4, Appended
    <2>5. \A j \in DOMAIN up' : j < Len(up) + 1 => ~Late(up'[j])
      BY <2>2, <2>4
    <2>6. Len(up) + 1 \in DOMAIN up'
      BY <2>4
    <2> QED
      BY <2>1, <2>2, <2>3, <2>4, <2>5, <2>6
  <1>5. CASE Resume
    <2>1. /\ settled # None /\ settled' = None /\ UNCHANGED <<up, refused, link>> /\ stage = "sent"
      BY <1>5 DEF Resume
    <2>2. ResumeSample /\ step = "sample"
      <3>1. step # "write"
        BY <1>0, <2>1 DEF Steps
      <3> QED
        BY <1>5, <3>1 DEF Resume, ResumeBaseline, ResumeWrite, ResumeSample, Fails, Ends
    <2>3. /\ early' = IF settled.late THEN early ELSE early + 1
          /\ count' = count + 1 /\ ack' = ack
      BY <2>2 DEF ResumeSample, Fails, Ends, Seen, Shared
    <2>4. early = count /\ ~settled.late
      <3>1. settled \in Reports
        BY <1>0, <2>1, <2>2 DEF TypeOK, Steps
      <3> QED
        BY <1>1, <2>1, <2>2, <2>3, <3>1, Messages DEF Late
    <2> QED
      BY <1>1, <2>1, <2>2, <2>3, <2>4, NoneAssumption
  <1>6. CASE Publish
    <2>1. /\ UNCHANGED <<up, settled, count, early, refused, link>>
          /\ step = "write" \/ (step = "sample" /\ ack' = ack)
      BY <1>6 DEF Publish, histVars
    <2>2. step = "sample"
      BY <1>0, <1>6, <2>1 DEF OneWrite, Publish
    <2> QED
      BY <1>1, <2>1, <2>2
  <1>7. CASE ~Receive /\ ~AnswerStatus /\ ~Note /\ ~AnswerWrite /\ ~Resume /\ ~Publish
    <2>1. /\ UNCHANGED <<settled, count, early, refused, ack, step>>
          /\ (up' = up /\ link' = link) \/ ~link'
      BY <1>7
         DEF Next, vars, Control, Environment, Unavailable, Wake, Silence, Cancel,
             Touch, Drop, ResumeBaseline, ResumeWrite, ResumeSample, Ends, Fails,
             CloseLink, netVars, runVars, histVars, bounds
    <2> QED
      BY <1>1, <2>1
  <1> QED
    BY <1>2, <1>3, <1>4, <1>5, <1>6, <1>7

\* What a control compares when a request was answered.
LEMMA SeenReport ==
  ASSUME IInv, stage = "sent", settled # None, step # "write"
  PROVE  /\ Seen \in Reports /\ Truthful(Seen) /\ (op.kind \notin Shared => Seen = settled)
         /\ Seen.what # "ack" /\ Seen.late \in BOOLEAN
  BY Messages DEF IInv, TypeOK, Steps, Order, Seen

\* An accepted sample that is not early proves the success.
LEMMA ProvenKept == IInv /\ [Next]_vars => Proven'
  <1> SUFFICES ASSUME IInv, [Next]_vars PROVE Proven'
    OBVIOUS
  <1>a. op' = op
    BY DEF Next, vars, Control, Environment, Publish, Unavailable, Resume, Wake,
           Silence, Cancel, Receive, AnswerStatus, AnswerWrite, Note, Touch, Drop,
           ResumeBaseline, ResumeWrite, ResumeSample, Ends, Fails, CloseLink, netVars,
           runVars, histVars, bounds
  <1>0. TypeOK /\ Steps /\ OneWrite /\ Order /\ Proven
    BY DEF IInv
  <1>1. CASE Resume /\ ResumeSample
    <2>1. /\ stage = "sent" /\ settled # None /\ step = "sample"
          /\ UNCHANGED <<arrived, shown, refused, down>>
          /\ early' = IF Seen.late THEN early ELSE early + 1
      BY <1>1 DEF Resume, ResumeSample
    <2>2. /\ Seen \in Reports /\ Truthful(Seen) /\ (op.kind \notin Shared => Seen = settled)
          /\ Seen.what # "ack" /\ Seen.late \in BOOLEAN
      BY <2>1, SeenReport
    <2>3. /\ early \in 0..2 /\ count \in 0..1 /\ early <= count /\ count < Samples
          /\ early < count => arrived /\ shown
      BY <1>0, <2>1 DEF TypeOK, Steps, Proven
    <2>4. CASE step' = "sample"
      <3>1. /\ Confirms(Seen.of) /\ count' = count + 1 /\ outcome' = outcome
        BY <1>1, <2>4 DEF ResumeSample, Fails, Ends
      <3>2. Seen.late => arrived /\ shown
        BY <2>2, <3>1 DEF Truthful, Late, Confirms
      <3>3. early' < count' => arrived /\ shown
        BY <2>1, <2>3, <3>1, <3>2
      <3>4. outcome' = None
        BY <1>0, <2>1, <3>1 DEF Steps
      <3> QED
        BY <2>1, <3>3, <3>4, NoneAssumption DEF Proven
    <2>5. CASE step' # "sample"
      <3>1. \/ outcome' = "error"
            \/ Confirms(Seen.of) /\ count + 1 = Samples /\ ack # "rejected"
        BY <1>1, <2>1, <2>5 DEF ResumeSample, Fails, Ends
      <3>2. CASE outcome' = "error"
        BY <2>5, <3>2 DEF Proven
      <3>3. CASE Confirms(Seen.of) /\ count + 1 = Samples /\ ack # "rejected"
        <4>1. Seen.late => arrived /\ shown
          BY <2>2, <3>3 DEF Truthful, Late, Confirms
        <4>2. CASE op.kind # "original"
          <5>1. arrived /\ ~refused /\ Seen.late
            BY <2>1, <2>2, <4>2 DEF IInv, Answered, Seen
          <5>2. ~WriteSent /\ ~WriteSent'
            BY <1>0, <2>1, <5>1 DEF OneWrite, WriteSent
          <5> QED
            BY <2>1, <2>5, <4>1, <5>1, <5>2 DEF Proven
        <4>3. CASE op.kind = "original" /\ early' = 2
          BY <1>a, <2>5, <4>3 DEF Proven, ConfirmedEarly
        <4>4. CASE op.kind = "original" /\ early' # 2
          <5>1. count = 1
            BY <2>3, <3>3, <4>4 DEF Samples
          <5>2. Seen.late \/ early < count
            BY <2>1, <2>2, <2>3, <4>4, <5>1
          <5>3. arrived /\ shown
            BY <2>3, <4>1, <5>2
          <5>4. ~refused
            <6>1. refused => early = count /\ ~Late(settled)
              BY <2>1, <2>2, <3>3, <4>4 DEF IInv, Rejection, Shared
            <6> QED
              BY <2>2, <4>4, <5>2, <5>1, <2>3, <6>1 DEF Late, Shared
          <5>5. ~WriteSent /\ ~WriteSent'
            BY <1>0, <2>1, <5>3 DEF OneWrite, WriteSent
          <5> QED
            BY <2>1, <2>5, <5>3, <5>4, <5>5 DEF Proven
        <4> QED
          BY <4>2, <4>3, <4>4
      <3> QED
        BY <3>1, <3>2, <3>3
    <2> QED
      BY <2>4, <2>5
  <1>2. CASE AnswerWrite
    <2>1. WriteSent /\ ~arrived /\ UNCHANGED <<step, early, count, outcome>>
      <3>1. down # <<>> /\ Head(down) = "write" /\ UNCHANGED <<step, early, count, outcome>>
        BY <1>2 DEF AnswerWrite, runVars
      <3>2. 1 \in DOMAIN down /\ down[1] = "write"
        BY <1>0, <3>1, EmptySeq DEF TypeOK
      <3>3. WriteSent
        BY <3>2 DEF WriteSent
      <3> QED
        BY <1>0, <3>1, <3>3 DEF OneWrite
    <2> QED
      BY <1>0, <1>a, <2>1 DEF Proven, ConfirmedEarly
  <1>3. CASE ~(Resume /\ ResumeSample) /\ ~AnswerWrite
    <2>1. UNCHANGED <<early, count, arrived, refused>>
      BY <1>3
         DEF Next, vars, Control, Environment, Publish, Unavailable, Resume, Wake,
             Silence, Cancel, Receive, AnswerStatus, Note, Touch, Drop, ResumeBaseline,
             ResumeWrite, Ends, Fails, CloseLink, netVars, runVars, histVars, bounds
    <2>2. shown => shown'
      <3>1. CASE Touch
        BY <3>1 DEF Touch
      <3>2. CASE ~Touch
        <4>1. shown' = shown
          BY <1>3, <3>2
             DEF Next, vars, Control, Environment, Publish, Unavailable, Resume, Wake,
                 Silence, Cancel, Receive, AnswerStatus, Note, Drop, ResumeBaseline,
                 ResumeWrite, Ends, Fails, CloseLink, netVars, runVars, histVars, bounds
        <4> QED
          BY <4>1
      <3> QED
        BY <3>1, <3>2
    <2>3. step' = "sample" => step = "sample" \/ (count = 0 /\ early = 0)
      <3>1. step' = "sample" => step = "sample" \/ step = "write"
        BY <1>3
           DEF Next, vars, Control, Environment, Publish, Unavailable, Resume, Wake,
               Silence, Cancel, Receive, AnswerStatus, Note, Touch, Drop,
               ResumeBaseline, ResumeWrite, Ends, Fails, CloseLink, netVars, runVars,
               histVars, bounds
      <3> QED
        BY <1>0, <3>1 DEF Steps
    <2>4. outcome' = "ok" => outcome = "ok"
      BY <1>3
         DEF Next, vars, Control, Environment, Publish, Unavailable, Resume, Wake,
             Silence, Cancel, Receive, AnswerStatus, Note, Touch, Drop, ResumeBaseline,
             ResumeWrite, Ends, Fails, CloseLink, netVars, runVars, histVars, bounds
    <2>5. outcome = "ok" /\ WriteSent' => WriteSent
      <3>1. outcome = "ok" => stage = "idle"
        BY <1>0, NoneAssumption DEF Steps
      <3>2. stage = "idle" => down' = down \/ down' = <<>> \/ AnswerStatus
        BY <1>3
           DEF Next, vars, Control, Environment, Publish, Unavailable, Resume, Wake,
               Silence, Cancel, Receive, Note, Touch, Drop, ResumeBaseline, ResumeWrite,
               Ends, Fails, CloseLink, netVars, runVars, histVars, bounds
      <3>3. down' = down \/ down' = <<>> => (WriteSent' => WriteSent)
        BY DEF WriteSent
      <3>4. AnswerStatus => (WriteSent' => WriteSent)
        <4>1. SUFFICES ASSUME AnswerStatus PROVE WriteSent' => WriteSent
          OBVIOUS
        <4>2. down # <<>> /\ down' = Tail(down) /\ down \in Seq({"status", "write"})
          BY <1>0, <4>1 DEF AnswerStatus, TypeOK
        <4>3. \A i \in DOMAIN down' : i + 1 \in DOMAIN down /\ down'[i] = down[i + 1]
          BY <4>2, Removed
        <4> QED
          BY <4>3 DEF WriteSent
      <3> QED
        BY <3>1, <3>2, <3>3, <3>4
    <2>6. (step' = "sample" /\ early' < count') => (arrived' /\ shown')
      BY <1>0, <2>1, <2>2, <2>3 DEF Proven
    <2> QED
      BY <1>0, <1>a, <2>1, <2>2, <2>4, <2>5, <2>6 DEF Proven, ConfirmedEarly
  <1> QED
    BY <1>1, <1>2, <1>3
-----------------------------------------------------------------------------
(* The theorems. *)

\* A control begins with nothing sent.
LEMMA InitInv == Init => IInv
  <1> SUFFICES ASSUME Init PROVE IInv
    OBVIOUS
  <1>1. TypeOK
    <2>1. MaxNotes \in Nat /\ MaxTouches \in Nat
      BY BoundsAssumption
    <2>2. /\ station \in Station /\ op \in [kind : Kinds, level : Levels]
          /\ step = "baseline" /\ stage = "queued" /\ settled = None /\ metrics = None
          /\ ack = None /\ before = None /\ outcome = None
      BY DEF Init
    <2>3. count = 0 /\ early = 0 /\ notes = 0 /\ touches = 0
      BY DEF Init
    <2>4. link \in BOOLEAN /\ arrived \in BOOLEAN /\ shown \in BOOLEAN /\ refused \in BOOLEAN
      BY DEF Init
    <2>5. down \in Seq({"status", "write"}) /\ up \in Seq(Reports \cup Acks)
      BY DEF Init
    <2>6. count \in 0..1 /\ early \in 0..2 /\ notes \in 0..MaxNotes /\ touches \in 0..MaxTouches
      BY <2>1, <2>3
    <2> QED
      BY <2>2, <2>4, <2>5, <2>6 DEF TypeOK
  <1>2. Steps
    <2>1. Samples \in {1, 2}
      BY DEF Samples
    <2> QED
      BY <2>1, NoneAssumption DEF Init, Steps
  <1>3. OneWrite
    BY DEF Init, OneWrite, WriteSent
  <1>4. Order
    BY NoneAssumption DEF Init, Order
  <1>5. Exchange
    BY DEF Init, Exchange, Quiet
  <1>6. Answered
    BY DEF Init, Answered
  <1>7. Rejection
    BY DEF Init, Rejection
  <1>8. Proven
    BY NoneAssumption DEF Init, Proven
  <1> QED
    BY <1>1, <1>2, <1>3, <1>4, <1>5, <1>6, <1>7, <1>8 DEF IInv

\* IInv is inductive.
LEMMA NextInv == IInv /\ [Next]_vars => IInv'
  BY TypeKept, StepsKept, OneWriteKept, OrderKept, ExchangeKept, AnsweredKept, RejectionKept,
     ProvenKept DEF IInv

\* IInv holds in every reachable state.
LEMMA Invariance == Spec => []IInv
  BY InitInv, NextInv, PTL DEF Spec

\* Every variable keeps its type; above all, the reserve the firmware fits to
\* a cap or a floor is one a station can have, whoever changed it meanwhile.
THEOREM TypeCorrect == Spec => []TypeOK
  <1>1. IInv => TypeOK
    BY DEF IInv
  <1> QED
    BY Invariance, <1>1, PTL

\* A setting that reports success was held by the station after the write
\* reached it, and not rejected, whatever reports come unasked, whoever changes
\* the station meanwhile and wherever the connection breaks; but for an
\* original setting confirmed by two reports that were made before.
THEOREM SuccessMeansHeld == Spec => []SuccessWasHeld
  <1>1. IInv => SuccessWasHeld
    BY DEF IInv, Proven, SuccessWasHeld
  <1> QED
    BY Invariance, <1>1, PTL

\* A charge cap or a discharge floor that is written moves no reserve that is
\* still the one its guard has seen.
THEOREM ReserveIsNotMoved == Spec => ReserveIsSafe
  <1>1. IInv /\ [Next]_vars =>
          [arrived' # arrived /\ station'.reserve # station.reserve
             => station.reserve # before.reserve]_vars
    <2> SUFFICES ASSUME IInv, Next, arrived' # arrived, station'.reserve # station.reserve,
                        station.reserve = before.reserve
                 PROVE  FALSE
      BY DEF vars, histVars
    <2>1. AnswerWrite
      BY DEF Next, vars, Control, Environment, Publish, Unavailable, Resume, Wake,
             Silence, Cancel, Receive, AnswerStatus, Note, Touch, Drop, ResumeBaseline,
             ResumeWrite, ResumeSample, Ends, Fails, CloseLink, netVars, runVars,
             histVars, bounds
    <2>2. station' = station \/ station' = Fitted(station)
      BY <2>1 DEF AnswerWrite
    <2>3. before \in Station /\ Guard(before)
      <3>1. down # <<>> /\ Head(down) = "write"
        BY <2>1 DEF AnswerWrite
      <3>2. 1 \in DOMAIN down /\ down[1] = "write"
        BY <3>1, EmptySeq DEF IInv, TypeOK
      <3> QED
        BY <3>2 DEF IInv, OneWrite, WriteSent
    <2>4. /\ station \in Station /\ op.level \in Nat /\ station.reserve \in Nat
          /\ before.reserve \in Nat
      BY <2>3, LevelsAssumption DEF IInv, TypeOK, Station
    <2>5. Fitted(station).reserve = station.reserve
      BY <2>3, <2>4 DEF Fitted, Guard, Station
    <2> QED
      BY <2>2, <2>5
  <1> QED
    BY Invariance, <1>1, PTL DEF Spec, ReserveIsSafe
=============================================================================
