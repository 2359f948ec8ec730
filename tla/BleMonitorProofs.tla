-------------------------- MODULE BleMonitorProofs --------------------------
(***************************************************************************)
(* What a Bluetooth monitor guarantees for any values, any number of       *)
(* exchanges and attempts, and queues of any size: that a setting which is *)
(* confirmed was really taken over by the station.                         *)
(***************************************************************************)
EXTENDS BleMonitor, SequenceTheorems, TLAPS

-----------------------------------------------------------------------------
(* The inductive invariant. *)

\* A write of the setting that is being applied.
Mine(p) == p.what = "write" /\ p.mine
NoneMine(q) == \A i \in DOMAIN q : ~Mine(q[i])
OneMine(q) == \A i, j \in DOMAIN q : Mine(q[i]) /\ Mine(q[j]) => i = j

\* No reply of the negotiation waits to be handled.
NoStep(q) == \A i \in DOMAIN q : q[i].what # "step"

\* The negotiation has one reply on its way, and ends once.
Negotiation ==
  /\ runner = "connect" => ~link /\ inbox = <<>> /\ down = <<>> /\ ~owed
  /\ runner \in {"connect", "negotiate"} => control = "idle"
  /\ runner = "negotiate" =>
       /\ \A i, j \in DOMAIN inbox : inbox[i].what = "step" /\ inbox[j].what = "step" => i = j
       /\ owed \/ down # <<>> => NoStep(inbox)
       /\ down # <<>> => ~owed /\ Len(down) = 1

\* What a setting is waiting for, before and after its write was started.
Phases ==
  /\ control = "idle" => ~arrived /\ ~clean /\ ~refused /\ held = {} /\ expected = None
  /\ control # "idle" => result = None /\ setting \in [kind : Kinds, value : Values]
  /\ control \in {"fill", "base"} =>
       ~arrived /\ ~clean /\ ~refused /\ held = {} /\ expected = None /\ NoneMine(down)
  /\ control \in {"pause", "reply", "readback"} => expected \in Expectations
  /\ control # "idle" => OneMine(down) /\ (arrived => NoneMine(down))
  /\ ~arrived => held = {} /\ ~refused

\* A setting is clean while every report that can still be taken for an answer
\* is made after its write arrived.  No such report waits; or what it says of
\* the fields in e was true at some time (h).
NoReport(q) == \A i \in DOMAIN q : q[i].what # "report"
WereTrue(q, e, h) ==
  \A i \in DOMAIN q : q[i].what = "report" =>
    \A f \in q[i].has \cap DOMAIN e : q[i].of[f] = e[f] => f \in h

\* What a clean setting is told, or has been told, was true after its write had
\* arrived.
Honest ==
  /\ arrived => Met(station) \subseteq held
  /\ clean => WereTrue(inbox, expected, held)
  /\ clean => \A f \in since \cap DOMAIN expected : cache[f] = expected[f] => f \in held
  /\ clean /\ ~arrived => since = {} /\ NoReport(inbox)

\* A rejection waits, and no report is handled before it.
Announced(q) ==
  \E i \in DOMAIN q : q[i].what = "rejected" /\ \A j \in DOMAIN q : j < i => q[j].what # "report"

\* A rejection is looked at before a report that was made after it.
Refusal ==
  /\ refused /\ clean /\ runner = "serving" /\ control # "readback" =>
       rejection \/ (since = {} /\ Announced(inbox))
  /\ clean /\ control = "readback" => arrived /\ (refused => runner # "serving")

IInv == TypeOK /\ Negotiation /\ Phases /\ Honest /\ Refusal
-----------------------------------------------------------------------------
(* Queues and values. *)

\* What is appended is the last, and the others stay where they are.
LEMMA Appended ==
  ASSUME NEW S, NEW s \in Seq(S), NEW x \in S, NEW t, t = Append(s, x)
  PROVE  /\ t \in Seq(S) /\ Len(s) \in Nat /\ DOMAIN s = 1..Len(s) /\ Len(t) = Len(s) + 1
         /\ DOMAIN t = 1..(Len(s) + 1) /\ t[Len(s) + 1] = x
         /\ \A i \in 1..Len(s) : t[i] = s[i]
  OBVIOUS

\* Without the first, the others move up.
LEMMA Removed ==
  ASSUME NEW S, NEW s \in Seq(S), s # <<>>, NEW t, t = Tail(s)
  PROVE  /\ t \in Seq(S) /\ Head(s) = s[1] /\ Head(s) \in S
         /\ Len(s) \in Nat \ {0} /\ DOMAIN s = 1..Len(s) /\ DOMAIN t = 1..(Len(s) - 1)
         /\ Len(t) = Len(s) - 1
         /\ \A i \in 1..(Len(s) - 1) : t[i] = s[i + 1]
  BY HeadTailProperties, EmptySeq

\* What requests and notifications are made of.
LEMMA Shapes ==
  /\ \A p \in Packets : /\ p.what \in {"status", "write"}
                        /\ p.what = "status" <=> p = Status
                        /\ p.what = "write" => p.value \in Values /\ p.mine \in BOOLEAN
  /\ Status \in Packets /\ ~Mine(Status)
  /\ \A v \in Values : Write(v) \in Packets /\ Mine(Write(v)) /\ Write(v) # Status
  /\ \A p \in Packets : Disowned(p) \in Packets /\ ~Mine(Disowned(p))
  /\ \A m \in Reports : m.what = "report" /\ m.has \subseteq Fields /\ m.of \in Contents
  /\ \A m \in Signals : m.what \in {"step", "garbled", "rejected"}
  /\ \A w \in {"step", "garbled", "rejected"} : [what |-> w] \in Signals
  <1>1. \A p \in Packets : /\ p.what \in {"status", "write"}
                           /\ p.what = "status" <=> p = Status
                           /\ p.what = "write" => p.value \in Values /\ p.mine \in BOOLEAN
    BY DEF Packets, Status
  <1>2. Status \in Packets /\ ~Mine(Status)
    BY DEF Packets, Status, Mine
  <1>3. \A v \in Values : Write(v) \in Packets /\ Mine(Write(v)) /\ Write(v) # Status
    BY DEF Packets, Write, Mine, Status
  <1>4. ASSUME NEW p \in Packets PROVE Disowned(p) \in Packets /\ ~Mine(Disowned(p))
    <2>1. CASE p = Status
      BY <2>1, <1>2 DEF Disowned, Status
    <2>2. CASE p \in [what : {"write"}, value : Values, mine : BOOLEAN]
      <3>1. Disowned(p) = [p EXCEPT !.mine = FALSE]
        BY <2>2 DEF Disowned
      <3>2. Disowned(p) \in [what : {"write"}, value : Values, mine : BOOLEAN]
        BY <2>2, <3>1
      <3>3. ~Disowned(p).mine
        BY <2>2, <3>1
      <3> QED
        BY <3>2, <3>3 DEF Mine, Packets
    <2> QED
      BY <2>1, <2>2 DEF Packets
  <1>5. \A m \in Reports : m.what = "report" /\ m.has \subseteq Fields /\ m.of \in Contents
    BY DEF Reports
  <1>6. \A m \in Signals : m.what \in {"step", "garbled", "rejected"}
    BY DEF Signals
  <1>7. \A w \in {"step", "garbled", "rejected"} : [what |-> w] \in Signals
    BY DEF Signals
  <1> QED
    BY <1>1, <1>2, <1>3, <1>4, <1>5, <1>6, <1>7

\* The requests of a new setting disown those of an earlier one.
LEMMA AllDisowned ==
  ASSUME NEW s \in Seq(Packets), NEW x \in Packets, NEW t,
         t = Append([i \in DOMAIN s |-> Disowned(s[i])], x)
  PROVE  /\ t \in Seq(Packets) /\ Len(t) = Len(s) + 1 /\ Len(s) \in Nat
         /\ DOMAIN t = 1..(Len(s) + 1) /\ t[Len(s) + 1] = x
         /\ \A i \in 1..Len(s) : ~Mine(t[i])
  <1> DEFINE d == [i \in DOMAIN s |-> Disowned(s[i])]
  <1>1. Len(s) \in Nat /\ DOMAIN s = 1..Len(s) /\ \A i \in 1..Len(s) : s[i] \in Packets
    OBVIOUS
  <1>2. d \in Seq(Packets) /\ Len(d) = Len(s)
    BY <1>1, Shapes
  <1>3. \A i \in 1..Len(s) : d[i] = Disowned(s[i])
    BY <1>1
  <1> HIDE DEF d
  <1>4. /\ t \in Seq(Packets) /\ Len(t) = Len(d) + 1
        /\ DOMAIN t = 1..(Len(d) + 1) /\ t[Len(d) + 1] = x
        /\ \A i \in 1..Len(d) : t[i] = d[i]
    BY <1>2, Appended DEF d
  <1> QED
    BY <1>1, <1>2, <1>3, <1>4, Shapes

\* What is expected is a value of the target, or of both fields.
LEMMA Expected ==
  /\ \A v \in Values : [target |-> v] \in Expectations /\ DOMAIN [target |-> v] = {"target"}
  /\ \A v, w \in Values : [target |-> v, other |-> w] \in Expectations
  /\ \A e \in Expectations : "target" \in DOMAIN e /\ DOMAIN e \subseteq Fields
  BY DEF Expectations, Contents, Fields
-----------------------------------------------------------------------------
(* Types. *)

\* Every step keeps the types.
LEMMA TypeKept == IInv /\ [Next]_vars => TypeOK'
  <1> SUFFICES ASSUME IInv, [Next]_vars PROVE TypeOK'
    OBVIOUS
  <1>0. TypeOK
    BY DEF IInv
  <1>1. runner' \in {"connect", "negotiate", "serving", "closing", "leaving", "delay", "dead"}
    BY <1>0
       DEF Next, vars, Task, ControlStep, Connect, Negotiated, Closed, NextMonitor,
           Baseline, SkipUpdate, Poll, Update, Readback, NoUpdate, Watch, Handle,
           StartControl, NegotiateReply, Report, ApplyWrite, Touch, LinkLost,
           HandleStep, HandleGarbled, HandleReport, HandleRejection, Disconnect,
           ControlEnds, AskStatus, StartWrite, NextAttempt, Notify, linkVars, feedVars,
           dataVars, ctlVars, worldVars, histVars, TypeOK
  <1>2. link' \in BOOLEAN
    <2>1. link' = link \/ link' = TRUE \/ link' = FALSE
      BY DEF Next, vars, Task, ControlStep, Connect, Negotiated, Closed, NextMonitor,
             Baseline, SkipUpdate, Poll, Update, Readback, NoUpdate, Watch, Handle,
             StartControl, NegotiateReply, Report, ApplyWrite, Touch, LinkLost,
             HandleStep, HandleGarbled, HandleReport, HandleRejection, Disconnect,
             ControlEnds, AskStatus, StartWrite, NextAttempt, Notify, linkVars,
             feedVars, dataVars, ctlVars, worldVars, histVars
    <2> QED
      BY <1>0, <2>1 DEF TypeOK
  <1>3. owed' \in BOOLEAN
    <2>1. owed' = owed \/ owed' = TRUE \/ owed' = FALSE
      BY DEF Next, vars, Task, ControlStep, Connect, Negotiated, Closed, NextMonitor,
             Baseline, SkipUpdate, Poll, Update, Readback, NoUpdate, Watch, Handle,
             StartControl, NegotiateReply, Report, ApplyWrite, Touch, LinkLost,
             HandleStep, HandleGarbled, HandleReport, HandleRejection, Disconnect,
             ControlEnds, AskStatus, StartWrite, NextAttempt, Notify, linkVars,
             feedVars, dataVars, ctlVars, worldVars, histVars
    <2> QED
      BY <1>0, <2>1 DEF TypeOK
  <1>4. session' \in 0..Rounds
    <2>1. session' = session \/ session' = 0 \/ (session < Rounds /\ session' = session + 1)
      BY DEF Next, vars, Task, ControlStep, Connect, Negotiated, Closed, NextMonitor,
             Baseline, SkipUpdate, Poll, Update, Readback, NoUpdate, Watch, Handle,
             StartControl, NegotiateReply, Report, ApplyWrite, Touch, LinkLost,
             HandleStep, HandleGarbled, HandleReport, HandleRejection, Disconnect,
             ControlEnds, AskStatus, StartWrite, NextAttempt, Notify, linkVars,
             feedVars, dataVars, ctlVars, worldVars, histVars
    <2> QED
      BY <1>0, <2>1, BoundsAssumption DEF TypeOK
  <1>5. verdict' \in {None, "ready", "failed"}
    BY <1>0
       DEF Next, vars, Task, ControlStep, Connect, Negotiated, Closed, NextMonitor,
           Baseline, SkipUpdate, Poll, Update, Readback, NoUpdate, Watch, Handle,
           StartControl, NegotiateReply, Report, ApplyWrite, Touch, LinkLost,
           HandleStep, HandleGarbled, HandleReport, HandleRejection, Disconnect,
           ControlEnds, AskStatus, StartWrite, NextAttempt, Notify, linkVars, feedVars,
           dataVars, ctlVars, worldVars, histVars, TypeOK
  <1>6. since' \in SUBSET Fields
    <2>1. since \in SUBSET Fields /\ inbox \in Seq(Reports \cup Signals)
      BY <1>0 DEF TypeOK
    <2>2. CASE Handle
      <3>1. Head(inbox) \in Reports \cup Signals
        BY <2>1, <2>2, HeadTailProperties DEF Handle
      <3>2. since' = since \/ (Head(inbox).what = "report" /\ since' = since \cup Head(inbox).has)
        BY <2>2 DEF Handle, HandleStep, HandleGarbled, HandleReport, HandleRejection, dataVars
      <3> QED
        BY <2>1, <3>1, <3>2, Shapes
    <2>3. CASE ~Handle
      <3>1. since' = since \/ since' = {}
        BY <2>3
           DEF Next, vars, Task, ControlStep, Connect, Negotiated, Closed, NextMonitor,
               Baseline, SkipUpdate, Poll, Update, Readback, NoUpdate, Watch,
               StartControl, NegotiateReply, Report, ApplyWrite, Touch, LinkLost,
               HandleStep, HandleGarbled, HandleReport, HandleRejection, Disconnect,
               ControlEnds, AskStatus, StartWrite, NextAttempt, Notify, linkVars,
               feedVars, dataVars, ctlVars, worldVars, histVars
      <3> QED
        BY <2>1, <3>1
    <2> QED
      BY <2>2, <2>3
  <1>7. cache' \in [Fields -> Values \cup {None}]
    <2>1. cache \in [Fields -> Values \cup {None}] /\ inbox \in Seq(Reports \cup Signals)
      BY <1>0 DEF TypeOK
    <2>2. CASE Handle
      <3>1. Head(inbox) \in Reports \cup Signals
        BY <2>1, <2>2, HeadTailProperties DEF Handle
      <3>2. \/ cache' = cache
            \/ /\ Head(inbox).what = "report"
               /\ cache' = [f \in Fields |-> IF f \in Head(inbox).has THEN Head(inbox).of[f]
                                                                   ELSE cache[f]]
        BY <2>2 DEF Handle, HandleStep, HandleGarbled, HandleReport, HandleRejection, dataVars
      <3> QED
        BY <2>1, <3>1, <3>2, Shapes DEF Contents
    <2>3. CASE ~Handle
      <3>1. cache' = cache \/ cache' = [f \in Fields |-> None]
        BY <2>3
           DEF Next, vars, Task, ControlStep, Connect, Negotiated, Closed, NextMonitor,
               Baseline, SkipUpdate, Poll, Update, Readback, NoUpdate, Watch,
               StartControl, NegotiateReply, Report, ApplyWrite, Touch, LinkLost,
               HandleStep, HandleGarbled, HandleReport, HandleRejection, Disconnect,
               ControlEnds, AskStatus, StartWrite, NextAttempt, Notify, linkVars,
               feedVars, dataVars, ctlVars, worldVars, histVars
      <3> QED
        BY <2>1, <3>1
    <2> QED
      BY <2>2, <2>3
  <1>8. updates' \in 0..MaxUpdates
    <2>1. \/ updates' = updates \/ updates' = 0
          \/ (updates > 0 /\ updates' = updates - 1)
          \/ (updates < MaxUpdates /\ updates' = updates + 1)
      BY DEF Next, vars, Task, ControlStep, Connect, Negotiated, Closed, NextMonitor,
             Baseline, SkipUpdate, Poll, Update, Readback, NoUpdate, Watch, Handle,
             StartControl, NegotiateReply, Report, ApplyWrite, Touch, LinkLost,
             HandleStep, HandleGarbled, HandleReport, HandleRejection, Disconnect,
             ControlEnds, AskStatus, StartWrite, NextAttempt, Notify, linkVars,
             feedVars, dataVars, ctlVars, worldVars, histVars
    <2> QED
      BY <1>0, <2>1, BoundsAssumption DEF TypeOK
  <1>9. rejection' \in BOOLEAN
    BY <1>0
       DEF Next, vars, Task, ControlStep, Connect, Negotiated, Closed, NextMonitor,
           Baseline, SkipUpdate, Poll, Update, Readback, NoUpdate, Watch, Handle,
           StartControl, NegotiateReply, Report, ApplyWrite, Touch, LinkLost,
           HandleStep, HandleGarbled, HandleReport, HandleRejection, Disconnect,
           ControlEnds, AskStatus, StartWrite, NextAttempt, Notify, linkVars, feedVars,
           dataVars, ctlVars, worldVars, histVars, TypeOK
  <1>10. setting' \in [kind : Kinds, value : Values] \cup {None}
    BY <1>0
       DEF Next, vars, Task, ControlStep, Connect, Negotiated, Closed, NextMonitor,
           Baseline, SkipUpdate, Poll, Update, Readback, NoUpdate, Watch, Handle,
           StartControl, NegotiateReply, Report, ApplyWrite, Touch, LinkLost,
           HandleStep, HandleGarbled, HandleReport, HandleRejection, Disconnect,
           ControlEnds, AskStatus, StartWrite, NextAttempt, Notify, linkVars, feedVars,
           dataVars, ctlVars, worldVars, histVars, TypeOK
  <1>11. control' \in Waiting \cup {"idle", "pause"}
    BY <1>0
       DEF Next, vars, Task, ControlStep, Connect, Negotiated, Closed, NextMonitor,
           Baseline, SkipUpdate, Poll, Update, Readback, NoUpdate, Watch, Handle,
           StartControl, NegotiateReply, Report, ApplyWrite, Touch, LinkLost,
           HandleStep, HandleGarbled, HandleReport, HandleRejection, Disconnect,
           ControlEnds, AskStatus, StartWrite, NextAttempt, Notify, linkVars, feedVars,
           dataVars, ctlVars, worldVars, histVars, TypeOK, Waiting
  <1>12. attempt' \in 0..(Attempts - 1)
    <2>1. \/ attempt' = attempt \/ attempt' = 0
          \/ (attempt + 1 < Attempts /\ attempt' = attempt + 1)
      BY DEF Next, vars, Task, ControlStep, Connect, Negotiated, Closed, NextMonitor,
             Baseline, SkipUpdate, Poll, Update, Readback, NoUpdate, Watch, Handle,
             StartControl, NegotiateReply, Report, ApplyWrite, Touch, LinkLost,
             HandleStep, HandleGarbled, HandleReport, HandleRejection, Disconnect,
             ControlEnds, AskStatus, StartWrite, NextAttempt, Notify, linkVars,
             feedVars, dataVars, ctlVars, worldVars, histVars
    <2> QED
      BY <1>0, <2>1, BoundsAssumption DEF TypeOK
  <1>13. result' \in {None, "ok", "error"}
    BY <1>0
       DEF Next, vars, Task, ControlStep, Connect, Negotiated, Closed, NextMonitor,
           Baseline, SkipUpdate, Poll, Update, Readback, NoUpdate, Watch, Handle,
           StartControl, NegotiateReply, Report, ApplyWrite, Touch, LinkLost,
           HandleStep, HandleGarbled, HandleReport, HandleRejection, Disconnect,
           ControlEnds, AskStatus, StartWrite, NextAttempt, Notify, linkVars, feedVars,
           dataVars, ctlVars, worldVars, histVars, TypeOK
  <1>14. station' \in Contents
    <2>1. station \in Contents /\ down \in Seq(Packets)
      BY <1>0 DEF TypeOK
    <2>2. CASE ApplyWrite
      <3>1. Head(down) \in Packets /\ Head(down) # Status
        BY <2>1, <2>2, HeadTailProperties DEF ApplyWrite
      <3>2. Head(down).value \in Values
        BY <3>1, Shapes
      <3> QED
        BY <2>1, <2>2, <3>2 DEF ApplyWrite, Contents
    <2>3. CASE ~ApplyWrite
      BY <2>1, <2>3
         DEF Next, vars, Task, ControlStep, Connect, Negotiated, Closed, NextMonitor,
             Baseline, SkipUpdate, Poll, Update, Readback, NoUpdate, Watch, Handle,
             StartControl, NegotiateReply, Report, Touch, LinkLost, HandleStep,
             HandleGarbled, HandleReport, HandleRejection, Disconnect, ControlEnds,
             AskStatus, StartWrite, NextAttempt, Notify, linkVars, feedVars, dataVars,
             ctlVars, worldVars, histVars
    <2> QED
      BY <2>2, <2>3
  <1>15. touches' \in 0..MaxTouches
    <2>1. touches' = touches \/ (touches < MaxTouches /\ touches' = touches + 1)
      BY DEF Next, vars, Task, ControlStep, Connect, Negotiated, Closed, NextMonitor,
             Baseline, SkipUpdate, Poll, Update, Readback, NoUpdate, Watch, Handle,
             StartControl, NegotiateReply, Report, ApplyWrite, Touch, LinkLost,
             HandleStep, HandleGarbled, HandleReport, HandleRejection, Disconnect,
             ControlEnds, AskStatus, StartWrite, NextAttempt, Notify, linkVars,
             feedVars, dataVars, ctlVars, worldVars, histVars
    <2> QED
      BY <1>0, <2>1, BoundsAssumption DEF TypeOK
  <1>16. arrived' \in BOOLEAN /\ clean' \in BOOLEAN /\ refused' \in BOOLEAN
    <2>1. arrived \in BOOLEAN /\ clean \in BOOLEAN /\ refused \in BOOLEAN
      BY <1>0 DEF TypeOK
    <2>2. arrived' \in BOOLEAN
      <3>1. CASE ApplyWrite
        BY <3>1 DEF ApplyWrite
      <3>2. CASE ~ApplyWrite
        <4>1. arrived' = arrived \/ arrived' = FALSE
          BY <3>2
             DEF Next, vars, Task, ControlStep, Connect, Negotiated, Closed,
                 NextMonitor, Baseline, SkipUpdate, Poll, Update, Readback, NoUpdate,
                 Watch, Handle, StartControl, NegotiateReply, Report, Touch, LinkLost,
                 HandleStep, HandleGarbled, HandleReport, HandleRejection, Disconnect,
                 ControlEnds, AskStatus, StartWrite, NextAttempt, Notify, linkVars,
                 feedVars, dataVars, ctlVars, worldVars, histVars
        <4> QED
          BY <2>1, <4>1
      <3> QED
        BY <3>1, <3>2
    <2>3. clean' \in BOOLEAN
      <3>1. CASE Report
        BY <3>1 DEF Report
      <3>2. CASE ~Report
        <4>1. clean' = clean \/ clean' = FALSE \/ clean' = NoneToCome
          BY <3>2
             DEF Next, vars, Task, ControlStep, Connect, Negotiated, Closed,
                 NextMonitor, Baseline, SkipUpdate, Poll, Update, Readback, NoUpdate,
                 Watch, Handle, StartControl, NegotiateReply, ApplyWrite, Touch,
                 LinkLost, HandleStep, HandleGarbled, HandleReport, HandleRejection,
                 Disconnect, ControlEnds, AskStatus, StartWrite, NextAttempt, Notify,
                 linkVars, feedVars, dataVars, ctlVars, worldVars, histVars
        <4>2. NoneToCome \in BOOLEAN
          BY DEF NoneToCome
        <4> QED
          BY <2>1, <4>1, <4>2
      <3> QED
        BY <3>1, <3>2
    <2>4. refused' \in BOOLEAN
      <3>1. CASE ApplyWrite
        BY <2>1, <3>1 DEF ApplyWrite
      <3>2. CASE ~ApplyWrite
        <4>1. refused' = refused \/ refused' = FALSE
          BY <3>2
             DEF Next, vars, Task, ControlStep, Connect, Negotiated, Closed,
                 NextMonitor, Baseline, SkipUpdate, Poll, Update, Readback, NoUpdate,
                 Watch, Handle, StartControl, NegotiateReply, Report, Touch, LinkLost,
                 HandleStep, HandleGarbled, HandleReport, HandleRejection, Disconnect,
                 ControlEnds, AskStatus, StartWrite, NextAttempt, Notify, linkVars,
                 feedVars, dataVars, ctlVars, worldVars, histVars
        <4> QED
          BY <2>1, <4>1
      <3> QED
        BY <3>1, <3>2
    <2> QED
      BY <2>2, <2>3, <2>4
  <1>17. expected' \in Expectations \cup {None}
    <2>1. expected \in Expectations \cup {None} /\ cache \in [Fields -> Values \cup {None}]
      BY <1>0 DEF TypeOK
    <2>2. CASE StartControl
      <3>1. \/ expected' = expected
            \/ \E v \in Values : expected' = [target |-> v]
            \/ /\ cache["other"] # None
               /\ \E v \in Values : expected' = [target |-> v, other |-> cache["other"]]
        BY <2>2 DEF StartControl, StartWrite, Write, Status
      <3>2. cache["other"] \in Values \cup {None}
        BY <2>1 DEF Fields
      <3> QED
        BY <2>1, <3>1, <3>2, Expected
    <2>3. CASE Baseline
      <3>1. setting.value \in Values
        BY <1>0, <2>3 DEF IInv, Phases, Baseline
      <3>2. cache["other"] \in Values \cup {None}
        BY <2>1 DEF Fields
      <3>3. \/ expected' = None
            \/ /\ cache["other"] # None
               /\ expected' = [target |-> setting.value, other |-> cache["other"]]
        BY <2>3 DEF Baseline, StartWrite, ControlEnds
      <3> QED
        BY <3>1, <3>2, <3>3, Expected
    <2>4. CASE ~StartControl /\ ~Baseline
      <3>1. expected' = expected \/ expected' = None
        BY <2>4
           DEF Next, vars, Task, ControlStep, Connect, Negotiated, Closed, NextMonitor,
               SkipUpdate, Poll, Update, Readback, NoUpdate, Watch, Handle,
               NegotiateReply, Report, ApplyWrite, Touch, LinkLost, HandleStep,
               HandleGarbled, HandleReport, HandleRejection, Disconnect, ControlEnds,
               AskStatus, StartWrite, NextAttempt, Notify, linkVars, feedVars, dataVars,
               ctlVars, worldVars, histVars
      <3> QED
        BY <2>1, <3>1
    <2> QED
      BY <2>2, <2>3, <2>4
  <1>18. held' \in SUBSET Fields
    <2>1. held \in SUBSET Fields
      BY <1>0 DEF TypeOK
    <2>2. \A s : Met(s) \subseteq Fields
      BY <1>0, Expected DEF Met, TypeOK
    <2>3. held' = held \/ held' = {} \/ held' = held \cup Met(station')
      BY DEF Next, vars, Task, ControlStep, Connect, Negotiated, Closed, NextMonitor,
             Baseline, SkipUpdate, Poll, Update, Readback, NoUpdate, Watch, Handle,
             StartControl, NegotiateReply, Report, ApplyWrite, Touch, LinkLost,
             HandleStep, HandleGarbled, HandleReport, HandleRejection, Disconnect,
             ControlEnds, AskStatus, StartWrite, NextAttempt, Notify, linkVars,
             feedVars, dataVars, ctlVars, worldVars, histVars
    <2> QED
      BY <2>1, <2>2, <2>3
  <1>19. inbox' \in Seq(Reports \cup Signals) /\ Len(inbox') <= MaxInbox
    <2>1. inbox \in Seq(Reports \cup Signals) /\ Len(inbox) <= MaxInbox /\ MaxInbox \in Nat
      BY <1>0, BoundsAssumption DEF TypeOK
    <2>2. ASSUME NEW m \in Reports \cup Signals, Notify(m)
          PROVE  inbox' \in Seq(Reports \cup Signals) /\ Len(inbox') <= MaxInbox
      BY <2>1, <2>2 DEF Notify
    <2>3. CASE NegotiateReply
      BY <2>2, <2>3, Shapes DEF NegotiateReply
    <2>4. CASE Report
      <3>1. \A has \in SUBSET Fields \ {{}} : [what |-> "report", has |-> has, of |-> station] \in Reports
        BY <1>0 DEF TypeOK, Reports
      <3> QED
        BY <2>2, <2>4, <3>1 DEF Report
    <2>5. CASE ApplyWrite
      <3>1. inbox' = inbox \/ Notify([what |-> "rejected"])
        BY <2>5 DEF ApplyWrite
      <3> QED
        BY <2>1, <2>2, <3>1, Shapes
    <2>6. CASE inbox # <<>> /\ inbox' = Tail(inbox)
      BY <2>1, <2>6, Removed
    <2>7. CASE inbox' = inbox
      BY <2>1, <2>7
    <2>8. CASE inbox' = <<>>
      BY <2>1, <2>8
    <2>9. CASE ~NegotiateReply /\ ~Report /\ ~ApplyWrite
      <3>1. inbox' = inbox \/ inbox' = <<>> \/ (inbox # <<>> /\ inbox' = Tail(inbox))
        BY <2>9
           DEF Next, vars, Task, ControlStep, Connect, Negotiated, Closed, NextMonitor,
               Baseline, SkipUpdate, Poll, Update, Readback, NoUpdate, Watch, Handle,
               StartControl, Touch, LinkLost, HandleStep, HandleGarbled, HandleReport,
               HandleRejection, Disconnect, ControlEnds, AskStatus, StartWrite,
               NextAttempt, Notify, linkVars, feedVars, dataVars, ctlVars, worldVars,
               histVars
      <3> QED
        BY <2>6, <2>7, <2>8, <3>1
    <2> QED
      BY <2>3, <2>4, <2>5, <2>9
  <1>20. down' \in Seq(Packets) /\ Len(down') <= MaxDown
    <2>1. down \in Seq(Packets) /\ Len(down) <= MaxDown /\ MaxDown \in Nat \ {0}
      BY <1>0, BoundsAssumption DEF TypeOK
    <2>2. ASSUME NEW p \in Packets, Len(down) < MaxDown, down' = Append(down, p)
          PROVE  down' \in Seq(Packets) /\ Len(down') <= MaxDown
      BY <2>1, <2>2
    <2>3. CASE down' = down
      BY <2>1, <2>3
    <2>4. CASE down' = <<>>
      BY <2>1, <2>4
    <2>5. CASE down # <<>> /\ down' = Tail(down)
      BY <2>1, <2>5, Removed
    <2>6. CASE StartControl
      <3>1. PICK request : down' = Append([i \in DOMAIN down |-> Disowned(down[i])], request)
                            /\ (request = Status \/ \E v \in Values : request = Write(v))
        BY <2>6 DEF StartControl
      <3>2. request \in Packets /\ Len(down) < MaxDown
        BY <2>6, <3>1, Shapes DEF StartControl
      <3>3. down' \in Seq(Packets) /\ Len(down') = Len(down) + 1 /\ Len(down) \in Nat
        BY <2>1, <3>1, <3>2, AllDisowned
      <3> QED
        BY <2>1, <3>2, <3>3
    <2>7. CASE Handle
      <3>1. CASE down' = Append(down, Status) /\ Head(inbox).what = "step" /\ runner = "negotiate"
        <4>1. inbox # <<>> /\ 1 \in DOMAIN inbox /\ inbox[1].what = "step"
          BY <1>0, <2>7, <3>1, EmptySeq DEF Handle, TypeOK
        <4>2. down = <<>>
          BY <3>1, <4>1 DEF IInv, Negotiation, NoStep
        <4> QED
          BY <2>1, <2>2, <3>1, <4>2, Shapes
      <3>2. down' = down \/ (down' = Append(down, Status) /\ Head(inbox).what = "step" /\ runner = "negotiate")
        BY <2>7 DEF Handle, HandleStep, HandleGarbled, HandleReport, HandleRejection
      <3> QED
        BY <2>3, <3>1, <3>2
    <2>8. CASE Baseline
      <3>1. setting.value \in Values
        BY <1>0, <2>8 DEF IInv, Phases, Baseline
      <3>2. down' = down \/ (Len(down) < MaxDown /\ down' = Append(down, Write(setting.value)))
        BY <2>8 DEF Baseline
      <3> QED
        BY <2>2, <2>3, <3>1, <3>2, Shapes
    <2>9. CASE ~StartControl /\ ~Handle /\ ~Baseline
      <3>1. \/ down' = down \/ down' = <<>> \/ (down # <<>> /\ down' = Tail(down))
            \/ (Len(down) < MaxDown /\ down' = Append(down, Status))
        BY <2>9
           DEF Next, vars, Task, ControlStep, Connect, Negotiated, Closed, NextMonitor,
               SkipUpdate, Poll, Update, Readback, NoUpdate, Watch, NegotiateReply,
               Report, ApplyWrite, Touch, LinkLost, HandleStep, HandleGarbled,
               HandleReport, HandleRejection, Disconnect, ControlEnds, AskStatus,
               StartWrite, NextAttempt, Notify, linkVars, feedVars, dataVars, ctlVars,
               worldVars, histVars
      <3> QED
        BY <2>2, <2>3, <2>4, <2>5, <3>1, Shapes
    <2> QED
      BY <2>6, <2>7, <2>8, <2>9
  <1> QED
    BY <1>1, <1>2, <1>3, <1>4, <1>5, <1>6, <1>7, <1>8, <1>9, <1>10, <1>11, <1>12, <1>13, <1>14, <1>15, <1>16, <1>17, <1>18, <1>19, <1>20
       DEF TypeOK
-----------------------------------------------------------------------------
(* The negotiation. *)

\* While the task is connecting or negotiating no setting is applied, and one
\* reply of the negotiation at most is owed, waiting, or answered by a request.
LEMMA NegotiationKept == IInv /\ [Next]_vars => Negotiation'
  <1> SUFFICES ASSUME IInv, [Next]_vars PROVE Negotiation'
    OBVIOUS
  <1>0. TypeOK /\ TypeOK'
    BY TypeKept DEF IInv
  <1>q. /\ inbox \in Seq(Reports \cup Signals) /\ down \in Seq(Packets)
        /\ Len(inbox) \in Nat /\ DOMAIN inbox = 1..Len(inbox)
        /\ Len(down) \in Nat /\ DOMAIN down = 1..Len(down)
    BY <1>0 DEF TypeOK
  <1>1. runner' = "connect" => ~link' /\ inbox' = <<>> /\ down' = <<>> /\ ~owed'
    <2>1. CASE runner = "connect"
      <3>1. ~link /\ inbox = <<>> /\ down = <<>> /\ ~owed /\ control = "idle"
        BY <2>1 DEF IInv, Negotiation
      <3>2. runner' # "connect" \/ UNCHANGED <<link, inbox, down, owed>>
        BY <2>1, <3>1
           DEF Next, vars, Task, ControlStep, Connect, Negotiated, Closed, NextMonitor,
               Baseline, SkipUpdate, Poll, Update, Readback, NoUpdate, Watch, Handle,
               StartControl, NegotiateReply, Report, ApplyWrite, Touch, LinkLost,
               HandleStep, HandleGarbled, HandleReport, HandleRejection, Disconnect,
               ControlEnds, AskStatus, StartWrite, NextAttempt, Notify, linkVars,
               feedVars, dataVars, ctlVars, worldVars, histVars, Connected, Waiting
      <3> QED
        BY <3>1, <3>2
    <2>2. CASE runner # "connect"
      BY <2>2
         DEF Next, vars, Task, ControlStep, Connect, Negotiated, Closed, NextMonitor,
             Baseline, SkipUpdate, Poll, Update, Readback, NoUpdate, Watch, Handle,
             StartControl, NegotiateReply, Report, ApplyWrite, Touch, LinkLost,
             HandleStep, HandleGarbled, HandleReport, HandleRejection, Disconnect,
             ControlEnds, AskStatus, StartWrite, NextAttempt, Notify, linkVars,
             feedVars, dataVars, ctlVars, worldVars, histVars
    <2> QED
      BY <2>1, <2>2
  <1>2. runner' \in {"connect", "negotiate"} => control' = "idle"
    <2>1. CASE runner \in {"connect", "negotiate"}
      <3>1. control = "idle"
        BY <2>1 DEF IInv, Negotiation
      <3> QED
        BY <2>1, <3>1
           DEF Next, vars, Task, ControlStep, Connect, Negotiated, Closed, NextMonitor,
               Baseline, SkipUpdate, Poll, Update, Readback, NoUpdate, Watch, Handle,
               StartControl, NegotiateReply, Report, ApplyWrite, Touch, LinkLost,
               HandleStep, HandleGarbled, HandleReport, HandleRejection, Disconnect,
               ControlEnds, AskStatus, StartWrite, NextAttempt, Notify, linkVars,
               feedVars, dataVars, ctlVars, worldVars, histVars, Connected, Waiting
    <2>2. CASE runner \notin {"connect", "negotiate"}
      <3>1. runner' \in {"connect", "negotiate"} => runner' = "connect" /\ control = "idle" /\ control' = control
        BY <2>2
           DEF Next, vars, Task, ControlStep, Connect, Negotiated, Closed, NextMonitor,
               Baseline, SkipUpdate, Poll, Update, Readback, NoUpdate, Watch, Handle,
               StartControl, NegotiateReply, Report, ApplyWrite, Touch, LinkLost,
               HandleStep, HandleGarbled, HandleReport, HandleRejection, Disconnect,
               ControlEnds, AskStatus, StartWrite, NextAttempt, Notify, linkVars,
               feedVars, dataVars, ctlVars, worldVars, histVars
      <3> QED
        BY <3>1
    <2> QED
      BY <2>1, <2>2
  <1>3. ASSUME runner' = "negotiate"
        PROVE  /\ \A i, j \in DOMAIN inbox' : inbox'[i].what = "step" /\ inbox'[j].what = "step" => i = j
               /\ owed' \/ down' # <<>> => NoStep(inbox')
               /\ down' # <<>> => ~owed' /\ Len(down') = 1
    <2>1. CASE runner = "connect"
      <3>1. inbox = <<>> /\ down = <<>>
        BY <2>1 DEF IInv, Negotiation
      <3>2. Connect
        BY <1>3, <2>1
           DEF Next, vars, Task, ControlStep, Negotiated, Closed, NextMonitor, Baseline,
               SkipUpdate, Poll, Update, Readback, NoUpdate, Watch, Handle,
               StartControl, NegotiateReply, Report, ApplyWrite, Touch, LinkLost,
               HandleStep, HandleGarbled, HandleReport, HandleRejection, Disconnect,
               ControlEnds, AskStatus, StartWrite, NextAttempt, Notify, linkVars,
               feedVars, dataVars, ctlVars, worldVars, histVars
      <3>3. inbox' = inbox /\ down' = down
        BY <3>2 DEF Connect, feedVars, linkVars
      <3>4. DOMAIN inbox' = {}
        BY <3>1, <3>3
      <3> QED
        BY <3>1, <3>3, <3>4 DEF NoStep
    <2>2. CASE runner = "negotiate"
      <3>0. control = "idle"
        BY <2>2 DEF IInv, Negotiation
      <3>1. /\ \A i, j \in DOMAIN inbox : inbox[i].what = "step" /\ inbox[j].what = "step" => i = j
            /\ owed \/ down # <<>> => NoStep(inbox)
            /\ down # <<>> => ~owed /\ Len(down) = 1
        BY <2>2 DEF IInv, Negotiation
      <3>2. CASE Handle
        <4>1. /\ inbox # <<>> /\ inbox' = Tail(inbox)
              /\ Len(inbox) \in Nat \ {0} /\ Head(inbox) = inbox[1]
              /\ DOMAIN inbox' = 1..(Len(inbox) - 1)
              /\ \A i \in 1..(Len(inbox) - 1) : inbox'[i] = inbox[i + 1]
          BY <1>q, <3>2, Removed DEF Handle
        <4>2. \A i, j \in DOMAIN inbox' : inbox'[i].what = "step" /\ inbox'[j].what = "step" => i = j
          <5>1. TAKE i, j \in DOMAIN inbox'
          <5>2. i + 1 \in DOMAIN inbox /\ j + 1 \in DOMAIN inbox
                /\ inbox'[i] = inbox[i + 1] /\ inbox'[j] = inbox[j + 1]
            BY <1>q, <4>1
          <5>3. inbox[i + 1].what = "step" /\ inbox[j + 1].what = "step" => i + 1 = j + 1
            BY <3>1, <5>2
          <5> QED
            BY <4>1, <5>2, <5>3
        <4>3. NoStep(inbox) => NoStep(inbox')
          BY <1>q, <4>1 DEF NoStep
        <4>4. CASE inbox[1].what = "step"
          <5>1. NoStep(inbox')
            <6>1. SUFFICES ASSUME NEW i \in DOMAIN inbox', inbox'[i].what = "step" PROVE FALSE
              BY DEF NoStep
            <6>2. 1 \in DOMAIN inbox /\ i + 1 \in DOMAIN inbox /\ inbox'[i] = inbox[i + 1]
              BY <1>q, <4>1
            <6>3. 1 = i + 1
              BY <3>1, <4>4, <6>1, <6>2
            <6> QED
              BY <4>1, <6>3
          <5>2. ~owed /\ down = <<>>
            BY <1>q, <3>1, <4>1, <4>4 DEF NoStep
          <5>3. \/ down' = down
                \/ down' = Append(down, Status) /\ ~owed'
            <6>1. HandleStep
              BY <3>2, <4>1, <4>4 DEF Handle, HandleGarbled, HandleReport, HandleRejection
            <6> QED
              BY <6>1 DEF HandleStep
          <5>4. Len(<<>>) = 0 /\ Len(Append(<<>>, Status)) = 1 /\ Append(<<>>, Status) # <<>>
            OBVIOUS
          <5> QED
            BY <4>2, <5>1, <5>2, <5>3, <5>4
        <4>5. CASE inbox[1].what # "step"
          <5>1. owed' = owed /\ down' = down
            BY <3>2, <4>1, <4>5 DEF Handle, HandleGarbled, HandleReport, HandleRejection
          <5> QED
            BY <3>1, <4>2, <4>3, <5>1
        <4> QED
          BY <4>4, <4>5
      <3>3. ASSUME NEW m \in Reports \cup Signals, inbox' = Append(inbox, m), m.what # "step"
            PROVE  /\ \A i, j \in DOMAIN inbox' : inbox'[i].what = "step" /\ inbox'[j].what = "step" => i = j
                   /\ NoStep(inbox) => NoStep(inbox')
        <4>1. /\ DOMAIN inbox' = 1..(Len(inbox) + 1) /\ inbox'[Len(inbox) + 1] = m
              /\ \A i \in 1..Len(inbox) : inbox'[i] = inbox[i]
          BY <1>q, <3>3, Appended
        <4>2. NoStep(inbox) => NoStep(inbox')
          BY <1>q, <3>3, <4>1 DEF NoStep
        <4>3. \A i \in DOMAIN inbox' : inbox'[i].what = "step" => i \in DOMAIN inbox /\ inbox'[i] = inbox[i]
          BY <1>q, <3>3, <4>1
        <4> QED
          BY <3>1, <4>2, <4>3
      <3>4. CASE NegotiateReply
        <4>1. PICK w \in {"step", "garbled"} : inbox' = Append(inbox, [what |-> w])
          BY <3>4 DEF NegotiateReply, Notify
        <4>2. owed /\ ~owed' /\ down' = down
          BY <3>4 DEF NegotiateReply
        <4>3. [what |-> w] \in Reports \cup Signals
          BY Shapes
        <4>4. /\ DOMAIN inbox' = 1..(Len(inbox) + 1)
              /\ \A i \in 1..Len(inbox) : inbox'[i] = inbox[i]
          BY <1>q, <4>1, <4>3, Appended
        <4>5. \A i \in DOMAIN inbox' : inbox'[i].what = "step" => i = Len(inbox) + 1
          BY <1>q, <3>1, <4>2, <4>4 DEF NoStep
        <4> QED
          BY <3>1, <4>2, <4>5
      <3>5. down' = Tail(down) => down = <<>> \/ (down' = <<>> /\ Len(down) = 1)
        BY <1>q, <3>1, Removed, EmptySeq
      <3>6. CASE Report
        <4>1. PICK has \in SUBSET Fields \ {{}} :
                inbox' = Append(inbox, [what |-> "report", has |-> has, of |-> station])
          BY <3>6 DEF Report, Notify
        <4>2. [what |-> "report", has |-> has, of |-> station] \in Reports
          BY <1>0 DEF TypeOK, Reports
        <4>3. owed' = owed /\ (down' = down \/ (down # <<>> /\ down' = Tail(down)))
          BY <3>6 DEF Report
        <4> QED
          BY <3>1, <3>3, <3>5, <4>1, <4>2, <4>3
      <3>7. CASE ApplyWrite
        <4>1. inbox' = inbox \/ inbox' = Append(inbox, [what |-> "rejected"])
          BY <3>7 DEF ApplyWrite, Notify
        <4>2. owed' = owed /\ down # <<>> /\ down' = Tail(down)
          BY <3>7 DEF ApplyWrite
        <4> QED
          BY <3>1, <3>3, <3>5, <4>1, <4>2, Shapes
      <3>8. CASE ~Handle /\ ~NegotiateReply /\ ~Report /\ ~ApplyWrite
        <4>1. inbox' = inbox /\ (UNCHANGED <<down, owed>> \/ (down' = <<>> /\ ~owed'))
          BY <1>3, <2>2, <3>0, <3>8
             DEF Next, vars, Task, ControlStep, Connect, Negotiated, Closed,
                 NextMonitor, Baseline, SkipUpdate, Poll, Update, Readback, NoUpdate,
                 Watch, StartControl, Touch, LinkLost, HandleStep, HandleGarbled,
                 HandleReport, HandleRejection, Disconnect, ControlEnds, AskStatus,
                 StartWrite, NextAttempt, Notify, linkVars, feedVars, dataVars, ctlVars,
                 worldVars, histVars, Connected, Waiting
        <4> QED
          BY <3>1, <4>1
      <3> QED
        BY <3>2, <3>4, <3>6, <3>7, <3>8
    <2>3. runner \in {"connect", "negotiate"}
      BY <1>3
         DEF Next, vars, Task, ControlStep, Connect, Negotiated, Closed, NextMonitor,
             Baseline, SkipUpdate, Poll, Update, Readback, NoUpdate, Watch, Handle,
             StartControl, NegotiateReply, Report, ApplyWrite, Touch, LinkLost,
             HandleStep, HandleGarbled, HandleReport, HandleRejection, Disconnect,
             ControlEnds, AskStatus, StartWrite, NextAttempt, Notify, linkVars,
             feedVars, dataVars, ctlVars, worldVars, histVars
    <2> QED
      BY <2>1, <2>2, <2>3
  <1> QED
    BY <1>1, <1>2, <1>3 DEF Negotiation
-----------------------------------------------------------------------------
(* The phases of a setting. *)

\* What becomes of the write of a setting when the requests on their way change.
LEMMA Writes ==
  ASSUME NEW q \in Seq(Packets), NEW t
  PROVE  /\ t = <<>> => NoneMine(t)
         /\ NoneMine(t) => OneMine(t)
         /\ t = Append(q, Status) => (NoneMine(q) => NoneMine(t)) /\ (OneMine(q) => OneMine(t))
         /\ q # <<>> /\ t = Tail(q) => /\ NoneMine(q) => NoneMine(t)
                                       /\ OneMine(q) => OneMine(t)
                                       /\ OneMine(q) /\ Mine(Head(q)) => NoneMine(t)
         /\ \A v \in Values : NoneMine(q) /\ t = Append(q, Write(v)) => OneMine(t)
  <1>0. Len(q) \in Nat /\ DOMAIN q = 1..Len(q)
    OBVIOUS
  <1>1. t = <<>> => NoneMine(t)
    BY DEF NoneMine
  <1>2. NoneMine(t) => OneMine(t)
    BY DEF NoneMine, OneMine
  <1>3. ASSUME t = Append(q, Status)
        PROVE  (NoneMine(q) => NoneMine(t)) /\ (OneMine(q) => OneMine(t))
    <2>1. /\ DOMAIN t = 1..(Len(q) + 1) /\ t[Len(q) + 1] = Status
          /\ \A i \in 1..Len(q) : t[i] = q[i]
      BY <1>0, <1>3, Shapes, Appended
    <2>2. \A i \in DOMAIN t : Mine(t[i]) => i \in DOMAIN q /\ t[i] = q[i]
      BY <1>0, <2>1, Shapes
    <2> QED
      BY <2>2 DEF NoneMine, OneMine
  <1>4. ASSUME q # <<>>, t = Tail(q)
        PROVE  /\ NoneMine(q) => NoneMine(t)
               /\ OneMine(q) => OneMine(t)
               /\ OneMine(q) /\ Mine(Head(q)) => NoneMine(t)
    <2>1. /\ DOMAIN t = 1..(Len(q) - 1) /\ Len(q) # 0 /\ Head(q) = q[1]
          /\ \A i \in 1..(Len(q) - 1) : t[i] = q[i + 1]
      BY <1>4, Removed
    <2>2. \A i \in DOMAIN t : i \in Nat /\ i + 1 # 1 /\ i + 1 \in DOMAIN q /\ t[i] = q[i + 1]
      BY <1>0, <2>1
    <2>3. NoneMine(q) => NoneMine(t)
      BY <2>2 DEF NoneMine
    <2>4. ASSUME OneMine(q) PROVE OneMine(t)
      <3>1. SUFFICES ASSUME NEW i \in DOMAIN t, NEW j \in DOMAIN t, Mine(t[i]), Mine(t[j])
                     PROVE  i = j
        BY DEF OneMine
      <3>2. i + 1 = j + 1
        BY <2>2, <2>4, <3>1 DEF OneMine
      <3> QED
        BY <2>2, <3>2
    <2>5. ASSUME OneMine(q), Mine(Head(q)) PROVE NoneMine(t)
      <3>1. SUFFICES ASSUME NEW i \in DOMAIN t, Mine(t[i]) PROVE FALSE
        BY DEF NoneMine
      <3>2. 1 \in DOMAIN q /\ Mine(q[1])
        BY <1>0, <2>1, <2>5
      <3>3. i + 1 = 1
        BY <2>2, <2>5, <3>1, <3>2 DEF OneMine
      <3> QED
        BY <2>2, <3>3
    <2> QED
      BY <2>3, <2>4, <2>5
  <1>5. ASSUME NEW v \in Values, NoneMine(q), t = Append(q, Write(v)) PROVE OneMine(t)
    <2>1. DOMAIN t = 1..(Len(q) + 1) /\ \A i \in 1..Len(q) : t[i] = q[i]
      BY <1>0, <1>5, Shapes, Appended
    <2>2. \A i \in DOMAIN t : Mine(t[i]) => i = Len(q) + 1
      BY <1>0, <1>5, <2>1 DEF NoneMine
    <2> QED
      BY <2>2 DEF OneMine
  <1> QED
    BY <1>1, <1>2, <1>3, <1>4, <1>5

\* What a setting knows at each point of its way, and that its write is sent
\* once.
LEMMA PhasesKept == IInv /\ [Next]_vars => Phases'
  <1> SUFFICES ASSUME IInv, [Next]_vars PROVE Phases'
    OBVIOUS
  <1>0. TypeOK /\ TypeOK'
    BY TypeKept DEF IInv
  <1>p. Phases
    BY DEF IInv
  <1>1. ASSUME control' = "idle"
        PROVE  ~arrived' /\ ~clean' /\ ~refused' /\ held' = {} /\ expected' = None
    <2>1. CASE control = "idle"
      <3>1. ~arrived /\ ~clean /\ ~refused /\ held = {} /\ expected = None
        BY <1>p, <2>1 DEF Phases
      <3>2. ~arrived'
        BY <1>1, <2>1, <3>1
           DEF Next, vars, Task, ControlStep, Connect, Negotiated, Closed, NextMonitor,
               Baseline, SkipUpdate, Poll, Update, Readback, NoUpdate, Watch, Handle,
               StartControl, NegotiateReply, Report, ApplyWrite, Touch, LinkLost,
               HandleStep, HandleGarbled, HandleReport, HandleRejection, Disconnect,
               ControlEnds, AskStatus, StartWrite, NextAttempt, Notify, linkVars,
               feedVars, dataVars, ctlVars, worldVars, histVars, Waiting
      <3>3. ~clean'
        BY <1>1, <2>1, <3>1
           DEF Next, vars, Task, ControlStep, Connect, Negotiated, Closed, NextMonitor,
               Baseline, SkipUpdate, Poll, Update, Readback, NoUpdate, Watch, Handle,
               StartControl, NegotiateReply, Report, ApplyWrite, Touch, LinkLost,
               HandleStep, HandleGarbled, HandleReport, HandleRejection, Disconnect,
               ControlEnds, AskStatus, StartWrite, NextAttempt, Notify, linkVars,
               feedVars, dataVars, ctlVars, worldVars, histVars, Waiting
      <3>3a. expected' = None
        BY <1>1, <2>1, <3>1
           DEF Next, vars, Task, ControlStep, Connect, Negotiated, Closed, NextMonitor,
               Baseline, SkipUpdate, Poll, Update, Readback, NoUpdate, Watch, Handle,
               StartControl, NegotiateReply, Report, ApplyWrite, Touch, LinkLost,
               HandleStep, HandleGarbled, HandleReport, HandleRejection, Disconnect,
               ControlEnds, AskStatus, StartWrite, NextAttempt, Notify, linkVars,
               feedVars, dataVars, ctlVars, worldVars, histVars, Waiting
      <3>4. ~refused'
        BY <1>1, <2>1, <3>1
           DEF Next, vars, Task, ControlStep, Connect, Negotiated, Closed, NextMonitor,
               Baseline, SkipUpdate, Poll, Update, Readback, NoUpdate, Watch, Handle,
               StartControl, NegotiateReply, Report, ApplyWrite, Touch, LinkLost,
               HandleStep, HandleGarbled, HandleReport, HandleRejection, Disconnect,
               ControlEnds, AskStatus, StartWrite, NextAttempt, Notify, linkVars,
               feedVars, dataVars, ctlVars, worldVars, histVars, Waiting
      <3>5. held' = {}
        BY <1>1, <2>1, <3>1
           DEF Next, vars, Task, ControlStep, Connect, Negotiated, Closed, NextMonitor,
               Baseline, SkipUpdate, Poll, Update, Readback, NoUpdate, Watch, Handle,
               StartControl, NegotiateReply, Report, ApplyWrite, Touch, LinkLost,
               HandleStep, HandleGarbled, HandleReport, HandleRejection, Disconnect,
               ControlEnds, AskStatus, StartWrite, NextAttempt, Notify, linkVars,
               feedVars, dataVars, ctlVars, worldVars, histVars, Waiting
      <3> QED
        BY <3>2, <3>3, <3>3a, <3>4, <3>5
    <2>2. CASE control # "idle"
      BY <1>1, <2>2
         DEF Next, vars, Task, ControlStep, Connect, Negotiated, Closed, NextMonitor,
             Baseline, SkipUpdate, Poll, Update, Readback, NoUpdate, Watch, Handle,
             StartControl, NegotiateReply, Report, ApplyWrite, Touch, LinkLost,
             HandleStep, HandleGarbled, HandleReport, HandleRejection, Disconnect,
             ControlEnds, AskStatus, StartWrite, NextAttempt, Notify, linkVars,
             feedVars, dataVars, ctlVars, worldVars, histVars
    <2> QED
      BY <2>1, <2>2
  <1>2. ASSUME control' # "idle"
        PROVE  result' = None /\ setting' \in [kind : Kinds, value : Values]
    <2>1. CASE control = "idle"
      BY <1>2, <2>1
         DEF Next, vars, Task, ControlStep, Connect, Negotiated, Closed, NextMonitor,
             Baseline, SkipUpdate, Poll, Update, Readback, NoUpdate, Watch, Handle,
             StartControl, NegotiateReply, Report, ApplyWrite, Touch, LinkLost,
             HandleStep, HandleGarbled, HandleReport, HandleRejection, Disconnect,
             ControlEnds, AskStatus, StartWrite, NextAttempt, Notify, linkVars,
             feedVars, dataVars, ctlVars, worldVars, histVars, Waiting
    <2>2. CASE control # "idle"
      <3>1. result = None /\ setting \in [kind : Kinds, value : Values]
        BY <1>p, <2>2 DEF Phases
      <3>2. result' = result /\ setting' = setting
        BY <1>2, <2>2
           DEF Next, vars, Task, ControlStep, Connect, Negotiated, Closed, NextMonitor,
               Baseline, SkipUpdate, Poll, Update, Readback, NoUpdate, Watch, Handle,
               StartControl, NegotiateReply, Report, ApplyWrite, Touch, LinkLost,
               HandleStep, HandleGarbled, HandleReport, HandleRejection, Disconnect,
               ControlEnds, AskStatus, StartWrite, NextAttempt, Notify, linkVars,
               feedVars, dataVars, ctlVars, worldVars, histVars
      <3> QED
        BY <3>1, <3>2
    <2> QED
      BY <2>1, <2>2
  <1>3. StartControl => /\ control' \in {"fill", "base"} => NoneMine(down')
                        /\ OneMine(down') /\ ~arrived'
    <2>1. HAVE StartControl
    <2>2. control = "idle" /\ ~arrived /\ arrived' = arrived
      BY <1>p, <2>1 DEF StartControl, Phases
    <2>3. PICK request : /\ down' = Append([i \in DOMAIN down |-> Disowned(down[i])], request)
                         /\ request = Status \/ \E v \in Values : request = Write(v)
                         /\ control' \in {"fill", "base"} => request = Status
      BY <2>1 DEF StartControl, StartWrite
    <2>4. request \in Packets
      BY <2>3, Shapes
    <2>5. /\ Len(down) \in Nat /\ DOMAIN down' = 1..(Len(down) + 1)
          /\ down'[Len(down) + 1] = request
          /\ \A i \in 1..Len(down) : ~Mine(down'[i])
      BY <1>0, <2>3, <2>4, AllDisowned DEF TypeOK
    <2>6. \A i \in DOMAIN down' : Mine(down'[i]) => i = Len(down) + 1
      BY <2>5
    <2>7. OneMine(down')
      BY <2>6 DEF OneMine
    <2>8. request = Status => NoneMine(down')
      BY <2>5, <2>6, Shapes DEF NoneMine
    <2> QED
      BY <2>2, <2>3, <2>7, <2>8
  <1>4. control' \in {"fill", "base"} =>
          ~arrived' /\ ~clean' /\ ~refused' /\ held' = {} /\ expected' = None /\ NoneMine(down')
    <2>1. HAVE control' \in {"fill", "base"}
    <2>2. CASE StartControl
      <3>1. control = "idle" /\ ~arrived /\ ~clean /\ ~refused /\ held = {} /\ expected = None
        BY <1>p, <2>2 DEF StartControl, Phases
      <3>2. UNCHANGED <<arrived, held, refused, clean, expected>>
        BY <2>1, <2>2 DEF StartControl, StartWrite
      <3> QED
        BY <1>3, <2>1, <2>2, <3>1, <3>2
    <2>3. CASE ~StartControl
      <3>1. control = control'
        BY <2>1, <2>3
           DEF Next, vars, Task, ControlStep, Connect, Negotiated, Closed, NextMonitor,
               Baseline, SkipUpdate, Poll, Update, Readback, NoUpdate, Watch, Handle,
               NegotiateReply, Report, ApplyWrite, Touch, LinkLost, HandleStep,
               HandleGarbled, HandleReport, HandleRejection, Disconnect, ControlEnds,
               AskStatus, StartWrite, NextAttempt, Notify, linkVars, feedVars, dataVars,
               ctlVars, worldVars, histVars
      <3>2. ~arrived /\ ~clean /\ ~refused /\ held = {} /\ expected = None /\ NoneMine(down)
        BY <1>p, <2>1, <3>1 DEF Phases
      <3>3. CASE ApplyWrite
        <4>1. Head(down) \in Packets /\ Head(down) = down[1] /\ 1 \in DOMAIN down /\ Head(down) # Status
          <5>1. down \in Seq(Packets) /\ down # <<>> /\ Head(down) # Status
            BY <1>0, <3>3 DEF ApplyWrite, TypeOK
          <5>2. Head(down) \in Packets /\ Head(down) = down[1] /\ Len(down) \in Nat \ {0} /\ DOMAIN down = 1..Len(down)
            BY <5>1, Removed
          <5> QED
            BY <5>1, <5>2
        <4>2. ~Head(down).mine
          BY <3>2, <4>1, Shapes DEF NoneMine, Mine
        <4>3. ~arrived' /\ clean' = clean /\ expected' = expected
          BY <3>2, <3>3, <4>2 DEF ApplyWrite, ctlVars
        <4>4. ~refused'
          BY <3>2, <3>3, <4>2 DEF ApplyWrite
        <4>5. held' = held /\ down' = Tail(down) /\ down # <<>>
          BY <3>3, <4>3 DEF ApplyWrite
        <4>6. NoneMine(down')
          BY <1>0, <3>2, <4>5, Writes DEF TypeOK
        <4> QED
          BY <3>2, <4>3, <4>4, <4>5, <4>6
      <3>4. CASE ~ApplyWrite
        <4>1. arrived' = arrived /\ refused' = refused /\ expected' = expected
          BY <2>1, <2>3, <3>1, <3>4
             DEF Next, vars, Task, ControlStep, Connect, Negotiated, Closed,
                 NextMonitor, Baseline, SkipUpdate, Poll, Update, Readback, NoUpdate,
                 Watch, Handle, NegotiateReply, Report, Touch, LinkLost, HandleStep,
                 HandleGarbled, HandleReport, HandleRejection, Disconnect, ControlEnds,
                 AskStatus, StartWrite, NextAttempt, Notify, linkVars, feedVars,
                 dataVars, ctlVars, worldVars, histVars
        <4>2. held' = held
          BY <2>1, <2>3, <3>1, <3>2, <3>4
             DEF Next, vars, Task, ControlStep, Connect, Negotiated, Closed,
                 NextMonitor, Baseline, SkipUpdate, Poll, Update, Readback, NoUpdate,
                 Watch, Handle, NegotiateReply, Report, Touch, LinkLost, HandleStep,
                 HandleGarbled, HandleReport, HandleRejection, Disconnect, ControlEnds,
                 AskStatus, StartWrite, NextAttempt, Notify, linkVars, feedVars,
                 dataVars, ctlVars, worldVars, histVars
        <4>3. ~clean'
          BY <2>1, <2>3, <3>1, <3>2, <3>4
             DEF Next, vars, Task, ControlStep, Connect, Negotiated, Closed,
                 NextMonitor, Baseline, SkipUpdate, Poll, Update, Readback, NoUpdate,
                 Watch, Handle, NegotiateReply, Report, Touch, LinkLost, HandleStep,
                 HandleGarbled, HandleReport, HandleRejection, Disconnect, ControlEnds,
                 AskStatus, StartWrite, NextAttempt, Notify, linkVars, feedVars,
                 dataVars, ctlVars, worldVars, histVars
        <4>4. \/ down' = down \/ down' = <<>> \/ (down # <<>> /\ down' = Tail(down))
              \/ down' = Append(down, Status)
          BY <2>1, <2>3, <3>1, <3>4
             DEF Next, vars, Task, ControlStep, Connect, Negotiated, Closed,
                 NextMonitor, Baseline, SkipUpdate, Poll, Update, Readback, NoUpdate,
                 Watch, Handle, NegotiateReply, Report, Touch, LinkLost, HandleStep,
                 HandleGarbled, HandleReport, HandleRejection, Disconnect, ControlEnds,
                 AskStatus, StartWrite, NextAttempt, Notify, linkVars, feedVars,
                 dataVars, ctlVars, worldVars, histVars
        <4>5. NoneMine(down')
          BY <1>0, <3>2, <4>4, Writes DEF TypeOK
        <4> QED
          BY <3>2, <4>1, <4>2, <4>3, <4>5
      <3> QED
        BY <3>3, <3>4
    <2> QED
      BY <2>2, <2>3
  <1>5. control' \in {"pause", "reply", "readback"} => expected' \in Expectations
    <2>1. HAVE control' \in {"pause", "reply", "readback"}
    <2>2. CASE StartControl
      <3>1. cache["other"] \in Values \cup {None}
        BY <1>0 DEF TypeOK, Fields
      <3>2. \/ \E v \in Values : expected' = [target |-> v]
            \/ /\ cache["other"] # None
               /\ \E v \in Values : expected' = [target |-> v, other |-> cache["other"]]
        BY <2>1, <2>2 DEF StartControl, StartWrite, Write, Status
      <3> QED
        BY <3>1, <3>2, Expected
    <2>3. CASE Baseline
      <3>1. setting.value \in Values
        BY <1>p, <2>3 DEF Phases, Baseline
      <3>2. cache["other"] \in Values \cup {None}
        BY <1>0 DEF TypeOK, Fields
      <3>3. /\ cache["other"] # None
            /\ expected' = [target |-> setting.value, other |-> cache["other"]]
        BY <2>1, <2>3 DEF Baseline, StartWrite, ControlEnds
      <3> QED
        BY <3>1, <3>2, <3>3, Expected
    <2>4. CASE ~StartControl /\ ~Baseline
      <3>1. expected' = expected /\ control \in {"pause", "reply", "readback"}
        BY <2>1, <2>4
           DEF Next, vars, Task, ControlStep, Connect, Negotiated, Closed, NextMonitor,
               SkipUpdate, Poll, Update, Readback, NoUpdate, Watch, Handle,
               NegotiateReply, Report, ApplyWrite, Touch, LinkLost, HandleStep,
               HandleGarbled, HandleReport, HandleRejection, Disconnect, ControlEnds,
               AskStatus, StartWrite, NextAttempt, Notify, linkVars, feedVars, dataVars,
               ctlVars, worldVars, histVars
      <3> QED
        BY <1>p, <3>1 DEF Phases
    <2> QED
      BY <2>2, <2>3, <2>4
  <1>6. control' # "idle" => OneMine(down') /\ (arrived' => NoneMine(down'))
    <2>1. HAVE control' # "idle"
    <2>2. CASE control = "idle"
      <3>1. StartControl
        BY <2>1, <2>2
           DEF Next, vars, Task, ControlStep, Connect, Negotiated, Closed, NextMonitor,
               Baseline, SkipUpdate, Poll, Update, Readback, NoUpdate, Watch, Handle,
               NegotiateReply, Report, ApplyWrite, Touch, LinkLost, HandleStep,
               HandleGarbled, HandleReport, HandleRejection, Disconnect, ControlEnds,
               AskStatus, StartWrite, NextAttempt, Notify, linkVars, feedVars, dataVars,
               ctlVars, worldVars, histVars, Waiting
      <3> QED
        BY <1>3, <3>1
    <2>3. CASE control # "idle"
      <3>1. OneMine(down) /\ (arrived => NoneMine(down))
        BY <1>p, <2>3 DEF Phases
      <3>2. CASE Baseline
        <4>1. ~arrived /\ NoneMine(down) /\ setting.value \in Values
          BY <1>p, <3>2 DEF Baseline, Phases
        <4>2. down' = Append(down, Write(setting.value)) /\ arrived' = arrived
          BY <2>1, <3>2 DEF Baseline, ControlEnds
        <4> QED
          BY <1>0, <4>1, <4>2, Writes DEF TypeOK
      <3>3. CASE ApplyWrite
        <4>1. down \in Seq(Packets) /\ down # <<>> /\ down' = Tail(down) /\ Head(down) # Status
          BY <1>0, <3>3 DEF ApplyWrite, TypeOK
        <4>2. Head(down) \in Packets
          BY <4>1, Removed
        <4>3. arrived' => arrived \/ Mine(Head(down))
          BY <3>3, <4>1, <4>2, Shapes DEF ApplyWrite, Mine
        <4> QED
          BY <3>1, <4>1, <4>3, Writes
      <3>4. CASE ~Baseline /\ ~ApplyWrite
        <4>1. arrived' = arrived
          BY <2>1, <2>3, <3>4
             DEF Next, vars, Task, ControlStep, Connect, Negotiated, Closed,
                 NextMonitor, SkipUpdate, Poll, Update, Readback, NoUpdate, Watch,
                 Handle, StartControl, NegotiateReply, Report, Touch, LinkLost,
                 HandleStep, HandleGarbled, HandleReport, HandleRejection, Disconnect,
                 ControlEnds, AskStatus, StartWrite, NextAttempt, Notify, linkVars,
                 feedVars, dataVars, ctlVars, worldVars, histVars
        <4>2. \/ down' = down \/ down' = <<>> \/ (down # <<>> /\ down' = Tail(down))
              \/ down' = Append(down, Status)
          BY <2>1, <2>3, <3>4
             DEF Next, vars, Task, ControlStep, Connect, Negotiated, Closed,
                 NextMonitor, SkipUpdate, Poll, Update, Readback, NoUpdate, Watch,
                 Handle, StartControl, NegotiateReply, Report, Touch, LinkLost,
                 HandleStep, HandleGarbled, HandleReport, HandleRejection, Disconnect,
                 ControlEnds, AskStatus, StartWrite, NextAttempt, Notify, linkVars,
                 feedVars, dataVars, ctlVars, worldVars, histVars
        <4> QED
          BY <1>0, <3>1, <4>1, <4>2, Writes DEF TypeOK
      <3> QED
        BY <3>2, <3>3, <3>4
    <2> QED
      BY <2>2, <2>3
  <1>7. ~arrived' => held' = {} /\ ~refused'
    <2>1. HAVE ~arrived'
    <2>2. CASE arrived
      <3>1. control' = "idle"
        BY <2>1, <2>2
           DEF Next, vars, Task, ControlStep, Connect, Negotiated, Closed, NextMonitor,
               Baseline, SkipUpdate, Poll, Update, Readback, NoUpdate, Watch, Handle,
               StartControl, NegotiateReply, Report, ApplyWrite, Touch, LinkLost,
               HandleStep, HandleGarbled, HandleReport, HandleRejection, Disconnect,
               ControlEnds, AskStatus, StartWrite, NextAttempt, Notify, linkVars,
               feedVars, dataVars, ctlVars, worldVars, histVars
      <3> QED
        BY <1>1, <3>1
    <2>3. CASE ~arrived
      <3>1. held = {} /\ ~refused
        BY <1>p, <2>3 DEF Phases
      <3>2. held' = {}
        BY <2>1, <2>3, <3>1
           DEF Next, vars, Task, ControlStep, Connect, Negotiated, Closed, NextMonitor,
               Baseline, SkipUpdate, Poll, Update, Readback, NoUpdate, Watch, Handle,
               StartControl, NegotiateReply, Report, ApplyWrite, Touch, LinkLost,
               HandleStep, HandleGarbled, HandleReport, HandleRejection, Disconnect,
               ControlEnds, AskStatus, StartWrite, NextAttempt, Notify, linkVars,
               feedVars, dataVars, ctlVars, worldVars, histVars
      <3>3. ~refused'
        BY <2>1, <2>3, <3>1
           DEF Next, vars, Task, ControlStep, Connect, Negotiated, Closed, NextMonitor,
               Baseline, SkipUpdate, Poll, Update, Readback, NoUpdate, Watch, Handle,
               StartControl, NegotiateReply, Report, ApplyWrite, Touch, LinkLost,
               HandleStep, HandleGarbled, HandleReport, HandleRejection, Disconnect,
               ControlEnds, AskStatus, StartWrite, NextAttempt, Notify, linkVars,
               feedVars, dataVars, ctlVars, worldVars, histVars
      <3> QED
        BY <3>2, <3>3
    <2> QED
      BY <2>2, <2>3
  <1> QED
    BY <1>1, <1>2, <1>4, <1>5, <1>6, <1>7 DEF Phases
-----------------------------------------------------------------------------
(* Reports and rejections. *)

\* What the notifications that wait say, after the queue has changed.
LEMMA Notifications ==
  ASSUME NEW q \in Seq(Reports \cup Signals), NEW t
  PROVE  /\ t = <<>> => NoReport(t)
         /\ \A e, h : NoReport(t) => WereTrue(t, e, h)
         /\ q # <<>> /\ t = Tail(q) =>
              /\ NoReport(q) => NoReport(t)
              /\ \A e, h : WereTrue(q, e, h) => WereTrue(t, e, h)
              /\ Announced(q) => Head(q).what # "report" /\ (Head(q).what = "rejected" \/ Announced(t))
         /\ \A m \in Reports \cup Signals : t = Append(q, m) =>
              /\ Announced(q) => Announced(t)
              /\ NoReport(q) /\ m.what = "rejected" => Announced(t)
              /\ m.what # "report" =>
                   /\ NoReport(q) => NoReport(t)
                   /\ \A e, h : WereTrue(q, e, h) => WereTrue(t, e, h)
              /\ \A e, h : /\ WereTrue(q, e, h)
                           /\ \A f \in m.has \cap DOMAIN e : m.of[f] = e[f] => f \in h
                           => WereTrue(t, e, h)
  <1>0. Len(q) \in Nat /\ DOMAIN q = 1..Len(q)
    OBVIOUS
  <1>1. t = <<>> => NoReport(t)
    BY DEF NoReport
  <1>2. \A e, h : NoReport(t) => WereTrue(t, e, h)
    BY DEF NoReport, WereTrue
  <1>3. ASSUME q # <<>>, t = Tail(q)
        PROVE  /\ NoReport(q) => NoReport(t)
               /\ \A e, h : WereTrue(q, e, h) => WereTrue(t, e, h)
               /\ Announced(q) => Head(q).what # "report" /\ (Head(q).what = "rejected" \/ Announced(t))
    <2>1. /\ DOMAIN t = 1..(Len(q) - 1) /\ Len(q) \in Nat \ {0} /\ Head(q) = q[1]
          /\ \A i \in 1..(Len(q) - 1) : t[i] = q[i + 1]
      BY <1>3, Removed
    <2>2. \A i \in DOMAIN t : i + 1 \in DOMAIN q /\ t[i] = q[i + 1]
      BY <1>0, <2>1
    <2>3. NoReport(q) => NoReport(t)
      BY <2>2 DEF NoReport
    <2>4. ASSUME NEW e, NEW h, WereTrue(q, e, h) PROVE WereTrue(t, e, h)
      BY <2>2, <2>4 DEF WereTrue
    <2>5. ASSUME Announced(q)
          PROVE  Head(q).what # "report" /\ (Head(q).what = "rejected" \/ Announced(t))
      <3>1. PICK i \in DOMAIN q : q[i].what = "rejected" /\ \A j \in DOMAIN q : j < i => q[j].what # "report"
        BY <2>5 DEF Announced
      <3>2. CASE i = 1
        BY <2>1, <3>1, <3>2
      <3>3. CASE i # 1
        <4>1. /\ i \in Nat /\ 1 < i /\ 1 \in DOMAIN q
              /\ i - 1 \in DOMAIN t /\ t[i - 1] = q[i]
          BY <1>0, <2>1, <3>3
        <4>2. \A j \in DOMAIN t : j < i - 1 => j + 1 \in DOMAIN q /\ j + 1 < i /\ t[j] = q[j + 1]
          BY <1>0, <2>1, <4>1
        <4>3. \A j \in DOMAIN t : j < i - 1 => t[j].what # "report"
          BY <3>1, <4>2
        <4> QED
          BY <2>1, <3>1, <4>1, <4>3 DEF Announced
      <3> QED
        BY <3>2, <3>3
    <2> QED
      BY <2>3, <2>4, <2>5
  <1>4. ASSUME NEW m \in Reports \cup Signals, t = Append(q, m)
        PROVE  /\ Announced(q) => Announced(t)
               /\ NoReport(q) /\ m.what = "rejected" => Announced(t)
               /\ m.what # "report" =>
                    /\ NoReport(q) => NoReport(t)
                    /\ \A e, h : WereTrue(q, e, h) => WereTrue(t, e, h)
               /\ \A e, h : /\ WereTrue(q, e, h)
                            /\ \A f \in m.has \cap DOMAIN e : m.of[f] = e[f] => f \in h
                            => WereTrue(t, e, h)
    <2>1. /\ DOMAIN t = 1..(Len(q) + 1) /\ t[Len(q) + 1] = m
          /\ \A i \in 1..Len(q) : t[i] = q[i]
      BY <1>4, Appended
    <2>2. \A i \in DOMAIN t : (i \in DOMAIN q /\ t[i] = q[i]) \/ (i = Len(q) + 1 /\ t[i] = m)
      BY <1>0, <2>1
    <2>3. Announced(q) => Announced(t)
      <3>1. SUFFICES ASSUME NEW i \in DOMAIN q, q[i].what = "rejected",
                            \A j \in DOMAIN q : j < i => q[j].what # "report"
                     PROVE  Announced(t)
        BY DEF Announced
      <3>2. i \in DOMAIN t /\ t[i] = q[i]
        BY <1>0, <2>1
      <3>3. \A j \in DOMAIN t : j < i => j \in DOMAIN q /\ t[j] = q[j]
        BY <1>0, <2>1
      <3> QED
        BY <3>1, <3>2, <3>3 DEF Announced
    <2>4. NoReport(q) /\ m.what = "rejected" => Announced(t)
      <3>1. HAVE NoReport(q) /\ m.what = "rejected"
      <3>2. Len(q) + 1 \in DOMAIN t /\ t[Len(q) + 1].what = "rejected"
        BY <1>0, <2>1, <3>1
      <3>3. \A j \in DOMAIN t : j < Len(q) + 1 => j \in DOMAIN q /\ t[j] = q[j]
        BY <1>0, <2>1
      <3> QED
        BY <3>1, <3>2, <3>3 DEF Announced, NoReport
    <2>5. m.what # "report" /\ NoReport(q) => NoReport(t)
      BY <2>2 DEF NoReport
    <2>6. ASSUME NEW e, NEW h, m.what # "report", WereTrue(q, e, h) PROVE WereTrue(t, e, h)
      BY <2>2, <2>6 DEF WereTrue
    <2>7. ASSUME NEW e, NEW h, WereTrue(q, e, h),
                 \A f \in m.has \cap DOMAIN e : m.of[f] = e[f] => f \in h
          PROVE  WereTrue(t, e, h)
      BY <2>2, <2>7 DEF WereTrue
    <2> QED
      BY <2>3, <2>4, <2>5, <2>6, <2>7
  <1> QED
    BY <1>1, <1>2, <1>3, <1>4

\* What is true, and what is expected, stays so when the station held more.
LEMMA MoreHeld ==
  ASSUME NEW q, NEW e, NEW h, NEW g, h \subseteq g, WereTrue(q, e, h)
  PROVE  WereTrue(q, e, g)
  BY DEF WereTrue

\* A setting is clean from the step that sends its write; from then on what it
\* expects is settled, and only ApplyWrite and Touch change what was held.
LEMMA StaysClean ==
  ASSUME IInv, [Next]_vars, clean'
  PROVE  \/ /\ inbox' = inbox /\ since' = {} /\ NoReport(inbox)
            /\ ~arrived' /\ ~refused' /\ control' = "pause"
         \/ /\ clean /\ control # "idle" /\ control' # "idle" /\ ~StartControl /\ ~Baseline
            /\ expected' = expected /\ expected \in Expectations /\ held \subseteq held'
            /\ arrived => arrived'
  <1>0. Phases /\ Phases'
    BY PhasesKept DEF IInv
  <1>1. control' # "idle"
    BY <1>0 DEF Phases
  <1>2. CASE StartControl
    <2>1. ~clean /\ ~arrived /\ ~refused
      BY <1>0, <1>2 DEF StartControl, Phases
    <2>2. /\ clean' = NoneToCome /\ since' = {} /\ control' = "pause"
          /\ inbox' = inbox /\ arrived' = arrived /\ refused' = refused
      BY <1>2, <2>1 DEF StartControl, StartWrite, feedVars
    <2> QED
      BY <2>1, <2>2 DEF NoneToCome, NoReport
  <1>3. CASE Baseline
    <2>1. ~clean /\ ~arrived /\ ~refused
      BY <1>0, <1>3 DEF Baseline, Phases
    <2>2. /\ clean' = NoneToCome /\ since' = {} /\ control' = "pause"
          /\ inbox' = inbox /\ arrived' = arrived /\ refused' = refused
      BY <1>1, <1>3 DEF Baseline, StartWrite, ControlEnds, feedVars
    <2> QED
      BY <2>1, <2>2 DEF NoneToCome, NoReport
  <1>4. CASE ~StartControl /\ ~Baseline
    <2>1. clean
      <3>1. clean' = clean \/ clean' = (clean /\ arrived) \/ clean' = FALSE
        BY <1>4
           DEF Next, vars, Task, ControlStep, Connect, Negotiated, Closed, NextMonitor,
               SkipUpdate, Poll, Update, Readback, NoUpdate, Watch, Handle,
               NegotiateReply, Report, ApplyWrite, Touch, LinkLost, HandleStep,
               HandleGarbled, HandleReport, HandleRejection, Disconnect, ControlEnds,
               AskStatus, StartWrite, NextAttempt, Notify, linkVars, feedVars, dataVars,
               ctlVars, worldVars, histVars
      <3> QED
        BY <3>1
    <2>2. control # "idle" /\ control \notin {"fill", "base"}
      BY <1>0, <2>1 DEF Phases
    <2>3. expected \in Expectations
      BY <1>0, <2>2 DEF Phases, IInv, TypeOK, Waiting
    <2>4. expected' = expected
      BY <1>1, <1>4, <2>2
         DEF Next, vars, Task, ControlStep, Connect, Negotiated, Closed, NextMonitor,
             SkipUpdate, Poll, Update, Readback, NoUpdate, Watch, Handle,
             NegotiateReply, Report, ApplyWrite, Touch, LinkLost, HandleStep,
             HandleGarbled, HandleReport, HandleRejection, Disconnect, ControlEnds,
             AskStatus, StartWrite, NextAttempt, Notify, linkVars, feedVars, dataVars,
             ctlVars, worldVars, histVars
    <2>5. held' = held \/ held' = held \cup Met(station')
      BY <1>1, <1>4, <2>2
         DEF Next, vars, Task, ControlStep, Connect, Negotiated, Closed, NextMonitor,
             SkipUpdate, Poll, Update, Readback, NoUpdate, Watch, Handle,
             NegotiateReply, Report, ApplyWrite, Touch, LinkLost, HandleStep,
             HandleGarbled, HandleReport, HandleRejection, Disconnect, ControlEnds,
             AskStatus, StartWrite, NextAttempt, Notify, linkVars, feedVars, dataVars,
             ctlVars, worldVars, histVars
    <2>6. arrived => arrived'
      BY <1>1, <1>4, <2>2
         DEF Next, vars, Task, ControlStep, Connect, Negotiated, Closed, NextMonitor,
             SkipUpdate, Poll, Update, Readback, NoUpdate, Watch, Handle,
             NegotiateReply, Report, ApplyWrite, Touch, LinkLost, HandleStep,
             HandleGarbled, HandleReport, HandleRejection, Disconnect, ControlEnds,
             AskStatus, StartWrite, NextAttempt, Notify, linkVars, feedVars, dataVars,
             ctlVars, worldVars, histVars
    <2> QED
      BY <1>1, <1>4, <2>1, <2>2, <2>3, <2>4, <2>5, <2>6
  <1> QED
    BY <1>2, <1>3, <1>4

\* What a clean setting learns is true.
LEMMA HonestKept == IInv /\ [Next]_vars => Honest'
  <1> SUFFICES ASSUME IInv, [Next]_vars PROVE Honest'
    OBVIOUS
  <1>0. TypeOK /\ TypeOK'
    BY TypeKept DEF IInv
  <1>p. Phases /\ Phases' /\ Honest
    BY PhasesKept DEF IInv
  <1>q. inbox \in Seq(Reports \cup Signals)
    BY <1>0 DEF TypeOK
  <1>1. arrived' => Met(station)' \subseteq held'
    <2>1. HAVE arrived'
    <2>2. control' # "idle"
      BY <1>p, <2>1 DEF Phases
    <2>3. CASE ApplyWrite
      <3>1. held' = held \cup Met(station') /\ expected' = expected
        BY <2>1, <2>3 DEF ApplyWrite, ctlVars
      <3> QED
        BY <3>1 DEF Met
    <2>4. CASE Touch
      <3>1. arrived /\ held' = held \cup Met(station') /\ expected' = expected
        BY <2>1, <2>4 DEF Touch, ctlVars
      <3> QED
        BY <3>1 DEF Met
    <2>5. CASE ~ApplyWrite /\ ~Touch
      <3>1. arrived
        BY <2>1, <2>5
           DEF Next, vars, Task, ControlStep, Connect, Negotiated, Closed, NextMonitor,
               Baseline, SkipUpdate, Poll, Update, Readback, NoUpdate, Watch, Handle,
               StartControl, NegotiateReply, Report, LinkLost, HandleStep,
               HandleGarbled, HandleReport, HandleRejection, Disconnect, ControlEnds,
               AskStatus, StartWrite, NextAttempt, Notify, linkVars, feedVars, dataVars,
               ctlVars, worldVars, histVars
      <3>2. control # "idle" /\ ~StartControl /\ ~Baseline
        BY <1>p, <3>1 DEF Phases, StartControl, Baseline
      <3>3. station' = station /\ held' = held /\ expected' = expected
        BY <2>2, <2>5, <3>2
           DEF Next, vars, Task, ControlStep, Connect, Negotiated, Closed, NextMonitor,
               SkipUpdate, Poll, Update, Readback, NoUpdate, Watch, Handle,
               NegotiateReply, Report, LinkLost, HandleStep, HandleGarbled,
               HandleReport, HandleRejection, Disconnect, ControlEnds, AskStatus,
               StartWrite, NextAttempt, Notify, linkVars, feedVars, dataVars, ctlVars,
               worldVars, histVars
      <3> QED
        BY <1>p, <3>1, <3>3 DEF Honest, Met
    <2> QED
      BY <2>3, <2>4, <2>5
  <1>2. ASSUME clean'
        PROVE  /\ WereTrue(inbox', expected', held')
               /\ \A f \in since' \cap DOMAIN expected' : cache'[f] = expected'[f] => f \in held'
               /\ ~arrived' => since' = {} /\ NoReport(inbox')
    <2>1. CASE inbox' = inbox /\ since' = {} /\ NoReport(inbox)
      BY <1>q, <2>1, Notifications
    <2>2. CASE /\ clean /\ control # "idle" /\ control' # "idle" /\ ~StartControl /\ ~Baseline
               /\ expected' = expected /\ expected \in Expectations
               /\ held \subseteq held' /\ (arrived => arrived')
      <3>1. /\ WereTrue(inbox, expected, held)
            /\ \A f \in since \cap DOMAIN expected : cache[f] = expected[f] => f \in held
            /\ ~arrived => since = {} /\ NoReport(inbox)
        BY <1>p, <2>2 DEF Honest
      <3>2. WereTrue(inbox, expected', held')
        BY <2>2, <3>1, MoreHeld
      <3>3. CASE Handle
        <4>1. /\ inbox # <<>> /\ inbox' = Tail(inbox) /\ held' = held /\ arrived' = arrived
              /\ Head(inbox) = inbox[1] /\ 1 \in DOMAIN inbox /\ Head(inbox) \in Reports \cup Signals
          <5>1. inbox # <<>> /\ inbox' = Tail(inbox) /\ held' = held /\ arrived' = arrived
            BY <3>3 DEF Handle, histVars
          <5>2. Head(inbox) = inbox[1] /\ Len(inbox) \in Nat \ {0} /\ DOMAIN inbox = 1..Len(inbox)
            BY <1>q, <5>1, Removed
          <5> QED
            BY <1>q, <5>1, <5>2, Removed
        <4>2. WereTrue(inbox', expected', held')
          BY <1>q, <3>2, <4>1, Notifications
        <4>3. NoReport(inbox) => NoReport(inbox') /\ Head(inbox).what # "report"
          BY <1>q, <4>1, Notifications DEF NoReport
        <4>4. CASE Head(inbox).what = "report"
          <5>1. HandleReport(Head(inbox))
            BY <3>3, <4>4 DEF Handle
          <5>2. Head(inbox) \in Reports
            BY <4>1, <4>4, Shapes
          <5>3. Head(inbox).has \subseteq Fields
            BY <5>2, Shapes
          <5>4. /\ since' = since \cup Head(inbox).has
                /\ \A f \in Fields : cache'[f] = IF f \in Head(inbox).has THEN Head(inbox).of[f] ELSE cache[f]
            BY <5>1 DEF HandleReport
          <5>5. \A f \in Head(inbox).has \cap DOMAIN expected :
                  Head(inbox).of[f] = expected[f] => f \in held
            BY <3>1, <4>1, <4>4 DEF WereTrue
          <5>6. since \subseteq Fields
            BY <1>0 DEF TypeOK
          <5>7. \A f \in since' \cap DOMAIN expected' : cache'[f] = expected'[f] => f \in held'
            BY <2>2, <3>1, <4>1, <5>3, <5>4, <5>5, <5>6
          <5> QED
            BY <3>1, <4>1, <4>2, <4>3, <4>4, <5>7
        <4>5. CASE Head(inbox).what # "report"
          <5>1. cache' = cache /\ since' = since
            BY <3>3, <4>5 DEF Handle, HandleStep, HandleGarbled, HandleRejection, dataVars
          <5> QED
            BY <2>2, <3>1, <4>1, <4>2, <4>3, <5>1
        <4> QED
          BY <4>4, <4>5
      <3>4. CASE Report
        <4>1. clean /\ arrived /\ UNCHANGED <<arrived, held, cache, since>>
          BY <1>2, <3>4 DEF Report, dataVars
        <4>2. PICK has \in SUBSET Fields \ {{}} :
                inbox' = Append(inbox, [what |-> "report", has |-> has, of |-> station])
          BY <3>4 DEF Report, Notify
        <4>3. PICK m : m = [what |-> "report", has |-> has, of |-> station]
          OBVIOUS
        <4>4. m \in Reports /\ m.has = has /\ m.of = station
          BY <1>0, <4>3 DEF TypeOK, Reports
        <4>5. expected \in Expectations
          BY <2>2
        <4>6. \A f \in DOMAIN expected : station[f] = expected[f] => f \in held
          <5>1. expected # None
            BY <4>5, ValuesAssumption
          <5> QED
            BY <1>p, <4>1, <5>1 DEF Honest, Met
        <4>7. WereTrue(inbox', expected, held)
          <5>1. inbox' = Append(inbox, m) /\ m \in Reports \cup Signals
            BY <4>2, <4>3, <4>4
          <5>2. \A f \in m.has \cap DOMAIN expected : m.of[f] = expected[f] => f \in held
            BY <4>4, <4>6
          <5> QED
            BY <1>q, <3>1, <5>1, <5>2, Notifications
        <4> QED
          BY <2>2, <3>1, <4>1, <4>7
      <3>5. CASE ~Handle /\ ~Report
        <4>1. cache' = cache
          BY <2>2, <3>5
             DEF Next, vars, Task, ControlStep, Connect, Negotiated, Closed,
                 NextMonitor, SkipUpdate, Poll, Update, Readback, NoUpdate, Watch,
                 NegotiateReply, ApplyWrite, Touch, LinkLost, HandleStep, HandleGarbled,
                 HandleReport, HandleRejection, Disconnect, ControlEnds, AskStatus,
                 StartWrite, NextAttempt, Notify, linkVars, feedVars, dataVars, ctlVars,
                 worldVars, histVars
        <4>2. since' = since \/ since' = {}
          BY <2>2, <3>5
             DEF Next, vars, Task, ControlStep, Connect, Negotiated, Closed,
                 NextMonitor, SkipUpdate, Poll, Update, Readback, NoUpdate, Watch,
                 NegotiateReply, ApplyWrite, Touch, LinkLost, HandleStep, HandleGarbled,
                 HandleReport, HandleRejection, Disconnect, ControlEnds, AskStatus,
                 StartWrite, NextAttempt, Notify, linkVars, feedVars, dataVars, ctlVars,
                 worldVars, histVars
        <4>3. \/ inbox' = inbox \/ inbox' = <<>>
              \/ \E w \in {"step", "garbled", "rejected"} : inbox' = Append(inbox, [what |-> w])
          BY <2>2, <3>5
             DEF Next, vars, Task, ControlStep, Connect, Negotiated, Closed,
                 NextMonitor, SkipUpdate, Poll, Update, Readback, NoUpdate, Watch,
                 NegotiateReply, ApplyWrite, Touch, LinkLost, HandleStep, HandleGarbled,
                 HandleReport, HandleRejection, Disconnect, ControlEnds, AskStatus,
                 StartWrite, NextAttempt, Notify, linkVars, feedVars, dataVars, ctlVars,
                 worldVars, histVars
        <4>4. \A w \in {"step", "garbled", "rejected"} :
                [what |-> w] \in Reports \cup Signals /\ [what |-> w].what # "report"
          BY Shapes
        <4>5. NoReport(inbox) => NoReport(inbox')
          BY <1>q, <4>3, <4>4, Notifications
        <4>6. WereTrue(inbox', expected', held')
          BY <1>q, <3>2, <4>3, <4>4, Notifications
        <4>7. ~arrived' => ~arrived
          BY <2>2
        <4>8. \A f \in since' \cap DOMAIN expected' : cache'[f] = expected'[f] => f \in held'
          BY <2>2, <3>1, <4>1, <4>2
        <4>9. ~arrived' => since' = {} /\ NoReport(inbox')
          BY <3>1, <4>2, <4>5, <4>7
        <4> QED
          BY <4>6, <4>8, <4>9
      <3> QED
        BY <3>3, <3>4, <3>5
    <2> QED
      BY <1>2, <2>1, <2>2, StaysClean
  <1> QED
    BY <1>1, <1>2 DEF Honest

\* A confirmation is for the fields of the setting, all of them heard of.
LEMMA ConfirmedHeard ==
  ASSUME expected \in Expectations, Confirmed
  PROVE  since # {}
  BY Expected DEF Confirmed

\* A rejection is never overtaken, and a setting that is read back was not
\* rejected.
LEMMA RefusalKept == IInv /\ [Next]_vars => Refusal'
  <1> SUFFICES ASSUME IInv, [Next]_vars PROVE Refusal'
    OBVIOUS
  <1>0. TypeOK /\ TypeOK'
    BY TypeKept DEF IInv
  <1>p. Phases /\ Phases' /\ Honest /\ Refusal
    BY PhasesKept DEF IInv
  <1>q. /\ inbox \in Seq(Reports \cup Signals) /\ down \in Seq(Packets)
        /\ arrived \in BOOLEAN /\ refused \in BOOLEAN /\ rejection \in BOOLEAN
    BY <1>0 DEF TypeOK
  <1>1. ASSUME refused', clean', runner' = "serving", control' # "readback"
        PROVE  rejection' \/ (since' = {} /\ Announced(inbox'))
    <2>1. /\ clean /\ control # "idle" /\ control' # "idle" /\ ~StartControl /\ ~Baseline
      BY <1>1, StaysClean
    <2>2. runner = "serving"
      <3>1. runner \notin {"connect", "negotiate"}
        BY <2>1 DEF IInv, Negotiation
      <3> QED
        BY <1>1, <2>1, <3>1
           DEF Next, vars, Task, ControlStep, Connect, Negotiated, Closed, NextMonitor,
               Baseline, SkipUpdate, Poll, Update, Readback, NoUpdate, Watch, Handle,
               StartControl, NegotiateReply, Report, ApplyWrite, Touch, LinkLost,
               HandleStep, HandleGarbled, HandleReport, HandleRejection, Disconnect,
               ControlEnds, AskStatus, StartWrite, NextAttempt, Notify, linkVars,
               feedVars, dataVars, ctlVars, worldVars, histVars
    <2>3. control # "readback"
      BY <1>1, <2>1
         DEF Next, vars, Task, ControlStep, Connect, Negotiated, Closed, NextMonitor,
             SkipUpdate, Poll, Update, Readback, NoUpdate, Watch, Handle,
             NegotiateReply, Report, ApplyWrite, Touch, LinkLost, HandleStep,
             HandleGarbled, HandleReport, HandleRejection, Disconnect, ControlEnds,
             AskStatus, StartWrite, NextAttempt, Notify, linkVars, feedVars, dataVars,
             ctlVars, worldVars, histVars
    <2>4. CASE ApplyWrite
      <3>1. rejection' = rejection /\ since' = since
        BY <2>4 DEF ApplyWrite, dataVars
      <3>2. inbox' = inbox \/ inbox' = Append(inbox, [what |-> "rejected"])
        BY <2>4 DEF ApplyWrite, Notify
      <3>3. [what |-> "rejected"] \in Reports \cup Signals
        BY Shapes
      <3>4. CASE refused
        <4>1. rejection \/ (since = {} /\ Announced(inbox))
          BY <1>p, <2>1, <2>2, <2>3, <3>4 DEF Refusal
        <4>2. Announced(inbox) => Announced(inbox')
          BY <1>q, <3>2, <3>3, Notifications
        <4> QED
          BY <3>1, <4>1, <4>2
      <3>5. CASE ~refused
        <4>1. inbox' = Append(inbox, [what |-> "rejected"]) /\ Head(down).mine
          BY <1>1, <2>4, <3>5 DEF ApplyWrite, Notify
        <4>2. down # <<>> /\ Head(down) # Status
          BY <2>4 DEF ApplyWrite
        <4>3. Head(down) \in Packets /\ Head(down) = down[1] /\ 1 \in DOMAIN down
          <5>1. Head(down) \in Packets /\ Head(down) = down[1]
                /\ Len(down) \in Nat \ {0} /\ DOMAIN down = 1..Len(down)
            BY <1>q, <4>2, Removed
          <5> QED
            BY <5>1
        <4>4. Mine(down[1])
          BY <4>1, <4>2, <4>3, Shapes DEF Mine
        <4>5. ~arrived
          BY <1>p, <2>1, <4>3, <4>4 DEF Phases, NoneMine
        <4>6. since = {} /\ NoReport(inbox)
          BY <1>p, <2>1, <4>5 DEF Honest
        <4>7. Announced(inbox')
          <5>1. PICK m : m = [what |-> "rejected"]
            OBVIOUS
          <5>2. m \in Reports \cup Signals /\ m.what = "rejected" /\ inbox' = Append(inbox, m)
            BY <3>3, <4>1, <5>1
          <5> QED
            BY <1>q, <4>6, <5>2, Notifications
        <4> QED
          BY <3>1, <4>6, <4>7
      <3> QED
        BY <3>4, <3>5
    <2>5. CASE ~ApplyWrite
      <3>1. refused
        BY <1>1, <2>1, <2>5
           DEF Next, vars, Task, ControlStep, Connect, Negotiated, Closed, NextMonitor,
               SkipUpdate, Poll, Update, Readback, NoUpdate, Watch, Handle,
               NegotiateReply, Report, Touch, LinkLost, HandleStep, HandleGarbled,
               HandleReport, HandleRejection, Disconnect, ControlEnds, AskStatus,
               StartWrite, NextAttempt, Notify, linkVars, feedVars, dataVars, ctlVars,
               worldVars, histVars
      <3>2. rejection \/ (since = {} /\ Announced(inbox))
        BY <1>p, <2>1, <2>2, <2>3, <3>1 DEF Refusal
      <3>3. CASE Handle
        <4>1. inbox # <<>> /\ inbox' = Tail(inbox)
          BY <3>3 DEF Handle
        <4>2. Announced(inbox) =>
                Head(inbox).what # "report" /\ (Head(inbox).what = "rejected" \/ Announced(inbox'))
          BY <1>q, <4>1, Notifications
        <4>3. CASE Head(inbox).what = "rejected"
          BY <3>3, <4>3 DEF Handle, HandleStep, HandleGarbled, HandleReport, HandleRejection
        <4>4. CASE Head(inbox).what # "rejected"
          <5>1. rejection' = rejection
            BY <3>3, <4>4 DEF Handle, HandleStep, HandleGarbled, HandleReport, HandleRejection, dataVars
          <5>2. Head(inbox).what # "report" => since' = since
            BY <3>3, <4>4 DEF Handle, HandleStep, HandleGarbled, HandleReport, HandleRejection, dataVars
          <5> QED
            BY <3>2, <4>2, <4>4, <5>1, <5>2
        <4> QED
          BY <4>3, <4>4
      <3>4. CASE Report
        <4>1. rejection' = rejection /\ since' = since
          BY <3>4 DEF Report, dataVars
        <4>2. PICK m : m \in Reports /\ inbox' = Append(inbox, m)
          <5>1. PICK has \in SUBSET Fields \ {{}} :
                  inbox' = Append(inbox, [what |-> "report", has |-> has, of |-> station])
            BY <3>4 DEF Report, Notify
          <5>2. [what |-> "report", has |-> has, of |-> station] \in Reports
            BY <1>0 DEF TypeOK, Reports
          <5> QED
            BY <5>1, <5>2
        <4>3. Announced(inbox) => Announced(inbox')
          BY <1>q, <4>2, Notifications
        <4> QED
          BY <3>2, <4>1, <4>3
      <3>5. CASE Update
        <4>1. ~rejection
          BY <2>1, <3>5 DEF Update, ControlEnds
        <4>2. ~Confirmed /\ NextAttempt
          BY <1>1, <2>1, <3>5, <4>1 DEF Update, ControlEnds, AskStatus
        <4>3. since' = since /\ inbox' = inbox
          BY <2>1, <3>5, <4>2 DEF Update, NextAttempt, ControlEnds, feedVars
        <4> QED
          BY <3>2, <4>1, <4>3
      <3>6. CASE ~Handle /\ ~Report /\ ~Update
        <4>1. rejection' = rejection
          BY <1>1, <2>1, <2>5, <3>6
             DEF Next, vars, Task, ControlStep, Connect, Negotiated, Closed,
                 NextMonitor, SkipUpdate, Poll, Readback, NoUpdate, Watch,
                 NegotiateReply, Touch, LinkLost, HandleStep, HandleGarbled,
                 HandleReport, HandleRejection, Disconnect, ControlEnds, AskStatus,
                 StartWrite, NextAttempt, Notify, linkVars, feedVars, dataVars, ctlVars,
                 worldVars, histVars
        <4>2. since' = since \/ since' = {}
          BY <1>1, <2>1, <2>5, <3>6
             DEF Next, vars, Task, ControlStep, Connect, Negotiated, Closed,
                 NextMonitor, SkipUpdate, Poll, Readback, NoUpdate, Watch,
                 NegotiateReply, Touch, LinkLost, HandleStep, HandleGarbled,
                 HandleReport, HandleRejection, Disconnect, ControlEnds, AskStatus,
                 StartWrite, NextAttempt, Notify, linkVars, feedVars, dataVars, ctlVars,
                 worldVars, histVars
        <4>3. \/ inbox' = inbox
              \/ \E w \in {"step", "garbled"} : inbox' = Append(inbox, [what |-> w])
          BY <1>1, <2>1, <2>2, <2>5, <3>6
             DEF Next, vars, Task, ControlStep, Connect, Negotiated, Closed,
                 NextMonitor, SkipUpdate, Poll, Readback, NoUpdate, Watch,
                 NegotiateReply, Touch, LinkLost, HandleStep, HandleGarbled,
                 HandleReport, HandleRejection, Disconnect, ControlEnds, AskStatus,
                 StartWrite, NextAttempt, Notify, linkVars, feedVars, dataVars, ctlVars,
                 worldVars, histVars
        <4>4. \A w \in {"step", "garbled"} : [what |-> w] \in Reports \cup Signals
          BY Shapes
        <4>5. Announced(inbox) => Announced(inbox')
          BY <1>q, <4>3, <4>4, Notifications
        <4> QED
          BY <3>2, <4>1, <4>2, <4>5
      <3> QED
        BY <3>3, <3>4, <3>5, <3>6
    <2> QED
      BY <2>4, <2>5
  <1>2. ASSUME clean', control' = "readback"
        PROVE  arrived' /\ (refused' => runner' # "serving")
    <2>1. /\ clean /\ control # "idle" /\ ~StartControl /\ ~Baseline
          /\ expected \in Expectations /\ (arrived => arrived')
      BY <1>2, StaysClean
    <2>2. CASE control = "readback"
      <3>1. arrived /\ (refused => runner # "serving")
        BY <1>p, <2>1, <2>2 DEF Refusal
      <3>2. runner \notin {"connect", "negotiate"}
        BY <2>1 DEF IInv, Negotiation
      <3>3. runner' = "serving" => runner = "serving"
        BY <2>1, <3>2
           DEF Next, vars, Task, ControlStep, Connect, Negotiated, Closed, NextMonitor,
               SkipUpdate, Poll, Update, Readback, NoUpdate, Watch, Handle,
               NegotiateReply, Report, ApplyWrite, Touch, LinkLost, HandleStep,
               HandleGarbled, HandleReport, HandleRejection, Disconnect, ControlEnds,
               AskStatus, StartWrite, NextAttempt, Notify, linkVars, feedVars, dataVars,
               ctlVars, worldVars, histVars
      <3>4. refused' => refused
        <4>1. CASE ApplyWrite
          <5>1. down # <<>> /\ Head(down) # Status
            BY <4>1 DEF ApplyWrite
          <5>2. Head(down) \in Packets /\ Head(down) = down[1] /\ 1 \in DOMAIN down
            <6>1. Head(down) \in Packets /\ Head(down) = down[1]
                  /\ Len(down) \in Nat \ {0} /\ DOMAIN down = 1..Len(down)
              BY <1>q, <5>1, Removed
            <6> QED
              BY <6>1
          <5>3. ~Head(down).mine
            BY <1>p, <2>1, <3>1, <5>1, <5>2, Shapes DEF Phases, NoneMine, Mine
          <5> QED
            BY <4>1, <5>3 DEF ApplyWrite
        <4>2. CASE ~ApplyWrite
          BY <2>1, <4>2
             DEF Next, vars, Task, ControlStep, Connect, Negotiated, Closed,
                 NextMonitor, SkipUpdate, Poll, Update, Readback, NoUpdate, Watch,
                 Handle, NegotiateReply, Report, Touch, LinkLost, HandleStep,
                 HandleGarbled, HandleReport, HandleRejection, Disconnect, ControlEnds,
                 AskStatus, StartWrite, NextAttempt, Notify, linkVars, feedVars,
                 dataVars, ctlVars, worldVars, histVars
        <4> QED
          BY <4>1, <4>2
      <3> QED
        BY <2>1, <3>1, <3>3, <3>4
    <2>3. CASE control # "readback"
      <3>1. Update
        BY <1>2, <2>1, <2>3
           DEF Next, vars, Task, ControlStep, Connect, Negotiated, Closed, NextMonitor,
               SkipUpdate, Poll, Readback, NoUpdate, Watch, Handle, NegotiateReply,
               Report, ApplyWrite, Touch, LinkLost, HandleStep, HandleGarbled,
               HandleReport, HandleRejection, Disconnect, ControlEnds, AskStatus,
               StartWrite, NextAttempt, Notify, linkVars, feedVars, dataVars, ctlVars,
               worldVars, histVars
      <3>2. control = "reply" /\ ~rejection /\ Confirmed /\ Connected
        BY <1>2, <3>1 DEF Update, ControlEnds, NextAttempt
      <3>3. since # {}
        BY <2>1, <3>2, ConfirmedHeard
      <3>4. arrived
        BY <1>p, <2>1, <3>3 DEF Honest
      <3>5. ~refused
        BY <1>p, <2>1, <2>3, <3>2, <3>3 DEF Refusal, Connected
      <3>6. refused' = refused
        BY <1>2, <3>1 DEF Update, ControlEnds, NextAttempt, AskStatus, histVars
      <3> QED
        BY <2>1, <3>4, <3>5, <3>6
    <2> QED
      BY <2>2, <2>3
  <1> QED
    BY <1>1, <1>2 DEF Refusal
-----------------------------------------------------------------------------
(* The invariant and the theorems. *)

\* The first monitor has heard of nothing, and no setting is applied.
LEMMA InitInv == Init => IInv
  <1> SUFFICES ASSUME Init PROVE IInv
    OBVIOUS
  <1>1. FirstValue \in Values
    BY ValuesAssumption DEF FirstValue
  <1>2. DOMAIN <<>> = {} /\ <<>> \in Seq(Packets) /\ <<>> \in Seq(Reports \cup Signals) /\ Len(<<>>) = 0
    OBVIOUS
  <1>3. TypeOK
    <2>1. [f \in Fields |-> FirstValue] \in Contents
      BY <1>1 DEF Contents
    <2>2. [f \in Fields |-> None] \in [Fields -> Values \cup {None}]
      OBVIOUS
    <2>3. /\ down \in Seq(Packets) /\ Len(down) <= MaxDown
          /\ inbox \in Seq(Reports \cup Signals) /\ Len(inbox) <= MaxInbox
      BY <1>2, BoundsAssumption DEF Init
    <2>4. session \in 0..Rounds /\ updates \in 0..MaxUpdates /\ attempt \in 0..Attempts-1 /\ touches \in 0..MaxTouches
      BY BoundsAssumption DEF Init
    <2> QED
      BY <2>1, <2>2, <2>3, <2>4 DEF Init, TypeOK
  <1>4. Negotiation
    BY <1>2 DEF Init, Negotiation, NoStep
  <1>5. Phases
    BY DEF Init, Phases
  <1>6. Honest
    BY DEF Init, Honest
  <1>7. Refusal
    BY DEF Init, Refusal
  <1> QED
    BY <1>3, <1>4, <1>5, <1>6, <1>7 DEF IInv

\* Every step keeps the invariant.
LEMMA NextInv == IInv /\ [Next]_vars => IInv'
  BY TypeKept, NegotiationKept, PhasesKept, HonestKept, RefusalKept DEF IInv

\* The invariant holds throughout.
LEMMA Invariance == Spec => []IInv
  BY InitInv, NextInv, PTL DEF Spec

\* The state of the task, the link, the monitor and the setting is well formed:
\* at most MaxDown requests and MaxInbox notifications wait, and what confirms a
\* setting are values of the station's fields (SolixMonitor, apply_setting).
THEOREM TypeCorrect == Spec => []TypeOK
  <1>1. IInv => TypeOK
    BY DEF IInv
  <1> QED
    BY <1>1, Invariance, PTL

\* A setting that apply_setting confirms, with no earlier report on its way when
\* it was written, was really taken over: the station held each expected value
\* after the write had reached it, and did not reject the write on this
\* connection.  This holds for any values, exchanges, attempts and queues.
THEOREM ConfirmedMeansHeld == Spec => SettingWasHeld
  <1>1. ASSUME IInv, [Next]_vars, control # "idle", result' = "ok", clean
        PROVE  DOMAIN expected \subseteq held /\ (refused => runner # "serving")
    <2>1. /\ TypeOK /\ Phases /\ Honest /\ Refusal
      BY <1>1 DEF IInv
    <2>2. result = None /\ None # "ok"
      BY <1>1, <2>1, ValuesAssumption DEF Phases
    <2>3. expected \in Expectations
      BY <1>1, <2>1 DEF Phases, TypeOK, Waiting
    <2>4. DOMAIN expected \subseteq Fields
      BY <2>3, Expected
    <2>5. \A f \in since \cap DOMAIN expected : cache[f] = expected[f] => f \in held
      BY <1>1, <2>1 DEF Honest
    <2>6. CASE Update
      <3>1. control = "reply" /\ ~rejection /\ Confirmed
        BY <1>1, <2>2, <2>6, ValuesAssumption DEF Update, ControlEnds, NextAttempt, AskStatus
      <3>2. since # {}
        BY <2>3, <3>1, ConfirmedHeard
      <3>3. refused => runner # "serving"
        BY <1>1, <2>1, <3>1, <3>2 DEF Refusal
      <3> QED
        BY <2>5, <3>1, <3>3 DEF Confirmed
    <2>7. CASE Readback
      <3>1. control = "readback" /\ since = Fields /\ cache = expected
        BY <1>1, <2>7 DEF Readback, ControlEnds
      <3> QED
        BY <1>1, <2>1, <2>4, <2>5, <3>1 DEF Refusal
    <2>8. CASE ~Update /\ ~Readback
      <3>1. CASE StartControl
        BY <2>2, <1>1, <3>1 DEF StartControl
      <3>2. CASE Baseline \/ Poll \/ NoUpdate
        <4>1. result' = result \/ result' = "error"
          BY <3>2 DEF Baseline, Poll, NoUpdate, NextAttempt, StartWrite, AskStatus, ControlEnds
        <4> QED
          BY <1>1, <2>2, <4>1
      <3>3. CASE ~StartControl /\ ~Baseline /\ ~Poll /\ ~NoUpdate
        <4>1. result' = result
          BY <1>1, <2>8, <3>3
             DEF Next, vars, Task, ControlStep, Connect, Negotiated, Closed,
                 NextMonitor, SkipUpdate, Watch, Handle, NegotiateReply, Report,
                 ApplyWrite, Touch, LinkLost, HandleStep, HandleGarbled, HandleReport,
                 HandleRejection, Disconnect, ControlEnds, AskStatus, StartWrite,
                 NextAttempt, Notify, linkVars, feedVars, dataVars, ctlVars, worldVars,
                 histVars
        <4> QED
          BY <1>1, <2>2, <4>1
      <3> QED
        BY <3>1, <3>2, <3>3
    <2> QED
      BY <2>6, <2>7, <2>8
  <1>2. IInv /\ [Next]_vars =>
          [control # "idle" /\ result' = "ok" /\ clean =>
             /\ DOMAIN expected \subseteq held
             /\ refused => runner # "serving"]_vars
    BY <1>1
  <1> QED
    BY <1>2, Invariance, PTL DEF Spec, SettingWasHeld
=============================================================================
