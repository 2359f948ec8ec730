-------------------------- MODULE NativeLinkProofs --------------------------
(***************************************************************************)
(* What NativeLink guarantees for any number of connections, callers and   *)
(* opcodes, and without the bounds of the runs: a reply is never taken for *)
(* the answer to another request, and without overlapping takeovers only   *)
(* the current connection can refresh or receive anything.                 *)
(***************************************************************************)
EXTENDS NativeLink, SequenceTheorems, TLAPS

USE DEF Tasks, Phases, Writers, Futures, CallerStates, PollerStates,
        TakeoverPhases, CleanupPhases

-----------------------------------------------------------------------------
(* Type correctness. *)

\* The initial values have their types.
LEMMA InitType == Init => TypeOK
<1> SUFFICES ASSUME Init PROVE TypeOK
  OBVIOUS
<1>1. unanswered \in [Conns -> SUBSET Requests] /\ cancelled \in SUBSET Conns
  BY DEF Init
<1>2. task \in [Tasks -> PollerStates \cup CallerStates] /\ lock \in [Conns -> Seq(Tasks)]
  BY DEF Init
<1>6. /\ \A c \in Conns : task[c] \in PollerStates
      /\ \A t \in Callers : task[t] \in CallerStates /\ (on[t] = None => task[t] = "idle")
  BY TasksAssumption DEF Init
<1>3. /\ phase \in [Conns -> Phases] /\ writer \in [Conns -> Writers]
      /\ future \in [Conns -> Futures]
      /\ old \in [Conns -> Conns \cup {None}]
      /\ opcode \in [Conns -> Commands \cup {None}]
      /\ on \in [Callers -> Conns \cup {None}]
  BY DEF Init
<1>4. /\ connected \in [Conns -> BOOLEAN] /\ subscribed \in [Conns -> BOOLEAN]
      /\ ready \in [Conns -> BOOLEAN]
      /\ published \in [Conns -> Nat] /\ answeredBy \in [Conns -> Nat]
  BY DEF Init
<1>7. model \in Models /\ givenUp \in [Conns -> SUBSET Nat]
  BY DEF Init
<1>5. connection \in Conns \cup {None} /\ lastSeen \in Conns \cup {None} /\ raced \in BOOLEAN
  BY DEF Init
<1> QED
  BY <1>1, <1>2, <1>3, <1>4, <1>5, <1>6, <1>7 DEF TypeOK

\* A sequence without its i-th element is a sequence.
LEMMA RemoveAtType ==
  ASSUME NEW S, NEW s \in Seq(S), NEW i \in Nat, i = 1 \/ i \in 1..Len(s)
  PROVE  RemoveAt(s, i) \in Seq(S)
<1>1. SubSeq(s, 1, i - 1) \in Seq(S)
  <2>1. CASE i = 1
    BY <2>1
  <2>2. CASE i \in 1..Len(s)
    BY <2>2
  <2> QED
    BY <2>1, <2>2
<1>2. SubSeq(s, i + 1, Len(s)) \in Seq(S)
  OBVIOUS
<1> QED
  BY <1>1, <1>2 DEF RemoveAt

\* Leaving the queue of a lock keeps its type.
LEMMA LeaveType ==
  ASSUME TypeOK, NEW c \in Conns, NEW i \in Nat, i = 1 \/ i \in 1..Len(lock[c]), Leave(c, i)
  PROVE  lock' \in [Conns -> Seq(Tasks)]
<1>1. lock[c] \in Seq(Tasks)
  BY DEF TypeOK
<1>2. RemoveAt(lock[c], i) \in Seq(Tasks)
  BY <1>1, RemoveAtType
<1> QED
  BY <1>2 DEF Leave, TypeOK

\* Tasks keep their types when t leaves request().
LEMMA AfterRequestType ==
  ASSUME TypeOK, NEW t \in Tasks, NEW b \in BOOLEAN,
         task' = [task EXCEPT ![t] = AfterRequest(t, b)], on' = on
  PROVE  /\ task' \in [Tasks -> PollerStates \cup CallerStates]
         /\ \A c \in Conns : task'[c] \in PollerStates
         /\ \A u \in Callers : task'[u] \in CallerStates /\ (on'[u] = None => task'[u] = "idle")
  BY TasksAssumption DEF TypeOK, AfterRequest

\* CancelledError inside request() keeps the types of what it can change.
LEMMA CancelType ==
  ASSUME TypeOK, NEW t \in Tasks, CancelRequest(t), on' = on
  PROVE  /\ lock' \in [Conns -> Seq(Tasks)]
         /\ task' \in [Tasks -> PollerStates \cup CallerStates]
         /\ \A c \in Conns : task'[c] \in PollerStates
         /\ \A u \in Callers : task'[u] \in CallerStates /\ (on'[u] = None => task'[u] = "idle")
         /\ writer' \in [Conns -> Writers] /\ future' \in [Conns -> Futures]
         /\ opcode' \in [Conns -> Commands \cup {None}] /\ answeredBy' \in [Conns -> Nat]
         /\ givenUp' \in [Conns -> SUBSET Nat]
<1> DEFINE c == Link(t)
<1>0. task[t] # "idle"
  BY DEF CancelRequest, CancelInReply, CancelInGrace, CancelInQueue
<1>1. c \in Conns
  BY <1>0 DEF TypeOK, Link
<1>2. task' = [task EXCEPT ![t] = AfterRequest(t, FALSE)]
  BY DEF CancelRequest, CancelInReply, CancelInGrace, CancelInQueue, Abandon
<1>3. PICK i \in Nat : (i = 1 \/ i \in 1..Len(lock[c])) /\ Leave(c, i)
  <2>1. CASE CancelInReply(t) \/ CancelInGrace(t)
    BY <2>1 DEF CancelInReply, CancelInGrace, Abandon, Release
  <2>2. CASE CancelInQueue(t)
    <3>1. Len(lock[c]) \in Nat
      BY <1>1 DEF TypeOK
    <3> QED
      BY <2>2, <3>1 DEF CancelInQueue
  <2> QED
    BY <2>1, <2>2 DEF CancelRequest
<1>4. lock' \in [Conns -> Seq(Tasks)]
  BY <1>1, <1>3, LeaveType
<1>5. /\ writer' \in [Conns -> Writers] /\ future' \in [Conns -> Futures]
      /\ opcode' \in [Conns -> Commands \cup {None}] /\ answeredBy' \in [Conns -> Nat]
      /\ givenUp' \in [Conns -> SUBSET Nat]
  <2>1. CASE CancelInReply(t)
    <3>1. givenUp' = [givenUp EXCEPT ![c] = @ \cup {published[c]}] /\ published[c] \in Nat
      BY <1>1, <2>1 DEF TypeOK, CancelInReply, Abandon
    <3>2. givenUp' \in [Conns -> SUBSET Nat]
      BY <3>1 DEF TypeOK
    <3>3. /\ writer' \in [Conns -> Writers] /\ future' \in [Conns -> Futures]
          /\ opcode' \in [Conns -> Commands \cup {None}] /\ answeredBy' \in [Conns -> Nat]
      BY <1>1, <2>1 DEF TypeOK, CancelInReply, Abandon, ClearPending
    <3> QED
      BY <3>2, <3>3
  <2>2. CASE CancelInGrace(t) \/ CancelInQueue(t)
    <3>1. UNCHANGED <<writer, future, opcode, answeredBy, givenUp>>
      BY <2>2 DEF CancelInGrace, CancelInQueue, pendingVars
    <3> QED
      BY <3>1 DEF TypeOK
  <2> QED
    BY <2>1, <2>2 DEF CancelRequest
<1> QED
  BY <1>2, <1>4, <1>5, AfterRequestType

\* Every action keeps the types.
LEMMA NextType == TypeOK /\ [Next]_vars => TypeOK'
<1> SUFFICES ASSUME TypeOK, [Next]_vars PROVE TypeOK'
  OBVIOUS
<1> USE NoneAssumption, TasksAssumption, StatusAssumption, ModelsAssumption
<1>1. ASSUME NEW c \in Conns, ConnectionStep(c) PROVE TypeOK'
  <2>1. CASE Accept(c)
    BY <2>1 DEF TypeOK, Accept, vars, connVars, reqVars, taskVars, srvVars, pendingVars
  <2>2. CASE Connect(c)
    BY <2>2 DEF TypeOK, Connect, AfterPacket, CancelPoller, reqVars, srvVars, pendingVars
  <2>3. CASE Subscribe(c)
    BY <2>3 DEF TypeOK, Subscribe, BecomeCurrent, AfterPacket, pendingVars
  <2>4. CASE BeginTakeover(c)
    BY <2>4 DEF TypeOK, BeginTakeover, CancelPoller, reqVars, srvVars, pendingVars
  <2>5. CASE Report(c)
    BY <2>5 DEF TypeOK, Report, Heard, AfterPacket, CancelPoller
  <2>6. CASE RunEnds(c)
    BY <2>6 DEF TypeOK, RunEnds, CancelPoller, reqVars, srvVars, pendingVars
  <2>7. ASSUME NEW r \in unanswered[c], NEW success \in BOOLEAN, Reply(c, r, success)
        PROVE  TypeOK'
    <3>1. r \in Requests /\ r.id \in Nat
      BY DEF TypeOK, Requests
    <3>2. unanswered' \in [Conns -> SUBSET Requests]
      <4>1. unanswered' = [unanswered EXCEPT ![c] = @ \ {r}]
        BY <2>7 DEF Reply
      <4> QED
        BY <4>1 DEF TypeOK
    <3>3. future' \in [Conns -> Futures] /\ answeredBy' \in [Conns -> Nat]
      <4>1. \/ UNCHANGED <<future, answeredBy>>
            \/ /\ future' = [future EXCEPT ![c] = IF success THEN "ok" ELSE "rejected"]
               /\ answeredBy' = [answeredBy EXCEPT ![c] = r.id]
        BY <2>7 DEF Reply
      <4>2. future' \in [Conns -> Futures]
        <5>1. {"ok", "rejected"} \subseteq Futures
          BY DEF Futures
        <5> QED
          BY <4>1, <5>1 DEF TypeOK
      <4>3. answeredBy' \in [Conns -> Nat]
        BY <3>1, <4>1 DEF TypeOK
      <4> QED
        BY <4>2, <4>3
    <3>4. /\ phase' \in [Conns -> Phases] /\ cancelled' \in SUBSET Conns
          /\ lastSeen' \in Conns \cup {None}
      BY <2>7 DEF TypeOK, Reply, AfterPacket, CancelPoller
    <3> QED
      BY <2>7, <3>2, <3>3, <3>4 DEF TypeOK, Reply
  <2>8. CASE CloseWriter(c)
    BY <2>8 DEF TypeOK, CloseWriter, Closes, taskVars, srvVars
  <2>9. CASE FinishTakeover(c)
    BY <2>9 DEF TypeOK, FinishTakeover, BecomeCurrent, AfterPacket, pendingVars
  <2>10. CASE FinishCleanup(c)
    BY <2>10 DEF TypeOK, FinishCleanup, reqVars, taskVars, pendingVars
  <2>11. CASE PollTurn(c)
    <3>1. lock[c] \in Seq(Tasks) /\ Append(lock[c], c) \in Seq(Tasks)
      BY DEF TypeOK
    <3>2. lock' \in [Conns -> Seq(Tasks)]
      <4>1. CASE IsClosing(c)
        BY <2>11, <4>1 DEF TypeOK, PollTurn
      <4>2. CASE ~IsClosing(c)
        <5>1. lock' = [lock EXCEPT ![c] = Append(lock[c], c)]
          BY <2>11, <4>2 DEF PollTurn
        <5> QED
          BY <3>1, <5>1 DEF TypeOK
      <4> QED
        BY <4>1, <4>2
    <3>3. PICK state \in {"ended", "lock"} : task' = [task EXCEPT ![c] = state]
      BY <2>11 DEF PollTurn
    <3>4. /\ task' \in [Tasks -> PollerStates \cup CallerStates]
          /\ \A d \in Conns : task'[d] \in PollerStates
          /\ \A t \in Callers : task'[t] \in CallerStates /\ (on'[t] = None => task'[t] = "idle")
      BY <2>11, <3>3 DEF TypeOK, PollTurn
    <3> QED
      BY <2>11, <3>2, <3>4 DEF TypeOK, PollTurn, connVars, srvVars, pendingVars
  <2>12. CASE CancelPollerDelivered(c)
    <3>1. CASE CancelRequest(c)
      BY <2>12, <3>1, CancelType DEF TypeOK, CancelPollerDelivered, srvVars
    <3>2. CASE task' = [task EXCEPT ![c] = "ended"] /\ UNCHANGED <<lock, writer, givenUp, pendingVars>>
      BY <2>12, <3>2 DEF TypeOK, CancelPollerDelivered, pendingVars, srvVars
    <3> QED
      BY <2>12, <3>1, <3>2 DEF CancelPollerDelivered
  <2>13. CASE FullReport(c)
    <3>1. future' \in [Conns -> Futures] /\ answeredBy' \in [Conns -> Nat]
      BY <2>13 DEF TypeOK, FullReport
    <3>2. Heard(c)
      BY <2>13 DEF FullReport
    <3> QED
      BY <3>1, <3>2 DEF TypeOK, Heard, AfterPacket, CancelPoller
  <2> QED
    BY <1>1, <2>1, <2>2, <2>3, <2>4, <2>5, <2>6, <2>7, <2>8, <2>9, <2>10, <2>11, <2>12, <2>13
    DEF ConnectionStep
<1>2. ASSUME NEW t \in Tasks, RequestStep(t) PROVE TypeOK'
  <2> DEFINE c == Link(t)
  <2>0. c \in Conns
    BY <1>2 DEF TypeOK, Link, RequestStep, AcquireAndSend, WakeAndSend, AcquireAndSleep,
                AcquireUnavailable, WakeUnavailable, Resume, Timeout
  <2>1. ASSUME NEW cmd \in Commands, Publish(t, c, cmd), task[t] # "idle" PROVE TypeOK'
    <3>1. published[c] + 1 \in Nat
      BY <2>0 DEF TypeOK
    <3>2. [id |-> published[c] + 1, cmd |-> cmd] \in Requests
      BY <3>1 DEF Requests
    <3>3. unanswered' \in [Conns -> SUBSET Requests]
      BY <2>0, <2>1, <3>2 DEF TypeOK, Publish
    <3>4. /\ published' \in [Conns -> Nat] /\ future' \in [Conns -> Futures]
          /\ opcode' \in [Conns -> Commands \cup {None}]
      BY <2>0, <2>1, <3>1 DEF TypeOK, Publish
    <3>5. /\ task' \in [Tasks -> PollerStates \cup CallerStates]
          /\ \A d \in Conns : task'[d] \in PollerStates
          /\ \A u \in Callers : task'[u] \in CallerStates /\ (on'[u] = None => task'[u] = "idle")
      BY <2>1 DEF TypeOK, Publish
    <3> QED
      BY <2>1, <3>3, <3>4, <3>5 DEF TypeOK, Publish, connVars, srvVars
  <2>2. ASSUME Unavailable(t, c) PROVE TypeOK'
    <3>1. lock' \in [Conns -> Seq(Tasks)]
      BY <2>0, <2>2, LeaveType DEF Unavailable, Release
    <3>2. writer' \in [Conns -> Writers]
      BY <2>0, <2>2 DEF TypeOK, Unavailable, PollerCloses
    <3> QED
      BY <2>2, <3>1, <3>2, AfterRequestType DEF TypeOK, Unavailable, pendingVars, srvVars
  <2>3. CASE AcquireAndSleep(t)
    BY <2>3 DEF TypeOK, AcquireAndSleep, connVars, reqVars, srvVars, pendingVars
  <2>4. CASE Resume(t)
    <3>1. lock' \in [Conns -> Seq(Tasks)]
      BY <2>0, <2>4, LeaveType DEF Resume, Release
    <3>2. writer' \in [Conns -> Writers]
      BY <2>0, <2>4 DEF TypeOK, Resume, PollerCloses
    <3>3. /\ future' \in [Conns -> Futures] /\ opcode' \in [Conns -> Commands \cup {None}]
          /\ answeredBy' \in [Conns -> Nat]
      BY <2>0, <2>4 DEF TypeOK, Resume, ClearPending
    <3> QED
      BY <2>4, <3>1, <3>2, <3>3, AfterRequestType DEF TypeOK, Resume, srvVars
  <2>5. CASE Timeout(t)
    <3>1. CancelRequest(t) /\ on' = on
      BY <2>5 DEF Timeout, CancelRequest, CancelInReply
    <3> QED
      BY <2>5, <3>1, CancelType DEF TypeOK, Timeout, srvVars
  <2> QED
    BY <1>2, <2>1, <2>2, <2>3, <2>4, <2>5
    DEF RequestStep, AcquireAndSend, WakeAndSend, AcquireUnavailable, WakeUnavailable
<1>3. ASSUME NEW t \in Callers, CallerStep(t) PROVE TypeOK'
  <2>1. CASE Capture(t)
    BY <2>1 DEF TypeOK, Capture, connVars, reqVars, srvVars, pendingVars
  <2>2. CASE EndControl(t)
    BY <2>2 DEF TypeOK, EndControl, connVars, reqVars, srvVars, pendingVars
  <2>3. CASE Request(t)
    <3>1. lock[on[t]] \in Seq(Tasks) /\ Append(lock[on[t]], t) \in Seq(Tasks)
      BY <2>3 DEF TypeOK, Request
    <3>2. lock' \in [Conns -> Seq(Tasks)]
      BY <2>3, <3>1 DEF TypeOK, Request
    <3> QED
      BY <2>3, <3>2 DEF TypeOK, Request, connVars, srvVars, pendingVars
  <2>4. CASE CancelCaller(t)
    BY <2>4, CancelType DEF TypeOK, CancelCaller, srvVars
  <2> QED
    BY <1>3, <2>1, <2>2, <2>3, <2>4 DEF CallerStep
<1>4. ASSUME NEW c \in Conns, Environment(c) PROVE TypeOK'
  <2>1. CASE GraceElapses(c)
    BY <2>1 DEF TypeOK, GraceElapses, connVars, taskVars, srvVars, pendingVars
  <2>2. CASE Drop(c)
    BY <2>2 DEF TypeOK, Drop, reqVars, taskVars, srvVars, pendingVars
  <2>3. CASE TransportLost(c)
    BY <2>3 DEF TypeOK, TransportLost, reqVars, taskVars, srvVars, pendingVars
  <2> QED
    BY <1>4, <2>1, <2>2, <2>3 DEF Environment
<1>5. CASE UNCHANGED vars
  BY <1>5 DEF TypeOK, vars, connVars, reqVars, taskVars, srvVars, pendingVars
<1> QED
  BY <1>1, <1>2, <1>3, <1>4, <1>5 DEF Next

\* Every variable of the endpoint keeps its type.
THEOREM TypeCorrect == Spec => []TypeOK
  BY InitType, NextType, PTL DEF Spec

\* The model of the station is fixed.
LEMMA ModelFixed == [Next]_vars => model' = model
<1> SUFFICES ASSUME [Next]_vars PROVE model' = model
  OBVIOUS
<1>1. ASSUME NEW c \in Conns, ConnectionStep(c) PROVE model' = model
  BY <1>1 DEF ConnectionStep, Accept, Connect, Subscribe, BeginTakeover, Report, FullReport, Heard,
     RunEnds, Reply, CloseWriter, FinishTakeover, BecomeCurrent, FinishCleanup, PollTurn,
     CancelPollerDelivered, srvVars
<1>2. ASSUME NEW t \in Tasks, RequestStep(t) PROVE model' = model
  BY <1>2 DEF RequestStep, AcquireAndSend, WakeAndSend, Publish, AcquireAndSleep,
     AcquireUnavailable, WakeUnavailable, Unavailable, Resume, Timeout, srvVars
<1>3. ASSUME NEW t \in Callers, CallerStep(t) PROVE model' = model
  BY <1>3 DEF CallerStep, Capture, EndControl, Request, CancelCaller, srvVars
<1>4. ASSUME NEW c \in Conns, Environment(c) PROVE model' = model
  BY <1>4 DEF Environment, GraceElapses, Drop, TransportLost, srvVars
<1> QED
  BY <1>1, <1>2, <1>3, <1>4 DEF Next, vars, srvVars

-----------------------------------------------------------------------------
(* One current connection. *)

\* A step that moves no connection, points the server nowhere else, brings no
\* transport back and starts no poller.
Quiet ==
  /\ UNCHANGED <<phase, old, subscribed, connection, lastSeen, raced>>
  /\ \A c \in Conns : writer[c] = "lost" => writer'[c] = "lost"
  /\ \A c \in Conns : task[c] = "none" => task'[c] = "none"

\* Quiet steps keep what CurrentInv says.
LEMMA QuietCurrent == CurrentInv /\ TypeOK' /\ Quiet => CurrentInv'
  BY DEF CurrentInv, TypeOK, Quiet, Subscribing, TakeoverOfCurrent, OnlyCurrentCanSpeak,
         FreshIsCurrent

\* A cancelled request is a quiet step.
LEMMA CancelQuiet ==
  ASSUME TypeOK, NEW t \in Tasks, CancelRequest(t),
         UNCHANGED <<phase, old, subscribed, connection, lastSeen, raced>>
  PROVE  Quiet
<1>1. task[t] # "none" /\ task' = [task EXCEPT ![t] = AfterRequest(t, FALSE)]
  BY DEF CancelRequest, CancelInReply, CancelInGrace, CancelInQueue, Abandon
<1>2. \A c \in Conns : writer[c] = "lost" => writer'[c] = "lost"
  <2>1. CASE CancelInReply(t)
    <3>1. writer' = [writer EXCEPT ![Link(t)] = IF @ = "open" THEN "closing" ELSE @]
      BY <2>1 DEF CancelInReply, Abandon
    <3> QED
      BY <3>1 DEF TypeOK
  <2>2. CASE CancelInGrace(t) \/ CancelInQueue(t)
    BY <2>2 DEF CancelInGrace, CancelInQueue
  <2> QED
    BY <2>1, <2>2 DEF CancelRequest
<1> QED
  BY <1>1, <1>2 DEF TypeOK, Quiet

\* So is every other step inside request().
LEMMA RequestQuiet ==
  ASSUME TypeOK, NEW t \in Tasks, RequestStep(t)
  PROVE  Quiet
<1> DEFINE c == Link(t)
<1>1. ASSUME NEW cmd \in Commands, Publish(t, c, cmd), task[t] # "none" PROVE Quiet
  BY <1>1 DEF TypeOK, Quiet, Publish, connVars, srvVars
<1>2. ASSUME Unavailable(t, c), task[t] # "none" PROVE Quiet
  <2>1. task' = [task EXCEPT ![t] = AfterRequest(t, FALSE)]
    BY <1>2 DEF Unavailable
  <2>2. \A d \in Conns : writer[d] = "lost" => writer'[d] = "lost"
    BY <1>2 DEF TypeOK, Unavailable, PollerCloses
  <2> QED
    BY <1>2, <2>1, <2>2 DEF TypeOK, Quiet, Unavailable, srvVars
<1>3. CASE AcquireAndSleep(t)
  BY <1>3 DEF TypeOK, Quiet, AcquireAndSleep, connVars, srvVars
<1>4. CASE Resume(t)
  <2>1. \A d \in Conns : writer[d] = "lost" => writer'[d] = "lost"
    BY <1>4 DEF TypeOK, Resume, PollerCloses
  <2>2. \A d \in Conns : task[d] = "none" => task'[d] = "none"
    BY <1>4 DEF TypeOK, Resume
  <2> QED
    BY <1>4, <2>1, <2>2 DEF Quiet, Resume, srvVars
<1>5. CASE Timeout(t)
  BY <1>5, CancelQuiet DEF Timeout, CancelRequest, CancelInReply, srvVars
<1> QED
  BY RequestStep(t), <1>1, <1>2, <1>3, <1>4, <1>5
  DEF RequestStep, AcquireAndSend, WakeAndSend, AcquireUnavailable, WakeUnavailable

\* Every step keeps CurrentInv.
LEMMA NextCurrent == CurrentInv /\ [Next]_vars => CurrentInv'
<1> SUFFICES ASSUME CurrentInv, [Next]_vars PROVE CurrentInv'
  OBVIOUS
<1>0. TypeOK /\ TypeOK'
  BY NextType DEF CurrentInv
<1> USE NoneAssumption, TasksAssumption
<1>1. ASSUME NEW c \in Conns, ConnectionStep(c) PROVE CurrentInv'
  <2>1. ASSUME UNCHANGED <<old, writer, subscribed, task, connection, raced>>,
               lastSeen' \in {lastSeen, c},
               lastSeen' = lastSeen \/ (subscribed[c] /\ writer[c] # "lost"),
               phase' = [phase EXCEPT ![c] = phase'[c]],
               phase'[c] \notin TakeoverPhases
        PROVE  CurrentInv'
    <3>1. \A d \in Conns : phase'[d] \in TakeoverPhases => phase[d] \in TakeoverPhases
      BY <1>0, <2>1 DEF TypeOK
    <3>2. Subscribing' /\ TakeoverOfCurrent' /\ OnlyCurrentCanSpeak'
      BY <1>0, <2>1, <3>1 DEF CurrentInv, Subscribing, TakeoverOfCurrent, OnlyCurrentCanSpeak
    <3>3. FreshIsCurrent'
      BY <2>1 DEF CurrentInv, OnlyCurrentCanSpeak, FreshIsCurrent
    <3> QED
      BY <1>0, <3>2, <3>3 DEF CurrentInv
  <2>2. CASE Accept(c)
    BY <1>0, <2>1, <2>2 DEF TypeOK, Accept, taskVars, srvVars
  <2>3. CASE Connect(c)
    BY <1>0, <2>1, <2>3 DEF TypeOK, Connect, AfterPacket, srvVars
  <2>4. CASE RunEnds(c)
    BY <1>0, <2>1, <2>4 DEF TypeOK, RunEnds, srvVars
  <2>5. CASE Report(c) \/ FullReport(c)
    <3>1. Heard(c)
      BY <2>5 DEF Report, FullReport
    <3> QED
      BY <1>0, <2>1, <3>1 DEF TypeOK, Heard, AfterPacket, Reading
  <2>6. ASSUME NEW r \in unanswered[c], NEW success \in BOOLEAN, Reply(c, r, success)
        PROVE  CurrentInv'
    BY <1>0, <2>1, <2>6 DEF TypeOK, Reply, AfterPacket, Reading
  <2>7. CASE Subscribe(c)
    <3>1. /\ connection = None /\ connection' = c /\ lastSeen' = None
          /\ UNCHANGED <<old, writer>>
          /\ raced' = (raced \/ \E d \in Conns \ {c} : phase[d] \in TakeoverPhases)
          /\ subscribed' = [subscribed EXCEPT ![c] = TRUE]
          /\ task' = [task EXCEPT ![c] = "pause"]
          /\ \A d \in Conns : phase'[d] \in TakeoverPhases => d # c /\ phase[d] \in TakeoverPhases
      BY <1>0, <2>7 DEF Subscribe, Reading, BecomeCurrent, AfterPacket, TypeOK
    <3>2. FreshIsCurrent'
      BY <3>1 DEF FreshIsCurrent
    <3>3. ASSUME NEW d \in Conns
          PROVE  ~subscribed'[d] => d # c /\ ~subscribed[d] /\ task'[d] = task[d]
      BY <1>0, <3>1 DEF TypeOK
    <3>4. ASSUME NEW d \in Conns, phase'[d] \in TakeoverPhases
          PROVE  ~subscribed'[d] /\ old'[d] \in Conns \ {d}
      BY <1>0, <3>1, <3>4 DEF CurrentInv, TypeOK, Subscribing
    <3>5. Subscribing'
      BY <1>0, <3>1, <3>3, <3>4 DEF CurrentInv, TypeOK, Subscribing
    <3>6. TakeoverOfCurrent'
      BY <3>1 DEF TakeoverOfCurrent
    <3>7. ASSUME NEW d \in Conns, subscribed'[d], writer'[d] # "lost", ~raced'
          PROVE  d = c
      BY <1>0, <3>1, <3>7, NoneAssumption DEF CurrentInv, TypeOK, OnlyCurrentCanSpeak
    <3>8. OnlyCurrentCanSpeak'
      BY <3>1, <3>7 DEF OnlyCurrentCanSpeak
    <3> QED
      BY <1>0, <3>2, <3>5, <3>6, <3>8 DEF CurrentInv
  <2>8. CASE BeginTakeover(c)
    <3>1. /\ connection # c /\ connection \in Conns /\ ~subscribed[c]
          /\ UNCHANGED <<writer, subscribed, task, connection, lastSeen, raced>>
          /\ old' = [old EXCEPT ![c] = connection]
          /\ phase' = [phase EXCEPT ![c] = "takeover"]
      BY <1>0, <2>8 DEF BeginTakeover, CurrentInv, TypeOK, Subscribing, srvVars
    <3>2. OnlyCurrentCanSpeak' /\ FreshIsCurrent'
      BY <3>1 DEF CurrentInv, OnlyCurrentCanSpeak, FreshIsCurrent
    <3>3. ASSUME NEW d \in Conns, phase'[d] \in TakeoverPhases
          PROVE  ~subscribed'[d] /\ old'[d] \in Conns \ {d}
      <4>1. CASE d = c
        BY <1>0, <3>1, <4>1 DEF TypeOK
      <4>2. CASE d # c
        <5>1. phase[d] \in TakeoverPhases /\ old'[d] = old[d]
          BY <1>0, <3>1, <3>3, <4>2 DEF TypeOK
        <5> QED
          BY <3>1, <5>1 DEF CurrentInv, Subscribing
      <4> QED
        BY <4>1, <4>2
    <3>4. Subscribing'
      BY <3>1, <3>3 DEF CurrentInv, Subscribing
    <3>5. ASSUME NEW d \in Conns, phase'[d] \in TakeoverPhases, ~raced'
          PROVE  connection' \in {old'[d], None}
      BY <1>0, <3>1, <3>5 DEF CurrentInv, TypeOK, TakeoverOfCurrent
    <3>6. TakeoverOfCurrent'
      BY <3>1, <3>5 DEF TakeoverOfCurrent
    <3> QED
      BY <1>0, <3>2, <3>4, <3>6 DEF CurrentInv
  <2>9. CASE CloseWriter(c)
    <3>1. /\ UNCHANGED <<old, subscribed, task, connection, lastSeen, raced>>
          /\ \A d \in Conns : phase'[d] \in TakeoverPhases <=> phase[d] \in TakeoverPhases
      BY <1>0, <2>9 DEF CloseWriter, TypeOK, taskVars, srvVars
    <3>2. \A d \in Conns : writer[d] = "lost" => writer'[d] = "lost"
      <4>1. writer' = [writer EXCEPT ![Closes(c)] = IF @ = "open" THEN "closing" ELSE @]
        BY <2>9 DEF CloseWriter
      <4> QED
        BY <1>0, <4>1 DEF TypeOK
    <3>3. Subscribing' /\ TakeoverOfCurrent' /\ FreshIsCurrent'
      BY <3>1 DEF CurrentInv, Subscribing, TakeoverOfCurrent, FreshIsCurrent
    <3>4. OnlyCurrentCanSpeak'
      BY <3>1, <3>2 DEF CurrentInv, OnlyCurrentCanSpeak
    <3> QED
      BY <1>0, <3>3, <3>4 DEF CurrentInv
  <2>10. CASE FinishTakeover(c)
    <3>1. /\ phase[c] \in TakeoverPhases /\ writer[old[c]] = "lost"
          /\ connection' = c /\ lastSeen' = None
          /\ UNCHANGED <<old, writer>>
          /\ raced' = (raced \/ \E d \in Conns \ {c} : phase[d] \in TakeoverPhases)
          /\ subscribed' = [subscribed EXCEPT ![c] = TRUE]
          /\ task' = [task EXCEPT ![c] = "pause"]
          /\ \A d \in Conns : phase'[d] \in TakeoverPhases => d # c /\ phase[d] \in TakeoverPhases
      BY <1>0, <2>10 DEF FinishTakeover, BecomeCurrent, AfterPacket, TypeOK
    <3>2. FreshIsCurrent'
      BY <3>1 DEF FreshIsCurrent
    <3>5. ASSUME NEW d \in Conns
          PROVE  /\ ~subscribed'[d] => task'[d] = "none"
                 /\ phase'[d] \in TakeoverPhases => ~subscribed'[d] /\ old'[d] \in Conns \ {d}
      BY <1>0, <3>1 DEF CurrentInv, TypeOK, Subscribing
    <3>6. Subscribing'
      <4>1. subscribed'[c]
        BY <1>0, <3>1 DEF TypeOK
      <4> QED
        BY <3>1, <3>5, <4>1 DEF Subscribing
    <3>3. TakeoverOfCurrent'
      BY <1>0, <3>1 DEF CurrentInv, TypeOK, TakeoverOfCurrent
    <3>4. ASSUME NEW d \in Conns, subscribed'[d], writer'[d] # "lost", ~raced'
          PROVE  d = c
      <4>1. ~raced /\ connection \in {old[c], None}
        BY <3>1, <3>4 DEF CurrentInv, TakeoverOfCurrent
      <4>2. d # c => connection = d
        BY <1>0, <3>1, <3>4, <4>1 DEF CurrentInv, TypeOK, OnlyCurrentCanSpeak
      <4> QED
        BY <3>1, <3>4, <4>1, <4>2, NoneAssumption
    <3>7. OnlyCurrentCanSpeak'
      BY <3>1, <3>4 DEF OnlyCurrentCanSpeak
    <3> QED
      BY <1>0, <3>2, <3>3, <3>6, <3>7 DEF CurrentInv
  <2>11. CASE FinishCleanup(c)
    BY <1>0, <2>11 DEF CurrentInv, TypeOK, FinishCleanup, taskVars,
        Subscribing, TakeoverOfCurrent, OnlyCurrentCanSpeak, FreshIsCurrent
  <2>12. CASE PollTurn(c)
    <3>1. Quiet
      BY <1>0, <2>12 DEF TypeOK, Quiet, PollTurn, connVars, srvVars
    <3> QED
      BY <1>0, <3>1, QuietCurrent
  <2>13. CASE CancelPollerDelivered(c)
    <3>1. CASE CancelRequest(c)
      BY <1>0, <2>13, <3>1, CancelQuiet, QuietCurrent DEF CancelPollerDelivered, srvVars
    <3>2. CASE /\ task[c] = "pause"
               /\ task' = [task EXCEPT ![c] = "ended"]
               /\ UNCHANGED <<lock, writer, givenUp, pendingVars>>
      <4>1. Quiet
        BY <1>0, <2>13, <3>2 DEF TypeOK, Quiet, CancelPollerDelivered, srvVars
      <4> QED
        BY <1>0, <4>1, QuietCurrent
    <3> QED
      BY <2>13, <3>1, <3>2 DEF CancelPollerDelivered
  <2> QED
    BY <1>1, <2>2, <2>3, <2>4, <2>5, <2>6, <2>7, <2>8, <2>9, <2>10, <2>11, <2>12, <2>13
    DEF ConnectionStep
<1>2. ASSUME NEW t \in Tasks, RequestStep(t) PROVE CurrentInv'
  BY <1>0, <1>2, RequestQuiet, QuietCurrent
<1>3. ASSUME NEW t \in Callers, CallerStep(t) PROVE CurrentInv'
  <2>1. CASE Capture(t) \/ EndControl(t) \/ Request(t)
    <3>1. Quiet
      BY <1>0, <2>1 DEF TypeOK, Quiet, Capture, EndControl, Request, connVars, srvVars
    <3> QED
      BY <1>0, <3>1, QuietCurrent
  <2>2. CASE CancelCaller(t)
    BY <1>0, <2>2, CancelQuiet, QuietCurrent DEF CancelCaller, srvVars
  <2> QED
    BY <1>3, <2>1, <2>2 DEF CallerStep
<1>4. ASSUME NEW c \in Conns, Environment(c) PROVE CurrentInv'
  <2>1. /\ UNCHANGED <<phase, old, subscribed, task, connection, lastSeen, raced>>
        /\ \/ UNCHANGED writer
           \/ writer' = [writer EXCEPT ![c] = "closing"] /\ writer[c] # "lost"
           \/ writer' = [writer EXCEPT ![c] = "lost"]
    BY <1>4 DEF Environment, GraceElapses, Drop, TransportLost, connVars, taskVars, srvVars
  <2>2. Quiet
    BY <1>0, <2>1 DEF TypeOK, Quiet
  <2> QED
    BY <1>0, <2>2, QuietCurrent
<1>5. CASE UNCHANGED vars
  <2>1. Quiet
    BY <1>5 DEF Quiet, vars, connVars, taskVars, srvVars
  <2> QED
    BY <1>0, <2>1, QuietCurrent
<1> QED
  BY <1>1, <1>2, <1>3, <1>4, <1>5 DEF Next

\* CurrentInv holds initially, so it always holds.
LEMMA CurrentInvariant == Spec => []CurrentInv
<1>1. Init => CurrentInv
  BY InitType, NoneAssumption, TasksAssumption
  DEF Init, CurrentInv, Subscribing, TakeoverOfCurrent, OnlyCurrentCanSpeak, FreshIsCurrent
<1> QED
  BY <1>1, NextCurrent, PTL DEF Spec

\* A takeover that no other takeover overtakes leaves one live connection.
THEOREM OneLiveConnection == Spec => []SingleLive
<1>1. CurrentInv => SingleLive
  BY DEF CurrentInv, OnlyCurrentCanSpeak, SingleLive
<1> QED
  BY <1>1, CurrentInvariant, PTL

\* Telemetry of a replaced connection never makes its successor look fresh.
THEOREM FreshnessIsCurrent == Spec => []FreshIsCurrent
<1>1. CurrentInv => FreshIsCurrent
  BY DEF CurrentInv
<1> QED
  BY <1>1, CurrentInvariant, PTL

-----------------------------------------------------------------------------
(* The queue of the lock. *)

\* What is left of a sequence without its i-th element.
LEMMA RemoveAtElements ==
  ASSUME NEW S, NEW s \in Seq(S), NEW i \in 1..Len(s)
  PROVE  /\ Len(RemoveAt(s, i)) = Len(s) - 1
         /\ \A j \in 1..(Len(s) - 1) : RemoveAt(s, i)[j] = IF j < i THEN s[j] ELSE s[j + 1]
<1>1. /\ SubSeq(s, 1, i - 1) \in Seq(S) /\ Len(SubSeq(s, 1, i - 1)) = i - 1
      /\ \A j \in 1..(i - 1) : SubSeq(s, 1, i - 1)[j] = s[j]
  OBVIOUS
<1>2. /\ SubSeq(s, i + 1, Len(s)) \in Seq(S) /\ Len(SubSeq(s, i + 1, Len(s))) = Len(s) - i
      /\ \A j \in 1..(Len(s) - i) : SubSeq(s, i + 1, Len(s))[j] = s[i + j]
  OBVIOUS
<1> DEFINE a == SubSeq(s, 1, i - 1)
           b == SubSeq(s, i + 1, Len(s))
<1>3. /\ Len(a \o b) = Len(a) + Len(b)
      /\ \A j \in 1..(Len(a) + Len(b)) : (a \o b)[j] = IF j <= Len(a) THEN a[j] ELSE b[j - Len(a)]
  <2>1. a \in Seq(S) /\ b \in Seq(S)
    BY <1>1, <1>2
  <2> QED
    BY <2>1, ConcatProperties
<1>4. RemoveAt(s, i) = a \o b
  BY DEF RemoveAt
<1> HIDE DEF a, b
<1>5. Len(a) = i - 1 /\ Len(b) = Len(s) - i
  BY <1>1, <1>2 DEF a, b
<1>6. ASSUME NEW j \in 1..(Len(s) - 1)
      PROVE  (a \o b)[j] = IF j < i THEN s[j] ELSE s[j + 1]
  <2>1. CASE j < i
    BY <1>1, <1>3, <1>5, <2>1 DEF a
  <2>2. CASE ~(j < i)
    <3>1. j - (i - 1) \in 1..(Len(s) - i) /\ i + (j - (i - 1)) = j + 1
      BY <2>2
    <3>2. b[j - (i - 1)] = s[j + 1]
      BY <1>2, <3>1 DEF b
    <3> QED
      BY <1>3, <1>5, <2>2, <3>2
  <2> QED
    BY <2>1, <2>2
<1> QED
  BY <1>3, <1>4, <1>5, <1>6

\* Nothing the queue speaks of changes.
LEMMA QueueFrame ==
  ASSUME LockQueue, TypeOK, lock' = lock,
         \A u \in Tasks : Requesting(u) => task'[u] = task[u] /\ Link(u)' = Link(u),
         \A u \in Tasks : ~Requesting(u) => ~Requesting(u)'
  PROVE  LockQueue'
<1>1. \A c \in Conns : \A i \in 1..Len(lock[c]) : lock[c][i] \in Tasks
  BY DEF TypeOK
<1> QED
  BY <1>1 DEF LockQueue, Requesting

\* A task that was idle joins the end of a queue.
LEMMA QueueJoin ==
  ASSUME LockQueue, TypeOK, NEW t \in Tasks, NEW c \in Conns, Link(t) = c, ~Requesting(t),
         lock' = [lock EXCEPT ![c] = Append(@, t)], task' = [task EXCEPT ![t] = "lock"], on' = on
  PROVE  LockQueue'
<1> DEFINE q == Append(lock[c], t)
<1>1. /\ lock[c] \in Seq(Tasks) /\ Len(lock[c]) \in Nat /\ Len(q) = Len(lock[c]) + 1
      /\ q[Len(q)] = t
      /\ \A i \in 1..Len(lock[c]) : q[i] = lock[c][i]
  BY DEF TypeOK
<1>2. \A d \in Conns : \A i \in 1..Len(lock[d]) :
        lock[d][i] \in Tasks /\ lock[d][i] # t /\ task'[lock[d][i]] = task[lock[d][i]]
  BY DEF LockQueue, TypeOK
<1>3. \A u \in Tasks : Link(u)' = Link(u)
  BY DEF Link
<1>4. \A d \in Conns : lock'[d] = IF d = c THEN q ELSE lock[d]
  BY DEF TypeOK
<1>5. ASSUME NEW d \in Conns, NEW i \in 1..Len(lock'[d])
      PROVE  /\ Link(lock[d][i])' = d
             /\ Requesting(lock[d][i])'
             /\ i # 1 => task'[lock'[d][i]] = "lock"
  <2>1. CASE d = c /\ i = Len(q)
    BY <1>1, <1>3, <1>4, <2>1 DEF TypeOK, Requesting
  <2>2. CASE i \in 1..Len(lock[d]) /\ lock'[d][i] = lock[d][i]
    BY <1>2, <1>3, <2>2 DEF LockQueue, Requesting
  <2> QED
    BY <1>1, <1>4, <1>5, <2>1, <2>2
<1>6. ASSUME NEW d \in Conns, NEW i \in 1..Len(lock'[d]), NEW j \in 1..Len(lock'[d]),
             lock'[d][i] = lock'[d][j]
      PROVE  i = j
  <2>1. CASE d # c
    BY <1>4, <1>6, <2>1 DEF LockQueue
  <2>2. CASE d = c
    <3>1. ~(i = Len(q) /\ j \in 1..Len(lock[c])) /\ ~(j = Len(q) /\ i \in 1..Len(lock[c]))
      BY <1>1, <1>2, <1>4, <1>6, <2>2
    <3> QED
      BY <1>1, <1>4, <1>6, <2>2, <3>1 DEF LockQueue
  <2> QED
    BY <2>1, <2>2
<1>7. ASSUME NEW u \in Tasks, Requesting(u)'
      PROVE  Link(u)' \in Conns /\ \E i \in 1..Len(lock'[Link(u)']) : lock'[Link(u)'][i] = u
  <2>1. CASE u = t
    <3>0. Link(u)' = c /\ lock'[c] = q
      BY <1>3, <1>4, <2>1
    <3>1. Len(q) \in 1..Len(q)
      <4> HIDE DEF q
      <4> QED
        BY <1>1
    <3> QED
      BY <1>1, <2>1, <3>0, <3>1
  <2>2. CASE u # t
    <3>1. Requesting(u)
      BY <1>7, <2>2 DEF Requesting, TypeOK
    <3>2. Link(u) \in Conns /\ \E i \in 1..Len(lock[Link(u)]) : lock[Link(u)][i] = u
      BY <3>1 DEF LockQueue
    <3> QED
      BY <1>1, <1>3, <1>4, <3>2
  <2> QED
    BY <2>1, <2>2
<1> QED
  BY <1>5, <1>6, <1>7 DEF LockQueue

\* The i-th task of a queue leaves it and its request().
LEMMA QueueLeave ==
  ASSUME LockQueue, TypeOK, NEW t \in Tasks, NEW c \in Conns, NEW i \in 1..Len(lock[c]),
         lock[c][i] = t, Leave(c, i), NEW s, task' = [task EXCEPT ![t] = s],
         s \notin {"lock", "grace", "reply"}, on' = on
  PROVE  LockQueue'
<1> DEFINE q == RemoveAt(lock[c], i)
           At(j) == IF j < i THEN j ELSE j + 1
<1>1. /\ lock[c] \in Seq(Tasks) /\ Len(lock[c]) \in Nat /\ Len(q) = Len(lock[c]) - 1
      /\ \A j \in 1..Len(q) : At(j) \in 1..Len(lock[c]) /\ At(j) # i /\ q[j] = lock[c][At(j)]
                              /\ (j # 1 => At(j) # 1)
  <2>1. lock[c] \in Seq(Tasks)
    BY DEF TypeOK
  <2>2. Len(lock[c]) \in Nat /\ i \in Int
    BY <2>1
  <2>3. /\ Len(q) = Len(lock[c]) - 1
        /\ \A j \in 1..(Len(lock[c]) - 1) : q[j] = IF j < i THEN lock[c][j] ELSE lock[c][j + 1]
    BY <2>1, RemoveAtElements
  <2>4. ASSUME NEW j \in 1..(Len(lock[c]) - 1)
        PROVE  /\ At(j) \in 1..Len(lock[c]) /\ At(j) # i /\ q[j] = lock[c][At(j)]
               /\ j # 1 => At(j) # 1
    BY <2>2, <2>3
  <2> QED
    BY <2>1, <2>2, <2>3, <2>4
<1>2. \A u \in Tasks : Link(u)' = Link(u)
  BY DEF Link
<1>3. \A d \in Conns : lock'[d] = IF d = c THEN q ELSE lock[d]
  BY DEF TypeOK, Leave
<1>4. \A d \in Conns : \A j \in 1..Len(lock[d]) :
        lock[d][j] \in Tasks /\ (d # c \/ j # i => lock[d][j] # t)
  BY SMTT(30) DEF LockQueue, TypeOK
<1>5. \A u \in Tasks : u # t => task'[u] = task[u]
  BY DEF TypeOK
<1>6. ASSUME NEW d \in Conns, NEW j \in 1..Len(lock'[d])
      PROVE  /\ Link(lock[d][j])' = d
             /\ Requesting(lock[d][j])'
             /\ j # 1 => task'[lock'[d][j]] = "lock"
  <2>1. PICK k \in 1..Len(lock[d]) :
          lock'[d][j] = lock[d][k] /\ (d # c \/ k # i) /\ (j # 1 => k # 1)
    <3>1. CASE d = c
      BY <1>1, <1>3, <3>1
    <3>2. CASE d # c
      BY <1>3, <3>2
    <3> QED
      BY <3>1, <3>2
  <2> QED
    BY <1>2, <1>4, <1>5, <2>1 DEF LockQueue, Requesting
<1>7. ASSUME NEW d \in Conns, NEW j \in 1..Len(lock'[d]), NEW k \in 1..Len(lock'[d]),
             lock'[d][j] = lock'[d][k]
      PROVE  j = k
  <2>1. CASE d # c
    BY <1>3, <1>7, <2>1 DEF LockQueue
  <2>2. CASE d = c
    <3>0. /\ j \in 1..Len(q) /\ k \in 1..Len(q) /\ q[j] = q[k]
          /\ At(j) \in 1..Len(lock[c]) /\ At(k) \in 1..Len(lock[c])
      BY <1>1, <1>3, <1>7, <2>2
    <3>2. lock[c][At(j)] = lock[c][At(k)]
      BY <1>1, <3>0
    <3>1. At(j) = At(k)
      BY <3>0, <3>2 DEF LockQueue
    <3> QED
      BY <1>1, <1>3, <2>2, <3>1
  <2> QED
    BY <2>1, <2>2
<1>8. ASSUME NEW u \in Tasks, Requesting(u)'
      PROVE  Link(u)' \in Conns /\ \E j \in 1..Len(lock'[Link(u)']) : lock'[Link(u)'][j] = u
  <2>1. u # t
    BY <1>8 DEF Requesting, TypeOK
  <2>2. Requesting(u)
    BY <1>5, <1>8, <2>1 DEF Requesting
  <2>3. PICK k \in 1..Len(lock[Link(u)]) : Link(u) \in Conns /\ lock[Link(u)][k] = u
    BY <2>2 DEF LockQueue
  <2>4. CASE Link(u) # c
    BY <1>2, <1>3, <2>3, <2>4
  <2>5. CASE Link(u) = c
    <3>1. k # i
      BY <2>1, <2>3, <2>5
    <3>2. CASE k < i
      <4>1. k \in 1..Len(q) /\ At(k) = k
        BY <1>1, <2>3, <2>5, <3>2
      <4> QED
        BY <1>1, <1>2, <1>3, <2>3, <2>5, <4>1
    <3>3. CASE k > i
      <4>1. k - 1 \in 1..Len(q) /\ At(k - 1) = k
        BY <1>1, <2>3, <2>5, <3>3
      <4> QED
        BY <1>1, <1>2, <1>3, <2>3, <2>5, <4>1
    <3> QED
      BY <1>1, <2>3, <2>5, <3>1, <3>2, <3>3
  <2> QED
    BY <2>4, <2>5
<1> QED
  BY <1>6, <1>7, <1>8 DEF LockQueue

-----------------------------------------------------------------------------
(* Replies and requests. *)

\* What RequestInv says of the requests of each connection.
Accounts == OneUnanswered /\ GivenUpCloses /\ NoOrphanRequest /\ NoStaleReply

\* It is kept when no request changes and no transport is opened again.
LEMMA AccountsFrame ==
  ASSUME Accounts, UNCHANGED <<model, unanswered, published, givenUp, future, answeredBy>>,
         \A c \in Conns : writer[c] # "open" => writer'[c] # "open"
  PROVE  Accounts'
<1>1. Deferring' = Deferring
  BY DEF Deferring
<1>2. OneUnanswered' /\ GivenUpCloses'
  BY <1>1 DEF Accounts, OneUnanswered, GivenUpCloses, IsClosing
<1>3. NoOrphanRequest' /\ NoStaleReply'
  BY <1>1 DEF Accounts, NoOrphanRequest, NoStaleReply
<1> QED
  BY <1>2, <1>3 DEF Accounts

\* A step that leaves requests, replies and the queues of the locks alone.
LEMMA ExchangeFrame ==
  ASSUME TypeOK, TypeOK', RequestInv, model' = model,
         UNCHANGED <<lock, on, unanswered, published, givenUp, pendingVars>>,
         \A u \in Tasks : Requesting(u) => task'[u] = task[u],
         \A u \in Tasks : ~Requesting(u) => ~Requesting(u)',
         \A c \in Conns : writer[c] # "open" => writer'[c] # "open"
  PROVE  RequestInv'
<1>1. LockQueue'
  BY QueueFrame DEF RequestInv, Link
<1>2. \A c \in Conns : lock[c] # <<>> => lock[c][1] \in Tasks /\ Requesting(lock[c][1])
  <2> TAKE c \in Conns
  <2> HAVE lock[c] # <<>>
  <2>1. lock[c] \in Seq(Tasks)
    BY DEF TypeOK
  <2>2. 1 \in 1..Len(lock[c])
    BY <2>1
  <2> QED
    BY <2>1, <2>2 DEF RequestInv, LockQueue
<1>3. PendingOwned'
  BY <1>2 DEF RequestInv, PendingOwned, pendingVars
<1> QED
  BY <1>1, <1>3, AccountsFrame DEF RequestInv, Accounts, pendingVars

\* A task that joins a queue disturbs no pending request.
LEMMA AppendOwned ==
  ASSUME TypeOK, RequestInv, NEW t \in Tasks, NEW c \in Conns, ~Requesting(t),
         lock' = [lock EXCEPT ![c] = Append(@, t)], task' = [task EXCEPT ![t] = "lock"],
         UNCHANGED pendingVars
  PROVE  PendingOwned'
<1> SUFFICES ASSUME NEW d \in Conns, future'[d] # "absent"
             PROVE  lock'[d] # <<>> /\ task'[lock'[d][1]] = "reply"
  BY DEF PendingOwned
<1>1. lock[d] # <<>> /\ task[lock[d][1]] = "reply" /\ lock[d] \in Seq(Tasks)
  BY DEF RequestInv, PendingOwned, pendingVars, TypeOK
<1>2. lock[d][1] \in Tasks /\ lock[d][1] # t
  BY <1>1 DEF Requesting
<1>3. lock'[d] # <<>> /\ lock'[d][1] = lock[d][1]
  <2>1. CASE d = c
    <3>1. lock'[c] = Append(lock[c], t)
      BY DEF TypeOK
    <3>2. Len(Append(lock[c], t)) = Len(lock[c]) + 1 /\ 1 \in 1..Len(lock[c])
      BY <1>1, <2>1
    <3>3. Append(lock[c], t)[1] = lock[c][1]
      BY <1>1, <2>1, <3>2
    <3>4. Append(lock[c], t) # <<>>
      BY <1>1, <2>1, AppendProperties
    <3> QED
      BY <2>1, <3>1, <3>3, <3>4
  <2>2. CASE d # c
    BY <1>1, <2>2 DEF TypeOK
  <2> QED
    BY <2>1, <2>2
<1> QED
  BY <1>1, <1>2, <1>3 DEF TypeOK

\* The task that holds a lock is the first of its queue.
LEMMA Holder ==
  ASSUME TypeOK, RequestInv, NEW t \in Tasks, task[t] \in {"grace", "reply"} \/ HoldsLock(t),
         task[t] # "idle"
  PROVE  /\ Link(t) \in Conns /\ lock[Link(t)] # <<>> /\ lock[Link(t)][1] = t
         /\ 1 \in 1..Len(lock[Link(t)])
<1> DEFINE c == Link(t)
<1>1. CASE task[t] \in {"grace", "reply"}
  <2>1. PICK i \in 1..Len(lock[c]) : c \in Conns /\ lock[c][i] = t
    BY <1>1 DEF RequestInv, LockQueue, Requesting
  <2>2. i = 1
    BY <1>1, <2>1 DEF RequestInv, LockQueue
  <2>3. lock[c] \in Seq(Tasks)
    BY <2>1 DEF TypeOK
  <2> QED
    BY <2>1, <2>2, <2>3
<1>2. CASE HoldsLock(t)
  <2>1. c \in Conns
    BY <1>2 DEF HoldsLock, Link, TypeOK
  <2>2. lock[c] \in Seq(Tasks)
    BY <2>1 DEF TypeOK
  <2> QED
    BY <1>2, <2>1, <2>2 DEF HoldsLock
<1> QED
  BY <1>1, <1>2

\* A task leaves request(), whatever the reason.
LEMMA LeaveRequest ==
  ASSUME TypeOK, TypeOK', RequestInv, NEW t \in Tasks, NEW c \in Conns,
         NEW i \in 1..Len(lock[c]), lock[c][i] = t, Leave(c, i),
         NEW s, task' = [task EXCEPT ![t] = s], s \notin {"lock", "grace", "reply"},
         UNCHANGED <<model, on, unanswered, published>>,
         \A d \in Conns : writer[d] # "open" => writer'[d] # "open",
         \/ ClearPending(c) /\ (writer'[c] # "open" \/ future[c] # "waiting") /\ i = 1
         \/ UNCHANGED pendingVars /\ task[t] # "reply",
         \/ givenUp' = givenUp
         \/ /\ ClearPending(c) /\ writer'[c] # "open"
            /\ givenUp' = [givenUp EXCEPT ![c] = @ \cup {published[c]}]
  PROVE  RequestInv'
<1>1. LockQueue'
  BY QueueLeave DEF RequestInv
<1>2. PendingOwned'
  <2> SUFFICES ASSUME NEW d \in Conns, future'[d] # "absent"
               PROVE  lock'[d] # <<>> /\ task'[lock'[d][1]] = "reply"
    BY DEF PendingOwned
  <2>1. (UNCHANGED pendingVars /\ task[t] # "reply") \/ d # c
    BY DEF ClearPending, TypeOK
  <2>2. future[d] # "absent"
    BY <2>1 DEF ClearPending, pendingVars, TypeOK
  <2>3. lock[d] # <<>> /\ task[lock[d][1]] = "reply" /\ lock[d] \in Seq(Tasks)
    BY <2>2 DEF RequestInv, PendingOwned, TypeOK
  <2>4. CASE d # c
    <3>1. lock'[d] = lock[d]
      BY <2>4 DEF Leave, TypeOK
    <3>2. lock[d][1] # t
      <4>1. Link(lock[d][1]) = d /\ Link(lock[c][i]) = c
        BY <2>3 DEF RequestInv, LockQueue
      <4> QED
        BY <2>4, <4>1
    <3> QED
      BY <2>3, <3>1, <3>2 DEF TypeOK
  <2>5. CASE d = c
    <3>1. task[t] # "reply" /\ i # 1
      BY <2>1, <2>3, <2>5
    <3>2. lock[c] \in Seq(Tasks) /\ Len(lock[c]) \in Nat /\ lock'[c] = RemoveAt(lock[c], i)
      BY DEF TypeOK, Leave
    <3>3. Len(lock'[c]) = Len(lock[c]) - 1 /\ lock'[c][1] = lock[c][1]
      <4>1. 1 \in 1..(Len(lock[c]) - 1) /\ 1 < i
        BY <3>1, <3>2
      <4> QED
        BY <3>2, <4>1, RemoveAtElements
    <3>4. lock'[c] # <<>>
      BY <3>1, <3>2, <3>3
    <3>5. lock[c][1] \in Tasks /\ lock[c][1] # t
      BY <2>3, <2>5, <3>1
    <3> QED
      BY <2>3, <2>5, <3>3, <3>4, <3>5 DEF TypeOK
  <2> QED
    BY <2>4, <2>5
<1>3. OneUnanswered' /\ Deferring' = Deferring
  BY DEF RequestInv, OneUnanswered, Deferring
<1>4. \A d \in Conns : \/ future'[d] = future[d] /\ answeredBy'[d] = answeredBy[d]
                       \/ d = c /\ future'[d] = "absent" /\ (writer'[d] # "open" \/ future[d] # "waiting")
  BY DEF TypeOK, ClearPending, pendingVars
<1>5. \A d \in Conns : \/ givenUp'[d] = givenUp[d]
                       \/ future'[d] = "absent" /\ writer'[d] # "open"
  BY DEF TypeOK, ClearPending
<1>6. GivenUpCloses'
  BY <1>4, <1>5 DEF RequestInv, GivenUpCloses, IsClosing
<1>7. NoOrphanRequest'
  <2> SUFFICES ASSUME NEW d \in Conns, NEW r \in unanswered'[d], writer'[d] = "open"
               PROVE  \/ future'[d] = "waiting" /\ r.id = published'[d]
                      \/ Deferring' /\ r.id \notin givenUp'[d]
    BY DEF NoOrphanRequest
  <2>1. writer[d] = "open" /\ r \in unanswered[d] /\ published'[d] = published[d]
    OBVIOUS
  <2>2. \/ future[d] = "waiting" /\ r.id = published[d]
        \/ Deferring /\ r.id \notin givenUp[d]
    BY <2>1 DEF RequestInv, NoOrphanRequest
  <2> QED
    BY <1>3, <1>4, <1>5, <2>1, <2>2
<1>8. NoStaleReply'
  BY <1>3, <1>4, <1>5 DEF RequestInv, NoStaleReply
<1> QED
  BY <1>1, <1>2, <1>3, <1>6, <1>7, <1>8 DEF RequestInv

\* A cancelled request keeps RequestInv.
LEMMA CancelKeepsRequests ==
  ASSUME TypeOK, TypeOK', RequestInv, NEW t \in Tasks, CancelRequest(t),
         UNCHANGED <<model, on, unanswered, published>>
  PROVE  RequestInv'
<1> DEFINE c == Link(t)
<1>1. task' = [task EXCEPT ![t] = AfterRequest(t, FALSE)]
  BY DEF CancelRequest, CancelInReply, CancelInGrace, CancelInQueue, Abandon
<1>2. AfterRequest(t, FALSE) \notin {"lock", "grace", "reply"}
  BY DEF AfterRequest
<1>3. CASE CancelInReply(t)
  <2>1. c \in Conns /\ lock[c][1] = t /\ 1 \in 1..Len(lock[c])
    BY <1>3, Holder DEF CancelInReply
  <2>2. /\ Leave(c, 1) /\ ClearPending(c)
        /\ writer' = [writer EXCEPT ![c] = IF @ = "open" THEN "closing" ELSE @]
        /\ givenUp' = [givenUp EXCEPT ![c] = @ \cup {published[c]}]
    BY <1>3 DEF CancelInReply, Abandon, Release
  <2>3. writer'[c] # "open" /\ \A d \in Conns : writer[d] # "open" => writer'[d] # "open"
    BY <2>1, <2>2 DEF TypeOK
  <2> QED
    BY <1>1, <1>2, <2>1, <2>2, <2>3, LeaveRequest
<1>4. CASE CancelInGrace(t)
  <2>1. c \in Conns /\ lock[c][1] = t /\ 1 \in 1..Len(lock[c])
    BY <1>4, Holder DEF CancelInGrace
  <2>2. Leave(c, 1) /\ UNCHANGED <<writer, givenUp, pendingVars>> /\ task[t] # "reply"
    BY <1>4 DEF CancelInGrace, Release
  <2> QED
    BY <1>1, <1>2, <2>1, <2>2, LeaveRequest
<1>5. CASE CancelInQueue(t)
  <2>1. c \in Conns
    BY <1>5 DEF CancelInQueue, RequestInv, LockQueue, Requesting
  <2>2. PICK i \in 1..Len(lock[c]) : lock[c][i] = t /\ Leave(c, i)
    BY <1>5 DEF CancelInQueue
  <2>3. UNCHANGED <<writer, givenUp, pendingVars>> /\ task[t] # "reply"
    BY <1>5 DEF CancelInQueue
  <2> QED
    BY <1>1, <1>2, <2>1, <2>2, <2>3, LeaveRequest
<1> QED
  BY <1>3, <1>4, <1>5 DEF CancelRequest

\* Sending a request: allowed only when nothing is pending or was given up.
LEMMA PublishKeepsRequests ==
  ASSUME TypeOK, TypeOK', RequestInv, NEW t \in Tasks, NEW cmd \in Commands,
         task[t] \in {"lock", "grace"}, task[t] = "grace" \/ HoldsLock(t),
         writer[Link(t)] = "open", Publish(t, Link(t), cmd), model' = model
  PROVE  RequestInv'
<1> DEFINE c == Link(t)
<1>1. c \in Conns /\ lock[c] # <<>> /\ lock[c][1] = t /\ 1 \in 1..Len(lock[c])
  BY Holder
<1>2. future[c] = "absent"
  BY <1>1 DEF RequestInv, PendingOwned
<1>3. givenUp[c] = {} /\ (Deferring \/ unanswered[c] = {}) /\ Deferring' = Deferring
  BY <1>1, <1>2 DEF RequestInv, NoOrphanRequest, GivenUpCloses, IsClosing, Deferring
<1>4. /\ task' = [task EXCEPT ![t] = "reply"] /\ UNCHANGED <<lock, on, writer, answeredBy, givenUp>>
      /\ published' = [published EXCEPT ![c] = @ + 1]
      /\ future' = [future EXCEPT ![c] = "waiting"]
      /\ unanswered' = [unanswered EXCEPT ![c] = @ \cup {[id |-> published[c] + 1, cmd |-> cmd]}]
  BY DEF Publish, connVars
<1>5. LockQueue'
  <2>1. \A d \in Conns : \A i \in 1..Len(lock[d]) :
          lock[d][i] \in Tasks /\ (i # 1 => lock[d][i] # t)
    <3> TAKE d \in Conns
    <3> TAKE i \in 1..Len(lock[d])
    <3>1. lock[d][i] \in Tasks
      BY DEF TypeOK
    <3>2. ASSUME lock[d][i] = t PROVE i = 1
      <4>1. d = c
        BY <3>2 DEF RequestInv, LockQueue
      <4> QED
        BY <1>1, <3>2, <4>1 DEF RequestInv, LockQueue
    <3> QED
      BY <3>1, <3>2
  <2>2. \A u \in Tasks : Link(u)' = Link(u) /\ (Requesting(u)' <=> Requesting(u))
    BY <1>4 DEF Link, Requesting, TypeOK
  <2>3. \A u \in Tasks : u # t => task'[u] = task[u]
    BY <1>4 DEF TypeOK
  <2> QED
    BY <1>4, <2>1, <2>2, <2>3 DEF RequestInv, LockQueue
<1>6. PendingOwned'
  <2> SUFFICES ASSUME NEW d \in Conns, future'[d] # "absent"
               PROVE  lock'[d] # <<>> /\ task'[lock'[d][1]] = "reply"
    BY DEF PendingOwned
  <2>1. CASE d = c
    BY <1>1, <1>4, <2>1 DEF TypeOK
  <2>2. CASE d # c
    <3>1. future[d] # "absent"
      BY <1>4, <2>2 DEF TypeOK
    <3>2. lock[d] # <<>> /\ task[lock[d][1]] = "reply" /\ lock[d] \in Seq(Tasks)
      BY <3>1 DEF RequestInv, PendingOwned, TypeOK
    <3>3. lock[d][1] \in Tasks /\ lock[d][1] # t
      BY <3>2
    <3> QED
      BY <1>4, <3>2, <3>3 DEF TypeOK
  <2> QED
    BY <2>1, <2>2
<1>7. ASSUME NEW d \in Conns, d # c
      PROVE  /\ unanswered'[d] = unanswered[d] /\ published'[d] = published[d]
             /\ future'[d] = future[d]
  BY <1>4, <1>7 DEF TypeOK
<1>8. /\ unanswered'[c] = unanswered[c] \cup {[id |-> published[c] + 1, cmd |-> cmd]}
      /\ published'[c] = published[c] + 1 /\ future'[c] = "waiting" /\ published[c] \in Nat
  BY <1>1, <1>4 DEF TypeOK
<1>9. OneUnanswered'
  <2>1. \A d \in Conns : \A r \in unanswered'[d] : r.id <= published'[d]
    <3>1. ASSUME NEW r \in unanswered[c] PROVE r.id <= published[c] + 1
      <4>1. r.id \in Nat /\ r.id <= published[c]
        BY <1>1 DEF TypeOK, Requests, RequestInv, OneUnanswered
      <4> QED
        BY <1>8, <4>1
    <3>2. \A r \in unanswered'[c] : r.id <= published'[c]
      BY <1>8, <3>1
    <3> QED
      BY <1>7, <3>2 DEF RequestInv, OneUnanswered
  <2>2. ASSUME ~Deferring, NEW d \in Conns
        PROVE  \A q, r \in unanswered'[d] : q = r /\ r.id = published'[d]
    <3>1. CASE d = c
      BY <1>3, <1>8, <2>2, <3>1
    <3>2. CASE d # c
      BY <1>7, <2>2, <3>2 DEF RequestInv, OneUnanswered
    <3> QED
      BY <3>1, <3>2
  <2> QED
    BY <1>3, <2>1, <2>2 DEF OneUnanswered
<1>10. GivenUpCloses'
  BY <1>3, <1>4, <1>7 DEF RequestInv, GivenUpCloses, IsClosing
<1>11. NoOrphanRequest'
  <2> SUFFICES ASSUME NEW d \in Conns, NEW r \in unanswered'[d], writer'[d] = "open"
               PROVE  \/ future'[d] = "waiting" /\ r.id = published'[d]
                      \/ Deferring' /\ r.id \notin givenUp'[d]
    BY DEF NoOrphanRequest
  <2>1. CASE d = c
    BY <1>3, <1>4, <1>8, <2>1
  <2>2. CASE d # c
    BY <1>3, <1>4, <1>7, <2>2 DEF RequestInv, NoOrphanRequest
  <2> QED
    BY <2>1, <2>2
<1>12. NoStaleReply'
  BY <1>3, <1>4, <1>7, <1>8 DEF RequestInv, NoStaleReply
<1> QED
  BY <1>5, <1>6, <1>9, <1>10, <1>11, <1>12 DEF RequestInv

\* What settles the future of c, the reply r or a report (0), keeps RequestInv
\* when it may: r answers the last request, or the station defers its answers.
LEMMA SettleKeepsRequests ==
  ASSUME TypeOK, TypeOK', RequestInv, NEW c \in Conns,
         UNCHANGED <<model, lock, on, task, writer, published, givenUp>>,
         NEW gone, unanswered' = [unanswered EXCEPT ![c] = @ \ gone],
         \/ UNCHANGED <<future, answeredBy>>
         \/ /\ future[c] = "waiting"
            /\ \E f \in {"ok", "rejected"} : future' = [future EXCEPT ![c] = f]
            /\ \E n \in Nat : /\ answeredBy' = [answeredBy EXCEPT ![c] = n]
                              /\ Deferring \/ (n = published[c] /\ unanswered[c] \subseteq gone)
  PROVE  RequestInv'
<1>1. LockQueue'
  BY QueueFrame DEF RequestInv, Link, Requesting
<1>2. PendingOwned'
  BY DEF RequestInv, PendingOwned, TypeOK
<1>3. Deferring' = Deferring
  BY DEF Deferring
<1>4. \A d \in Conns : unanswered'[d] \subseteq unanswered[d]
  BY DEF TypeOK
<1>5. ASSUME NEW d \in Conns
      PROVE  \/ future'[d] = future[d] /\ answeredBy'[d] = answeredBy[d]
             \/ /\ d = c /\ future[d] = "waiting" /\ future'[d] \in {"ok", "rejected"}
                /\ Deferring \/ (answeredBy'[d] = published[d] /\ unanswered'[d] = {})
  <2>1. CASE UNCHANGED <<future, answeredBy>>
    BY <2>1
  <2>2. ASSUME future[c] = "waiting",
               NEW f \in {"ok", "rejected"}, future' = [future EXCEPT ![c] = f],
               NEW n \in Nat, answeredBy' = [answeredBy EXCEPT ![c] = n],
               Deferring \/ (n = published[c] /\ unanswered[c] \subseteq gone)
        PROVE  \/ future'[d] = future[d] /\ answeredBy'[d] = answeredBy[d]
               \/ /\ d = c /\ future[d] = "waiting" /\ future'[d] \in {"ok", "rejected"}
                  /\ Deferring \/ (answeredBy'[d] = published[d] /\ unanswered'[d] = {})
    <3>1. CASE d = c
      <4>1. future'[c] = f /\ answeredBy'[c] = n /\ unanswered'[c] = unanswered[c] \ gone
        BY <2>2 DEF TypeOK
      <4> QED
        BY <2>2, <3>1, <4>1
    <3>2. CASE d # c
      BY <2>2, <3>2 DEF TypeOK
    <3> QED
      BY <3>1, <3>2
  <2> QED
    BY <2>1, <2>2
<1>6. \A d \in Conns : writer[d] = "open" \/ future[d] = "waiting" => givenUp[d] = {}
  BY DEF RequestInv, GivenUpCloses, IsClosing
<1>7. OneUnanswered'
  BY <1>3, <1>4 DEF RequestInv, OneUnanswered
<1>8. GivenUpCloses'
  BY <1>5, <1>6 DEF RequestInv, GivenUpCloses, IsClosing
<1>9. NoOrphanRequest'
  <2> SUFFICES ASSUME NEW d \in Conns, NEW r \in unanswered'[d], writer'[d] = "open"
               PROVE  \/ future'[d] = "waiting" /\ r.id = published'[d]
                      \/ Deferring' /\ r.id \notin givenUp'[d]
    BY DEF NoOrphanRequest
  <2>1. \/ future[d] = "waiting" /\ r.id = published[d]
        \/ Deferring /\ r.id \notin givenUp[d]
    BY <1>4 DEF RequestInv, NoOrphanRequest
  <2>2. givenUp'[d] = {}
    BY <1>6
  <2> QED
    BY <1>3, <1>5, <2>1, <2>2
<1>10. NoStaleReply'
  <2> SUFFICES ASSUME NEW d \in Conns, future'[d] \in {"ok", "rejected"}
               PROVE  \/ answeredBy'[d] = published'[d]
                      \/ Deferring' /\ answeredBy'[d] \notin givenUp'[d]
    BY DEF NoStaleReply
  <2>1. CASE future'[d] = future[d] /\ answeredBy'[d] = answeredBy[d]
    BY <1>3, <2>1 DEF RequestInv, NoStaleReply
  <2>2. CASE future[d] = "waiting" /\ (Deferring \/ answeredBy'[d] = published[d])
    BY <1>3, <1>6, <2>2
  <2> QED
    BY <1>5, <2>1, <2>2
<1> QED
  BY <1>1, <1>2, <1>7, <1>8, <1>9, <1>10 DEF RequestInv

\* A reply settles the request it answers or nothing, or answers are deferred.
LEMMA ReplyKeepsRequests ==
  ASSUME TypeOK, TypeOK', RequestInv, NEW c \in Conns, NEW r \in unanswered[c],
         NEW success \in BOOLEAN, Reply(c, r, success)
  PROVE  RequestInv'
<1>1. /\ UNCHANGED <<model, lock, on, task, writer, published, givenUp>>
      /\ unanswered' = [unanswered EXCEPT ![c] = @ \ {r}]
  BY DEF Reply
<1>2. \/ UNCHANGED <<future, answeredBy>>
      \/ /\ future[c] = "waiting"
         /\ \E f \in {"ok", "rejected"} : future' = [future EXCEPT ![c] = f]
         /\ answeredBy' = [answeredBy EXCEPT ![c] = r.id]
  BY DEF Reply, Settles
<1>3. r.id \in Nat
  BY DEF TypeOK, Requests
<1>4. Deferring \/ (r.id = published[c] /\ unanswered[c] \subseteq {r})
  BY DEF RequestInv, OneUnanswered
<1> QED
  BY <1>1, <1>2, <1>3, <1>4, SettleKeepsRequests

\* A full report settles a request on a station that defers its answers.
LEMMA FullReportKeepsRequests ==
  ASSUME TypeOK, TypeOK', RequestInv, NEW c \in Conns, FullReport(c)
  PROVE  RequestInv'
<1>1. /\ UNCHANGED <<model, lock, on, task, writer, published, givenUp>>
      /\ unanswered' = [unanswered EXCEPT ![c] = @ \ {}]
  BY DEF FullReport, Heard, TypeOK
<1>2. /\ Deferring /\ future[c] = "waiting"
      /\ future' = [future EXCEPT ![c] = "ok"]
      /\ answeredBy' = [answeredBy EXCEPT ![c] = 0]
  BY DEF FullReport
<1> QED
  BY <1>1, <1>2, SettleKeepsRequests

\* Every step keeps RequestInv.
LEMMA NextRequests == CurrentInv /\ RequestInv /\ [Next]_vars => RequestInv'
<1> SUFFICES ASSUME CurrentInv, RequestInv, [Next]_vars PROVE RequestInv'
  OBVIOUS
<1>0. TypeOK /\ TypeOK' /\ model' = model
  BY NextType, ModelFixed DEF CurrentInv
<1>1. ASSUME NEW c \in Conns, ConnectionStep(c) PROVE RequestInv'
  <2>1. CASE Accept(c)
    BY <1>0, <2>1, ExchangeFrame DEF Accept, reqVars, taskVars, Requesting
  <2>2. CASE Connect(c)
    BY <1>0, <2>2, ExchangeFrame DEF Connect, reqVars, Requesting
  <2>3. CASE RunEnds(c)
    BY <1>0, <2>3, ExchangeFrame DEF RunEnds, reqVars, Requesting
  <2>4. CASE Report(c)
    BY <1>0, <2>4, ExchangeFrame DEF Report, Heard, pendingVars, Requesting
  <2>5. CASE BeginTakeover(c)
    BY <1>0, <2>5, ExchangeFrame DEF BeginTakeover, reqVars, Requesting
  <2>6. CASE FinishCleanup(c)
    BY <1>0, <2>6, ExchangeFrame DEF FinishCleanup, reqVars, taskVars, Requesting
  <2>7. ASSUME BecomeCurrent(c), ~subscribed[c] PROVE RequestInv'
    <3>1. task[c] = "none"
      BY <2>7 DEF CurrentInv, Subscribing
    <3> QED
      BY <1>0, <2>7, <3>1, ExchangeFrame DEF BecomeCurrent, Requesting, TypeOK, pendingVars
  <2>8. CASE Subscribe(c)
    BY <2>7, <2>8 DEF Subscribe
  <2>9. CASE FinishTakeover(c)
    BY <2>7, <2>9 DEF FinishTakeover, CurrentInv, Subscribing
  <2>10. ASSUME NEW r \in unanswered[c], NEW success \in BOOLEAN, Reply(c, r, success)
         PROVE  RequestInv'
    BY <1>0, <2>10, ReplyKeepsRequests
  <2>11. CASE CloseWriter(c)
    <3> DEFINE k == Closes(c)
    <3>1. k \in Conns
      BY <2>11 DEF Closes, CurrentInv, Subscribing
    <3>2. /\ future' = [future EXCEPT ![k] = IF @ = "waiting" THEN "lost" ELSE @]
          /\ writer' = [writer EXCEPT ![k] = IF @ = "open" THEN "closing" ELSE @]
          /\ UNCHANGED <<lock, on, task, unanswered, published, givenUp, answeredBy>>
      BY <2>11 DEF CloseWriter, taskVars
    <3>3. LockQueue'
      BY <1>0, <3>2, QueueFrame DEF RequestInv, Link, Requesting
    <3>4. /\ k \in Conns => writer'[k] # "open"
          /\ \A d \in Conns : writer[d] # "open" => writer'[d] # "open"
          /\ \A d \in Conns : \/ future'[d] = future[d] /\ (writer'[d] = writer[d] \/ writer'[d] # "open")
                             \/ /\ future[d] = "waiting" /\ future'[d] = "lost"
                                /\ writer'[d] # "open"
          /\ Deferring' = Deferring
      BY <1>0, <3>1, <3>2 DEF TypeOK, Deferring
    <3>5. PendingOwned' /\ OneUnanswered' /\ GivenUpCloses'
      BY <1>0, <3>2, <3>4 DEF RequestInv, PendingOwned, OneUnanswered, GivenUpCloses, IsClosing
    <3>6. NoOrphanRequest' /\ NoStaleReply'
      BY <3>2, <3>4 DEF RequestInv, NoOrphanRequest, NoStaleReply
    <3> QED
      BY <3>3, <3>5, <3>6 DEF RequestInv
  <2>12. CASE PollTurn(c)
    <3>1. CASE IsClosing(c)
      <4>1. /\ task[c] = "pause" /\ task' = [task EXCEPT ![c] = "ended"]
            /\ UNCHANGED <<lock, published, givenUp, pendingVars, connVars, on, unanswered>>
        BY <2>12, <3>1 DEF PollTurn
      <4>2. \A u \in Tasks : (Requesting(u) => task'[u] = task[u]) /\ (~Requesting(u) => ~Requesting(u)')
        BY <1>0, <4>1 DEF Requesting, TypeOK
      <4> QED
        BY <1>0, <4>1, <4>2, ExchangeFrame DEF connVars
    <3>2. CASE ~IsClosing(c)
      <4>1. /\ task[c] = "pause" /\ task' = [task EXCEPT ![c] = "lock"]
            /\ lock' = [lock EXCEPT ![c] = Append(@, c)]
            /\ UNCHANGED <<on, connVars, unanswered, published, givenUp, pendingVars>>
        BY <2>12, <3>2 DEF PollTurn
      <4>2. LockQueue'
        BY <1>0, <4>1, QueueJoin DEF RequestInv, Link, Requesting
      <4>3. PendingOwned'
        BY <1>0, <4>1, AppendOwned DEF RequestInv, Requesting
      <4> QED
        BY <1>0, <4>1, <4>2, <4>3, AccountsFrame DEF RequestInv, Accounts, connVars, pendingVars
    <3> QED
      BY <3>1, <3>2
  <2>13. CASE CancelPollerDelivered(c)
    <3>1. CASE CancelRequest(c)
      BY <1>0, <2>13, <3>1, CancelKeepsRequests DEF CancelPollerDelivered
    <3>2. CASE /\ task[c] = "pause"
               /\ task' = [task EXCEPT ![c] = "ended"]
               /\ UNCHANGED <<lock, writer, givenUp, pendingVars>>
      BY <1>0, <2>13, <3>2, ExchangeFrame DEF CancelPollerDelivered, Requesting, TypeOK
    <3> QED
      BY <2>13, <3>1, <3>2 DEF CancelPollerDelivered
  <2>14. CASE FullReport(c)
    BY <1>0, <2>14, FullReportKeepsRequests
  <2> QED
    BY <1>1, <2>1, <2>2, <2>3, <2>4, <2>5, <2>6, <2>8, <2>9, <2>10, <2>11, <2>12, <2>13, <2>14
    DEF ConnectionStep
<1>2. ASSUME NEW t \in Tasks, RequestStep(t) PROVE RequestInv'
  <2> DEFINE c == Link(t)
  <2>1. ASSUME NEW cmd \in Commands, AcquireAndSend(t, cmd) \/ WakeAndSend(t, cmd)
        PROVE  RequestInv'
    BY <1>0, <2>1, PublishKeepsRequests DEF AcquireAndSend, WakeAndSend, IsClosing
  <2>2. CASE AcquireAndSleep(t)
    <3>1. c \in Conns /\ lock[c] # <<>> /\ lock[c][1] = t /\ 1 \in 1..Len(lock[c])
      BY <1>0, <2>2, Holder DEF AcquireAndSleep
    <3>2. /\ task[t] = "lock" /\ task' = [task EXCEPT ![t] = "grace"]
          /\ UNCHANGED <<lock, on, connVars, unanswered, published, givenUp, pendingVars>>
      BY <2>2 DEF AcquireAndSleep, reqVars
    <3>3. \A d \in Conns : \A i \in 1..Len(lock[d]) : i # 1 => lock[d][i] # t
      BY <3>1 DEF RequestInv, LockQueue
    <3>4. LockQueue'
      <4>1. \A u \in Tasks : Link(u)' = Link(u) /\ (Requesting(u)' <=> Requesting(u))
        BY <1>0, <3>2 DEF Link, Requesting, TypeOK
      <4>2. \A d \in Conns : \A i \in 1..Len(lock[d]) : lock[d][i] \in Tasks
        BY <1>0 DEF TypeOK
      <4>3. \A u \in Tasks : u # t => task'[u] = task[u]
        BY <1>0, <3>2 DEF TypeOK
      <4> QED
        BY <3>2, <3>3, <4>1, <4>2, <4>3 DEF RequestInv, LockQueue
    <3>5. PendingOwned'
      <4>1. \A d \in Conns : lock[d] # <<>> /\ task[lock[d][1]] = "reply" => lock[d][1] # t
        BY <2>2 DEF AcquireAndSleep
      <4>2. \A d \in Conns : lock[d] # <<>> => lock[d][1] \in Tasks
        BY <1>0 DEF TypeOK
      <4> QED
        BY <1>0, <3>2, <4>1, <4>2 DEF RequestInv, PendingOwned, TypeOK, pendingVars
    <3> QED
      BY <1>0, <3>2, <3>4, <3>5, AccountsFrame DEF RequestInv, Accounts, connVars, pendingVars
  <2>3. ASSUME Unavailable(t, c), task[t] \in {"lock", "grace"}, task[t] = "grace" \/ HoldsLock(t)
        PROVE  RequestInv'
    <3>1. c \in Conns /\ lock[c][1] = t /\ 1 \in 1..Len(lock[c])
      BY <1>0, <2>3, Holder
    <3>2. AfterRequest(t, FALSE) \notin {"lock", "grace", "reply"}
      BY DEF AfterRequest
    <3>3. \A d \in Conns : writer[d] # "open" => writer'[d] # "open"
      BY <1>0, <2>3 DEF Unavailable, PollerCloses, TypeOK
    <3> QED
      BY <1>0, <2>3, <3>1, <3>2, <3>3, LeaveRequest DEF Unavailable, Release
  <2>4. CASE Resume(t)
    <3>1. c \in Conns /\ lock[c][1] = t /\ 1 \in 1..Len(lock[c])
      BY <1>0, <2>4, Holder DEF Resume
    <3>2. /\ future[c] # "waiting" /\ ClearPending(c) /\ Leave(c, 1)
          /\ \E b \in BOOLEAN : task' = [task EXCEPT ![t] = AfterRequest(t, b)]
          /\ UNCHANGED <<on, unanswered, published, givenUp>>
      BY <2>4 DEF Resume, Release
    <3>3. \A b \in BOOLEAN : AfterRequest(t, b) \notin {"lock", "grace", "reply"}
      BY DEF AfterRequest
    <3>4. \A d \in Conns : writer[d] # "open" => writer'[d] # "open"
      BY <1>0, <2>4 DEF Resume, PollerCloses, TypeOK
    <3> QED
      BY <1>0, <3>1, <3>2, <3>3, <3>4, LeaveRequest
  <2>5. CASE Timeout(t)
    BY <1>0, <2>5, CancelKeepsRequests DEF Timeout, CancelRequest, CancelInReply
  <2> QED
    BY <1>2, <2>1, <2>2, <2>3, <2>4, <2>5
    DEF RequestStep, AcquireUnavailable, WakeUnavailable
<1>3. ASSUME NEW t \in Callers, CallerStep(t) PROVE RequestInv'
  <2>1. CASE Capture(t) \/ EndControl(t)
    <3>1. /\ task[t] = "idle" /\ UNCHANGED <<lock, task, connVars, unanswered, published, givenUp, pendingVars>>
          /\ \A u \in Tasks : u # t => Link(u)' = Link(u)
      BY <1>0, <2>1, TasksAssumption DEF Capture, EndControl, reqVars, Link, TypeOK
    <3>2. LockQueue'
      BY <1>0, <3>1, QueueFrame DEF RequestInv, Requesting
    <3> QED
      BY <1>0, <3>1, <3>2, AccountsFrame DEF RequestInv, Accounts, PendingOwned, connVars, pendingVars
  <2>2. CASE Request(t)
    <3>1. /\ on[t] \in Conns /\ Link(t) = on[t]
          /\ task[t] = "idle" /\ task' = [task EXCEPT ![t] = "lock"]
          /\ lock' = [lock EXCEPT ![on[t]] = Append(@, t)]
          /\ UNCHANGED <<on, connVars, unanswered, published, givenUp, pendingVars>>
      BY <1>0, <2>2, TasksAssumption DEF Request, TypeOK, Link
    <3>2. LockQueue'
      BY <1>0, <3>1, QueueJoin DEF RequestInv, Requesting
    <3>3. PendingOwned'
      BY <1>0, <3>1, AppendOwned DEF RequestInv, Requesting
    <3> QED
      BY <1>0, <3>1, <3>2, <3>3, AccountsFrame DEF RequestInv, Accounts, connVars, pendingVars
  <2>3. CASE CancelCaller(t)
    BY <1>0, <2>3, CancelKeepsRequests DEF CancelCaller
  <2> QED
    BY <1>3, <2>1, <2>2, <2>3 DEF CallerStep
<1>4. ASSUME NEW c \in Conns, Environment(c) PROVE RequestInv'
  <2>1. CASE GraceElapses(c)
    BY <1>0, <2>1, ExchangeFrame DEF GraceElapses, connVars, taskVars, Requesting
  <2>2. CASE Drop(c)
    <3>1. /\ writer' = [writer EXCEPT ![c] = "closing"]
          /\ UNCHANGED <<lock, on, task, unanswered, published, givenUp, pendingVars>>
      BY <2>2 DEF Drop, reqVars, taskVars
    <3>2. \A d \in Conns : writer[d] # "open" => writer'[d] # "open"
      BY <1>0, <3>1 DEF TypeOK
    <3>3. \A u \in Tasks : Requesting(u)' <=> Requesting(u)
      BY <3>1 DEF Requesting
    <3> QED
      BY <1>0, <3>1, <3>2, <3>3, ExchangeFrame
  <2>3. CASE TransportLost(c)
    <3>1. /\ UNCHANGED <<lock, on, task, published, givenUp, pendingVars>>
          /\ unanswered' = [unanswered EXCEPT ![c] = {}]
          /\ writer' = [writer EXCEPT ![c] = "lost"]
      BY <2>3 DEF TransportLost, reqVars, taskVars
    <3>2. LockQueue'
      BY <1>0, <3>1, QueueFrame DEF RequestInv, Link, Requesting
    <3>3. /\ \A d \in Conns : unanswered'[d] \subseteq unanswered[d]
          /\ \A d \in Conns : writer[d] # "open" => writer'[d] # "open"
          /\ Deferring' = Deferring
      BY <1>0, <3>1 DEF TypeOK, Deferring
    <3>4. PendingOwned' /\ OneUnanswered' /\ GivenUpCloses'
      BY <3>1, <3>3 DEF RequestInv, PendingOwned, OneUnanswered, GivenUpCloses, IsClosing, pendingVars
    <3>5. NoOrphanRequest' /\ NoStaleReply'
      BY <3>1, <3>3 DEF RequestInv, NoOrphanRequest, NoStaleReply, pendingVars
    <3> QED
      BY <3>2, <3>4, <3>5 DEF RequestInv
  <2> QED
    BY <1>4, <2>1, <2>2, <2>3 DEF Environment
<1>5. CASE UNCHANGED vars
  BY <1>0, <1>5, ExchangeFrame DEF vars, connVars, reqVars, taskVars, Requesting
<1> QED
  BY <1>1, <1>2, <1>3, <1>4, <1>5 DEF Next

\* RequestInv holds initially, so it always holds.
LEMMA RequestInvariant == Spec => []RequestInv
<1>1. Init => RequestInv
  BY TasksAssumption DEF Init, RequestInv, LockQueue, PendingOwned, OneUnanswered,
                         GivenUpCloses, NoOrphanRequest, NoStaleReply, Requesting
<1> QED
  BY <1>1, CurrentInvariant, NextRequests, PTL DEF Spec

\* A reply that settles a pending request is the reply to that request, or the
\* station defers its answers and no given-up request is answered.
THEOREM RepliesAreNotStale == Spec => []NoStaleReply
<1>1. RequestInv => NoStaleReply
  BY DEF RequestInv
<1> QED
  BY <1>1, RequestInvariant, PTL

\* On an open connection the station owes no answer but the awaited one, or the
\* station defers its answers and owes none to a request that was given up.
THEOREM NoRequestIsOrphaned == Spec => []NoOrphanRequest
<1>1. RequestInv => NoOrphanRequest
  BY DEF RequestInv
<1> QED
  BY <1>1, RequestInvariant, PTL

\* No request is published on a connection whose writer is closing.
THEOREM NothingIsSentAfterClose == Spec => NothingAfterClose
<1> DEFINE Kept == \A c \in Conns : IsClosing(c) => published'[c] = published[c]
<1>1. TypeOK /\ [Next]_vars => [Kept]_vars
  <2> SUFFICES ASSUME TypeOK, Next, published' # published PROVE Kept
    BY DEF vars, reqVars
  <2>1. PICK t \in Tasks : RequestStep(t)
    BY DEF Next, ConnectionStep, CallerStep, Environment, Accept, Connect, Subscribe,
           BecomeCurrent, BeginTakeover, Report, FullReport, Heard, RunEnds, Reply, CloseWriter, FinishTakeover,
           FinishCleanup, PollTurn, CancelPollerDelivered, Capture, EndControl, Request,
           CancelCaller, GraceElapses, Drop, TransportLost, reqVars
  <2>2. PICK cmd \in Commands : AcquireAndSend(t, cmd) \/ WakeAndSend(t, cmd)
    BY <2>1 DEF RequestStep, AcquireAndSleep, AcquireUnavailable, WakeUnavailable, Unavailable,
                Resume, Timeout, reqVars
  <2>3. ~IsClosing(Link(t)) /\ published' = [published EXCEPT ![Link(t)] = @ + 1]
    BY <2>2 DEF AcquireAndSend, WakeAndSend, Publish
  <2> QED
    BY <2>3 DEF TypeOK
<1> QED
  BY <1>1, TypeCorrect, PTL DEF Spec, NothingAfterClose

-----------------------------------------------------------------------------
(* A task waits for a reply only while its request is pending. *)

\* A task that waits for a reply has a pending request: the future it created.
ReplyPending == \A t \in Tasks : task[t] = "reply" => future[Link(t)] # "absent"

\* Steps that begin no wait and clear no future keep ReplyPending.
LEMMA PendingFrame ==
  ASSUME TypeOK, ReplyPending,
         \A t \in Tasks : task'[t] = "reply" => task[t] = "reply" /\ Link(t)' = Link(t),
         \A c \in Conns : future'[c] = "absent" => future[c] = "absent"
  PROVE  ReplyPending'
<1> SUFFICES ASSUME NEW t \in Tasks, task'[t] = "reply" PROVE future'[Link(t)'] # "absent"
  BY DEF ReplyPending
<1>1. task[t] = "reply" /\ Link(t)' = Link(t)
  OBVIOUS
<1>2. Link(t) \in Conns
  BY <1>1 DEF TypeOK, Link
<1> QED
  BY <1>1, <1>2 DEF ReplyPending

\* At most one task waits for a reply on a connection, the holder of its lock.
LEMMA OneWaits ==
  ASSUME TypeOK, RequestInv, NEW t \in Tasks, NEW u \in Tasks,
         task[t] = "reply", task[u] = "reply", Link(t) = Link(u)
  PROVE  t = u
<1>1. lock[Link(t)][1] = t /\ lock[Link(u)][1] = u
  BY Holder
<1> QED
  BY <1>1

\* A task that leaves request() and clears pending keeps ReplyPending.
LEMMA LeavePending ==
  ASSUME TypeOK, RequestInv, ReplyPending, NEW t \in Tasks, task[t] = "reply",
         NEW s, s # "reply", task' = [task EXCEPT ![t] = s], on' = on, ClearPending(Link(t))
  PROVE  ReplyPending'
<1> SUFFICES ASSUME NEW u \in Tasks, task'[u] = "reply" PROVE future'[Link(u)] # "absent"
  BY DEF ReplyPending, Link
<1>1. u # t /\ task[u] = "reply"
  BY DEF TypeOK
<1>2. Link(u) \in Conns /\ Link(t) \in Conns
  BY <1>1 DEF TypeOK, Link
<1>3. Link(u) # Link(t)
  BY <1>1, OneWaits
<1> QED
  BY <1>1, <1>2, <1>3 DEF ReplyPending, ClearPending, TypeOK

\* So does a task that is cancelled inside request().
LEMMA CancelPending ==
  ASSUME TypeOK, RequestInv, ReplyPending, NEW t \in Tasks, CancelRequest(t), on' = on
  PROVE  ReplyPending'
<1>0. AfterRequest(t, FALSE) # "reply" /\ task' = [task EXCEPT ![t] = AfterRequest(t, FALSE)]
  BY DEF AfterRequest, CancelRequest, CancelInReply, CancelInGrace, CancelInQueue, Abandon
<1>1. CASE CancelInReply(t)
  BY <1>0, <1>1, LeavePending DEF CancelInReply, Abandon
<1>2. CASE CancelInGrace(t) \/ CancelInQueue(t)
  <2>1. UNCHANGED future
    BY <1>2 DEF CancelInGrace, CancelInQueue, pendingVars
  <2>2. \A u \in Tasks : task'[u] = "reply" => task[u] = "reply" /\ Link(u)' = Link(u)
    BY <1>0 DEF TypeOK, Link
  <2> QED
    BY <2>1, <2>2, PendingFrame
<1> QED
  BY <1>1, <1>2 DEF CancelRequest

\* Every action keeps ReplyPending.
LEMMA NextPending == CurrentInv /\ RequestInv /\ ReplyPending /\ [Next]_vars => ReplyPending'
<1> SUFFICES ASSUME CurrentInv, RequestInv, ReplyPending, [Next]_vars PROVE ReplyPending'
  OBVIOUS
<1>0. TypeOK /\ TypeOK'
  BY NextType DEF CurrentInv
<1>1. ASSUME NEW c \in Conns, ConnectionStep(c) PROVE ReplyPending'
  <2>1. CASE Accept(c) \/ Connect(c) \/ RunEnds(c) \/ Report(c) \/ BeginTakeover(c) \/ FinishCleanup(c)
    <3>1. UNCHANGED <<task, on, future>>
      BY <2>1 DEF Accept, Connect, RunEnds, Report, Heard, BeginTakeover, FinishCleanup, reqVars,
                  taskVars, pendingVars
    <3> QED
      BY <1>0, <3>1, PendingFrame DEF Link
  <2>2. CASE Subscribe(c) \/ FinishTakeover(c)
    <3>1. task' = [task EXCEPT ![c] = "pause"] /\ UNCHANGED <<on, future>>
      BY <2>2 DEF Subscribe, FinishTakeover, BecomeCurrent, pendingVars
    <3>2. \A u \in Tasks : task'[u] = "reply" => task[u] = "reply"
      BY <1>0, <3>1 DEF TypeOK
    <3> QED
      BY <1>0, <3>1, <3>2, PendingFrame DEF Link
  <2>3. ASSUME NEW r \in unanswered[c], NEW success \in BOOLEAN, Reply(c, r, success)
        PROVE  ReplyPending'
    <3>1. UNCHANGED <<task, on>>
          /\ \A d \in Conns : future'[d] = "absent" => future[d] = "absent"
      BY <1>0, <2>3 DEF Reply, TypeOK
    <3> QED
      BY <1>0, <3>1, PendingFrame DEF Link
  <2>4. CASE CloseWriter(c)
    <3>1. UNCHANGED <<task, on>>
          /\ \A d \in Conns : future'[d] = "absent" => future[d] = "absent"
      BY <1>0, <2>4 DEF CloseWriter, TypeOK, taskVars
    <3> QED
      BY <1>0, <3>1, PendingFrame DEF Link
  <2>5. CASE PollTurn(c)
    <3>1. UNCHANGED <<on, future>>
          /\ \E s \in {"ended", "lock"} : task' = [task EXCEPT ![c] = s]
      BY <2>5 DEF PollTurn, pendingVars
    <3>2. \A u \in Tasks : task'[u] = "reply" => task[u] = "reply"
      BY <1>0, <3>1 DEF TypeOK
    <3> QED
      BY <1>0, <3>1, <3>2, PendingFrame DEF Link
  <2>6. CASE CancelPollerDelivered(c)
    <3>1. CASE CancelRequest(c)
      BY <1>0, <2>6, <3>1, CancelPending DEF CancelPollerDelivered
    <3>2. CASE task' = [task EXCEPT ![c] = "ended"] /\ UNCHANGED <<lock, writer, givenUp, pendingVars>>
      <4>1. UNCHANGED <<on, future>>
        BY <2>6, <3>2 DEF CancelPollerDelivered, pendingVars
      <4>2. \A u \in Tasks : task'[u] = "reply" => task[u] = "reply"
        BY <1>0, <3>2 DEF TypeOK
      <4> QED
        BY <1>0, <4>1, <4>2, PendingFrame DEF Link
    <3> QED
      BY <2>6, <3>1, <3>2 DEF CancelPollerDelivered
  <2>7. CASE FullReport(c)
    <3>1. UNCHANGED <<task, on>>
          /\ \A d \in Conns : future'[d] = "absent" => future[d] = "absent"
      BY <1>0, <2>7 DEF FullReport, Heard, TypeOK
    <3> QED
      BY <1>0, <3>1, PendingFrame DEF Link
  <2> QED
    BY <1>1, <2>1, <2>2, <2>3, <2>4, <2>5, <2>6, <2>7 DEF ConnectionStep
<1>2. ASSUME NEW t \in Tasks, RequestStep(t) PROVE ReplyPending'
  <2> DEFINE c == Link(t)
  <2>1. ASSUME NEW cmd \in Commands, AcquireAndSend(t, cmd) \/ WakeAndSend(t, cmd)
        PROVE  ReplyPending'
    <3>1. Publish(t, c, cmd) /\ task[t] # "idle"
      BY <2>1 DEF AcquireAndSend, WakeAndSend
    <3>2. c \in Conns
      BY <1>0, <3>1 DEF TypeOK, Link
    <3> SUFFICES ASSUME NEW u \in Tasks, task'[u] = "reply" PROVE future'[Link(u)] # "absent"
      BY <3>1 DEF ReplyPending, Link, Publish
    <3>3. u = t \/ task[u] = "reply"
      BY <1>0, <3>1 DEF Publish, TypeOK
    <3>4. Link(u) \in Conns
      BY <1>0, <3>2, <3>3 DEF TypeOK, Link
    <3> QED
      BY <1>0, <3>1, <3>2, <3>3, <3>4 DEF Publish, ReplyPending, TypeOK
  <2>2. CASE AcquireAndSleep(t) \/ AcquireUnavailable(t) \/ WakeUnavailable(t)
    <3>1. UNCHANGED <<on, future>>
          /\ \E s \in {"grace", "idle", "ended"} : task' = [task EXCEPT ![t] = s]
      BY <2>2 DEF AcquireAndSleep, AcquireUnavailable, WakeUnavailable, Unavailable, AfterRequest,
                  reqVars, pendingVars
    <3>2. \A u \in Tasks : task'[u] = "reply" => task[u] = "reply"
      BY <1>0, <3>1 DEF TypeOK
    <3> QED
      BY <1>0, <3>1, <3>2, PendingFrame DEF Link
  <2>3. CASE Resume(t)
    <3>1. task[t] = "reply" /\ ClearPending(c) /\ on' = on
          /\ \E b \in BOOLEAN : task' = [task EXCEPT ![t] = AfterRequest(t, b)]
      BY <2>3 DEF Resume
    <3>2. \A b \in BOOLEAN : AfterRequest(t, b) # "reply"
      BY DEF AfterRequest
    <3> QED
      BY <1>0, <3>1, <3>2, LeavePending
  <2>4. CASE Timeout(t)
    BY <1>0, <2>4, CancelPending DEF Timeout, CancelRequest, CancelInReply
  <2> QED
    BY <1>2, <2>1, <2>2, <2>3, <2>4 DEF RequestStep
<1>3. ASSUME NEW t \in Callers, CallerStep(t) PROVE ReplyPending'
  <2>1. CASE Capture(t) \/ EndControl(t)
    <3>1. task[t] = "idle" /\ UNCHANGED <<task, future>>
          /\ \A u \in Tasks : u # t => Link(u)' = Link(u)
      BY <1>0, <2>1, TasksAssumption DEF Capture, EndControl, reqVars, pendingVars, Link, TypeOK
    <3> QED
      BY <1>0, <3>1, PendingFrame
  <2>2. CASE Request(t)
    <3>1. UNCHANGED <<on, future>> /\ task' = [task EXCEPT ![t] = "lock"]
      BY <2>2 DEF Request, pendingVars
    <3>2. \A u \in Tasks : task'[u] = "reply" => task[u] = "reply"
      BY <1>0, <3>1 DEF TypeOK
    <3> QED
      BY <1>0, <3>1, <3>2, PendingFrame DEF Link
  <2>3. CASE CancelCaller(t)
    BY <1>0, <2>3, CancelPending DEF CancelCaller
  <2> QED
    BY <1>3, <2>1, <2>2, <2>3 DEF CallerStep
<1>4. CASE (\E c \in Conns : Environment(c)) \/ UNCHANGED vars
  <2>1. UNCHANGED <<task, on, future>>
    BY <1>4 DEF Environment, GraceElapses, Drop, TransportLost, vars, reqVars, taskVars, pendingVars
  <2> QED
    BY <1>0, <2>1, PendingFrame DEF Link
<1> QED
  BY <1>1, <1>2, <1>3, <1>4 DEF Next

\* ReplyPending holds initially, so it always holds.
LEMMA PendingInvariant == Spec => []ReplyPending
<1>1. Init => ReplyPending
  BY TasksAssumption DEF Init, ReplyPending
<1> QED
  BY <1>1, CurrentInvariant, RequestInvariant, NextPending, PTL DEF Spec

-----------------------------------------------------------------------------
(* The endpoint implements the exchange of RequestReply. *)

\* The variables of RequestReply as functions of the endpoint's.
Usable(c) == writer[c] = "open"
Outcome(c) == CASE future[c] = "absent"  -> "none"
                [] future[c] = "waiting" -> "waiting"
                [] future[c] = "lost"    -> "failed"
                [] OTHER                 -> "answered"

\* What the steps of the endpoint do to them, for the connection d they touch:
\* d's transport may close, and another connection keeps everything.
OthersKeep(d) ==
  /\ \A c \in Conns \ {d} : writer'[c] = "open" <=> writer[c] = "open"
  /\ writer'[d] = "open" => writer[d] = "open"

Sends(d) ==
  /\ writer[d] = "open" /\ future[d] = "absent" /\ writer' = writer
  /\ published' = [published EXCEPT ![d] = @ + 1]
  /\ future' = [future EXCEPT ![d] = "waiting"]
  /\ UNCHANGED <<answeredBy, givenUp>>

Hears(d) ==
  /\ future[d] = "waiting" /\ writer' = writer
  /\ \E f \in {"ok", "rejected"} : future' = [future EXCEPT ![d] = f]
  /\ \E n \in Exchange!Answers(d) : answeredBy' = [answeredBy EXCEPT ![d] = n]
  /\ UNCHANGED <<published, givenUp>>

Falls(d) ==
  /\ OthersKeep(d) /\ writer'[d] # "open"
  /\ \/ UNCHANGED future
     \/ future[d] = "waiting" /\ future' = [future EXCEPT ![d] = "lost"]
  /\ UNCHANGED <<published, givenUp, answeredBy>>

Forgets(d) ==
  /\ OthersKeep(d) /\ future[d] # "absent"
  /\ \/ future[d] # "waiting" /\ givenUp' = givenUp
     \/ /\ writer'[d] # "open"
        /\ givenUp' = [givenUp EXCEPT ![d] = @ \cup {published[d]}]
  /\ future' = [future EXCEPT ![d] = "absent"]
  /\ answeredBy' = [answeredBy EXCEPT ![d] = 0]
  /\ published' = published

Unseen ==
  /\ \A c \in Conns : writer'[c] = "open" <=> writer[c] = "open"
  /\ UNCHANGED <<published, givenUp, future, answeredBy>>

Effect == Unseen \/ \E d \in Conns : Sends(d) \/ Hears(d) \/ Falls(d) \/ Forgets(d)

\* The outcome that a state of the future stands for.
LEMMA Outcomes ==
  ASSUME TypeOK, NEW c \in Conns
  PROVE  /\ future[c] = "absent" => Outcome(c) = "none"
         /\ future[c] = "waiting" => Outcome(c) = "waiting"
         /\ future[c] = "lost" => Outcome(c) = "failed"
         /\ future[c] \in {"ok", "rejected"} => Outcome(c) = "answered"
  BY DEF Outcome

\* A future that changes on d alone changes the outcome of d alone.
LEMMA OutcomeChanges ==
  ASSUME TypeOK, TypeOK', NEW d \in Conns, NEW f \in Futures, future' = [future EXCEPT ![d] = f]
  PROVE  [c \in Conns |-> Outcome(c)'] = [[c \in Conns |-> Outcome(c)] EXCEPT ![d] = Outcome(d)']
<1>1. \A c \in Conns \ {d} : future'[c] = future[c]
  BY DEF TypeOK
<1>2. \A c \in Conns \ {d} : Outcome(c)' = Outcome(c)
  BY <1>1 DEF Outcome
<1> QED
  BY <1>2

\* The step closes the connection d or leaves every connection as usable as it was.
LEMMA UsableChanges ==
  ASSUME NEW d \in Conns, OthersKeep(d)
  PROVE  /\ [c \in Conns |-> Usable(c)'] \in
              {[c \in Conns |-> Usable(c)], [[c \in Conns |-> Usable(c)] EXCEPT ![d] = FALSE]}
         /\ writer'[d] # "open" =>
              [c \in Conns |-> Usable(c)'] = [[c \in Conns |-> Usable(c)] EXCEPT ![d] = FALSE]
<1>1. \A c \in Conns \ {d} : Usable(c)' = Usable(c)
  BY DEF OthersKeep, Usable
<1>2. CASE writer'[d] = "open"
  <2>1. \A c \in Conns : Usable(c)' = Usable(c)
    BY <1>1, <1>2 DEF OthersKeep, Usable
  <2> QED
    BY <1>2, <2>1
<1>3. CASE writer'[d] # "open"
  <2>1. Usable(d)' = FALSE
    BY <1>3 DEF Usable
  <2> QED
    BY <1>1, <2>1
<1> QED
  BY <1>2, <1>3

\* A request that is published asks.
LEMMA SendsAsks ==
  ASSUME TypeOK, TypeOK', NEW d \in Conns, Sends(d), model' = model PROVE Exchange!Ask(d)
<1>1. Outcome(d) = "none" /\ Outcome(d)' = "waiting"
  BY Outcomes DEF Sends, Outcome, TypeOK
<1>2. [c \in Conns |-> Outcome(c)'] = [[c \in Conns |-> Outcome(c)] EXCEPT ![d] = "waiting"]
  BY <1>1, OutcomeChanges DEF Sends
<1>3. /\ writer[d] = "open"
      /\ UNCHANGED <<writer, answeredBy, givenUp>> /\ published' = [published EXCEPT ![d] = @ + 1]
      /\ Deferring' = Deferring
  BY DEF Sends, Deferring
<1> QED
  BY <1>1, <1>2, <1>3 DEF Exchange!Ask, Outcome

\* What settles the future is an answer RequestReply allows.
LEMMA HearsAnswers ==
  ASSUME TypeOK, TypeOK', NEW d \in Conns, Hears(d), model' = model PROVE Exchange!Answer(d)
<1>1. PICK f \in {"ok", "rejected"} : future' = [future EXCEPT ![d] = f]
  BY DEF Hears
<1>2. future'[d] = f
  BY <1>1 DEF TypeOK
<1>3. Outcome(d) = "waiting" /\ Outcome(d)' = "answered"
  BY <1>2 DEF Hears, Outcome
<1>4. [c \in Conns |-> Outcome(c)'] = [[c \in Conns |-> Outcome(c)] EXCEPT ![d] = "answered"]
  BY <1>1, <1>3, OutcomeChanges
<1>5. /\ UNCHANGED <<writer, published, givenUp>> /\ Deferring' = Deferring
      /\ \E n \in Exchange!Answers(d) : answeredBy' = [answeredBy EXCEPT ![d] = n]
  BY DEF Hears, Deferring
<1> QED
  BY <1>3, <1>4, <1>5 DEF Exchange!Answer, Outcome

\* A transport that closes fails the exchange on its link.
LEMMA FallsFails ==
  ASSUME TypeOK, TypeOK', NEW d \in Conns, Falls(d), model' = model PROVE Exchange!Fail(d)
<1>1. [c \in Conns |-> Usable(c)'] = [[c \in Conns |-> Usable(c)] EXCEPT ![d] = FALSE]
  BY UsableChanges DEF Falls
<1>2. UNCHANGED <<published, answeredBy, givenUp>> /\ Deferring' = Deferring
  BY DEF Falls, Deferring
<1>3. CASE UNCHANGED future
  BY <1>1, <1>2, <1>3 DEF Exchange!Fail, Usable
<1>4. CASE future[d] = "waiting" /\ future' = [future EXCEPT ![d] = "lost"]
  <2>1. future'[d] = "lost"
    BY <1>4 DEF TypeOK
  <2>2. Outcome(d) = "waiting" /\ Outcome(d)' = "failed"
    BY <1>4, <2>1 DEF Outcome
  <2>3. [c \in Conns |-> Outcome(c)'] = [[c \in Conns |-> Outcome(c)] EXCEPT ![d] = "failed"]
    BY <1>4, <2>2, OutcomeChanges
  <2> QED
    BY <1>1, <1>2, <2>2, <2>3 DEF Exchange!Fail, Usable, Outcome
<1> QED
  BY <1>3, <1>4 DEF Falls

\* pending = None ends the exchange: the outcome is taken, or the link given up.
LEMMA ForgetsEnds ==
  ASSUME TypeOK, TypeOK', NEW d \in Conns, Forgets(d), model' = model
  PROVE  Exchange!Take(d) \/ Exchange!GiveUp(d)
<1>1. future'[d] = "absent" /\ future' = [future EXCEPT ![d] = "absent"]
  BY DEF TypeOK, Forgets
<1>2. Outcome(d)' = "none"
  BY <1>1 DEF Outcome
<1>3. [c \in Conns |-> Outcome(c)'] = [[c \in Conns |-> Outcome(c)] EXCEPT ![d] = "none"]
  BY <1>1, <1>2, OutcomeChanges
<1>4. /\ published' = published /\ answeredBy' = [answeredBy EXCEPT ![d] = 0]
      /\ Deferring' = Deferring
  BY DEF Forgets, Deferring
<1>5. CASE /\ writer'[d] # "open"
           /\ givenUp' = [givenUp EXCEPT ![d] = @ \cup {published[d]}]
  <2>1. [c \in Conns |-> Usable(c)'] = [[c \in Conns |-> Usable(c)] EXCEPT ![d] = FALSE]
    BY <1>5, UsableChanges DEF Forgets
  <2>2. Outcome(d) # "none"
    BY DEF Forgets, TypeOK, Outcome
  <2> QED
    BY <1>3, <1>4, <1>5, <2>1, <2>2 DEF Exchange!GiveUp, Usable, Outcome
<1>6. CASE future[d] # "waiting" /\ givenUp' = givenUp
  <2>1. [c \in Conns |-> Usable(c)'] \in
          {[c \in Conns |-> Usable(c)], [[c \in Conns |-> Usable(c)] EXCEPT ![d] = FALSE]}
    BY UsableChanges DEF Forgets
  <2>2. future[d] \in {"lost", "ok", "rejected"}
    BY <1>6 DEF Forgets, TypeOK
  <2>3. Outcome(d) \in {"answered", "failed"}
    BY <2>2, Outcomes
  <2> QED
    BY <1>3, <1>4, <1>6, <2>1, <2>3 DEF Exchange!Take, Usable, Outcome
<1> QED
  BY <1>5, <1>6 DEF Forgets

\* A step that RequestReply cannot see leaves its variables alone.
LEMMA UnseenStutters ==
  ASSUME TypeOK, TypeOK', Unseen, model' = model PROVE UNCHANGED Exchange!vars
<1>1. [c \in Conns |-> Usable(c)'] = [c \in Conns |-> Usable(c)]
  BY DEF Unseen, Usable
<1>2. Deferring' = Deferring
  BY DEF Deferring
<1> QED
  BY <1>1, <1>2 DEF Unseen, Usable, Exchange!vars

\* CancelledError inside request() is unseen or makes the connection forget.
LEMMA CancelEffect ==
  ASSUME TypeOK, RequestInv, ReplyPending, NEW t \in Tasks, CancelRequest(t),
         published' = published
  PROVE  Effect
<1> DEFINE c == Link(t)
<1>1. CASE CancelInReply(t)
  <2>1. c \in Conns /\ future[c] # "absent"
    BY <1>1 DEF CancelInReply, ReplyPending, TypeOK, Link
  <2>2. /\ ClearPending(c) /\ writer' = [writer EXCEPT ![c] = IF @ = "open" THEN "closing" ELSE @]
        /\ givenUp' = [givenUp EXCEPT ![c] = @ \cup {published[c]}]
    BY <1>1 DEF CancelInReply, Abandon
  <2>3. OthersKeep(c) /\ writer'[c] # "open"
    BY <2>1, <2>2 DEF OthersKeep, TypeOK
  <2> QED
    BY <2>1, <2>2, <2>3 DEF Effect, Forgets, ClearPending
<1>2. CASE CancelInGrace(t) \/ CancelInQueue(t)
  <2>1. UNCHANGED <<writer, future, givenUp, answeredBy>>
    BY <1>2 DEF CancelInGrace, CancelInQueue, pendingVars
  <2> QED
    BY <2>1 DEF Effect, Unseen
<1> QED
  BY <1>1, <1>2 DEF CancelRequest

\* A poller that gives up closes its own connection at most.
LEMMA PollerClosesOwn ==
  ASSUME TypeOK, NEW t \in Tasks, Link(t) \in Conns, writer' = PollerCloses(t)
  PROVE  /\ OthersKeep(Link(t))
         /\ writer' = writer \/ writer'[Link(t)] # "open"
<1>1. CASE t \in Conns /\ writer[t] = "open"
  <2>1. writer' = [writer EXCEPT ![t] = "closing"] /\ Link(t) = t
    BY <1>1 DEF PollerCloses, Link
  <2> QED
    BY <1>1, <2>1 DEF OthersKeep, TypeOK
<1>2. CASE ~(t \in Conns /\ writer[t] = "open")
  <2>1. writer' = writer
    BY <1>2 DEF PollerCloses
  <2> QED
    BY <2>1 DEF OthersKeep
<1> QED
  BY <1>1, <1>2

\* Every step of the endpoint has one of these effects.
LEMMA NextEffect == CurrentInv /\ RequestInv /\ ReplyPending /\ [Next]_vars => Effect
<1> SUFFICES ASSUME CurrentInv, RequestInv, ReplyPending, [Next]_vars PROVE Effect
  OBVIOUS
<1>0. TypeOK
  BY DEF CurrentInv
<1>1. ASSUME NEW c \in Conns, ConnectionStep(c) PROVE Effect
  <2>1. CASE Accept(c) \/ Connect(c) \/ RunEnds(c) \/ Report(c) \/ BeginTakeover(c)
             \/ FinishCleanup(c) \/ Subscribe(c) \/ FinishTakeover(c) \/ PollTurn(c)
    <3>1. UNCHANGED <<writer, future, published, givenUp, answeredBy>>
      BY <2>1 DEF Accept, Connect, RunEnds, Report, Heard, BeginTakeover, FinishCleanup, Subscribe,
                  FinishTakeover, BecomeCurrent, PollTurn, reqVars, connVars, pendingVars
    <3> QED
      BY <3>1 DEF Effect, Unseen
  <2>2. ASSUME NEW r \in unanswered[c], NEW success \in BOOLEAN, Reply(c, r, success)
        PROVE  Effect
    <3>1. UNCHANGED <<writer, published, givenUp>>
      BY <2>2 DEF Reply
    <3>2. CASE UNCHANGED <<future, answeredBy>>
      BY <3>1, <3>2 DEF Effect, Unseen
    <3>3. CASE Settles(c, r) /\ (success \/ r.cmd # Status)
      <4>1. /\ future' = [future EXCEPT ![c] = IF success THEN "ok" ELSE "rejected"]
            /\ answeredBy' = [answeredBy EXCEPT ![c] = r.id]
            /\ future[c] = "waiting"
        BY <2>2, <3>3 DEF Reply, Settles
      <4>2. r.id \in Exchange!Answers(c)
        <5>1. r.id \in Nat /\ r.id <= published[c] /\ published[c] \in Nat
          BY <1>0 DEF TypeOK, Requests, RequestInv, OneUnanswered
        <5>2. givenUp[c] = {}
          BY <4>1 DEF RequestInv, GivenUpCloses
        <5>3. ~Deferring => r.id = published[c]
          BY DEF RequestInv, OneUnanswered
        <5> QED
          BY <5>1, <5>2, <5>3 DEF Exchange!Answers
      <4>3. Hears(c)
        BY <3>1, <4>1, <4>2 DEF Hears
      <4> QED
        BY <4>3 DEF Effect
    <3> QED
      BY <2>2, <3>2, <3>3 DEF Reply
  <2>3. CASE CloseWriter(c)
    <3> DEFINE k == Closes(c)
    <3>1. k \in Conns
      BY <2>3 DEF Closes, CurrentInv, Subscribing
    <3>2. /\ future' = [future EXCEPT ![k] = IF @ = "waiting" THEN "lost" ELSE @]
          /\ writer' = [writer EXCEPT ![k] = IF @ = "open" THEN "closing" ELSE @]
          /\ UNCHANGED <<published, givenUp, answeredBy>>
      BY <2>3 DEF CloseWriter
    <3>3. OthersKeep(k) /\ writer'[k] # "open"
      BY <1>0, <3>1, <3>2 DEF OthersKeep, TypeOK
    <3>4. \/ UNCHANGED future
          \/ future[k] = "waiting" /\ future' = [future EXCEPT ![k] = "lost"]
      BY <1>0, <3>1, <3>2 DEF TypeOK
    <3>5. Falls(k)
      BY <3>2, <3>3, <3>4 DEF Falls
    <3> QED
      BY <3>1, <3>5 DEF Effect
  <2>4. CASE CancelPollerDelivered(c)
    <3>1. published' = published
      BY <2>4 DEF CancelPollerDelivered
    <3>2. CASE CancelRequest(c)
      BY <1>0, <3>1, <3>2, CancelEffect
    <3>3. CASE UNCHANGED <<lock, writer, givenUp, pendingVars>>
      BY <3>1, <3>3 DEF Effect, Unseen, pendingVars
    <3> QED
      BY <2>4, <3>2, <3>3 DEF CancelPollerDelivered
  <2>5. CASE FullReport(c)
    <3>1. /\ UNCHANGED <<writer, published, givenUp>> /\ future[c] = "waiting"
          /\ future' = [future EXCEPT ![c] = "ok"]
          /\ answeredBy' = [answeredBy EXCEPT ![c] = 0]
      BY <2>5 DEF FullReport, Heard
    <3>2. 0 \in Exchange!Answers(c)
      <4>1. Deferring /\ givenUp[c] = {} /\ published[c] \in Nat
        BY <1>0, <2>5, <3>1 DEF FullReport, RequestInv, GivenUpCloses, TypeOK
      <4> QED
        BY <4>1 DEF Exchange!Answers
    <3>3. Hears(c)
      BY <3>1, <3>2 DEF Hears
    <3> QED
      BY <3>3 DEF Effect
  <2> QED
    BY <1>1, <2>1, <2>2, <2>3, <2>4, <2>5 DEF ConnectionStep
<1>2. ASSUME NEW t \in Tasks, RequestStep(t) PROVE Effect
  <2> DEFINE c == Link(t)
  <2>0. task[t] # "idle" => c \in Conns
    BY <1>0 DEF TypeOK, Link
  <2>1. ASSUME NEW cmd \in Commands, AcquireAndSend(t, cmd) \/ WakeAndSend(t, cmd)
        PROVE  Effect
    <3>1. /\ Publish(t, c, cmd) /\ writer[c] = "open"
          /\ task[t] \in {"lock", "grace"} /\ (task[t] = "grace" \/ HoldsLock(t))
      BY <2>1 DEF AcquireAndSend, WakeAndSend, IsClosing
    <3>2. c \in Conns /\ lock[c] # <<>> /\ lock[c][1] = t
      BY <1>0, <3>1, Holder
    <3>3. future[c] = "absent"
      BY <3>1, <3>2 DEF RequestInv, PendingOwned
    <3>4. Sends(c)
      BY <3>1, <3>3 DEF Sends, Publish, connVars
    <3> QED
      BY <3>2, <3>4 DEF Effect
  <2>2. CASE AcquireAndSleep(t)
    <3>1. UNCHANGED <<writer, future, published, givenUp, answeredBy>>
      BY <2>2 DEF AcquireAndSleep, reqVars, connVars, pendingVars
    <3> QED
      BY <3>1 DEF Effect, Unseen
  <2>3. CASE AcquireUnavailable(t) \/ WakeUnavailable(t)
    <3>1. c \in Conns /\ writer' = PollerCloses(t) /\ UNCHANGED <<future, published, givenUp, answeredBy>>
      BY <2>0, <2>3 DEF AcquireUnavailable, WakeUnavailable, Unavailable, pendingVars
    <3>2. OthersKeep(c) /\ (writer' = writer \/ writer'[c] # "open")
      BY <1>0, <3>1, PollerClosesOwn
    <3>3. CASE writer' = writer
      BY <3>1, <3>3 DEF Effect, Unseen
    <3>4. CASE writer'[c] # "open"
      BY <3>1, <3>2, <3>4 DEF Effect, Falls
    <3> QED
      BY <3>2, <3>3, <3>4
  <2>4. CASE Resume(t)
    <3>1. c \in Conns /\ future[c] \notin {"waiting", "absent"}
      BY <2>0, <2>4 DEF Resume, ReplyPending
    <3>2. /\ UNCHANGED <<published, givenUp>>
          /\ ClearPending(c) /\ writer' \in {writer, PollerCloses(t)}
      BY <2>4 DEF Resume
    <3>3. OthersKeep(c)
      <4>1. CASE writer' = writer
        BY <4>1 DEF OthersKeep
      <4>2. CASE writer' = PollerCloses(t)
        BY <1>0, <3>1, <4>2, PollerClosesOwn
      <4> QED
        BY <3>2, <4>1, <4>2
    <3> QED
      BY <3>1, <3>2, <3>3 DEF Effect, Forgets, ClearPending
  <2>5. CASE Timeout(t)
    BY <1>0, <2>5, CancelEffect DEF Timeout, CancelRequest, CancelInReply
  <2> QED
    BY <1>2, <2>1, <2>2, <2>3, <2>4, <2>5 DEF RequestStep
<1>3. ASSUME NEW t \in Callers, CallerStep(t) PROVE Effect
  <2>1. CASE Capture(t) \/ EndControl(t) \/ Request(t)
    <3>1. UNCHANGED <<writer, future, published, givenUp, answeredBy>>
      BY <2>1 DEF Capture, EndControl, Request, reqVars, connVars, pendingVars
    <3> QED
      BY <3>1 DEF Effect, Unseen
  <2>2. CASE CancelCaller(t)
    BY <1>0, <2>2, CancelEffect DEF CancelCaller
  <2> QED
    BY <1>3, <2>1, <2>2 DEF CallerStep
<1>4. ASSUME NEW c \in Conns, Environment(c) PROVE Effect
  <2>1. CASE GraceElapses(c)
    BY <2>1 DEF GraceElapses, Effect, Unseen, connVars, pendingVars
  <2>2. CASE Drop(c)
    <3>1. writer' = [writer EXCEPT ![c] = "closing"] /\ UNCHANGED <<future, published, givenUp, answeredBy>>
      BY <2>2 DEF Drop, reqVars, pendingVars
    <3>2. OthersKeep(c) /\ writer'[c] # "open"
      BY <1>0, <3>1 DEF OthersKeep, TypeOK
    <3> QED
      BY <3>1, <3>2 DEF Effect, Falls
  <2>3. CASE TransportLost(c)
    <3>1. /\ writer[c] # "open" /\ writer' = [writer EXCEPT ![c] = "lost"]
          /\ UNCHANGED <<future, published, givenUp, answeredBy>>
      BY <2>3 DEF TransportLost, reqVars, pendingVars
    <3>2. \A d \in Conns : writer'[d] = "open" <=> writer[d] = "open"
      BY <1>0, <3>1 DEF TypeOK
    <3> QED
      BY <3>1, <3>2 DEF Effect, Unseen
  <2> QED
    BY <1>4, <2>1, <2>2, <2>3 DEF Environment
<1>5. CASE UNCHANGED vars
  BY <1>5 DEF Effect, Unseen, vars, connVars, reqVars, pendingVars
<1> QED
  BY <1>1, <1>2, <1>3, <1>4, <1>5 DEF Next

\* The endpoint starts as RequestReply does.
LEMMA InitImplements == Init => Exchange!Init
<1> SUFFICES ASSUME Init PROVE Exchange!Init
  OBVIOUS
<1>1. [c \in Conns |-> Outcome(c)] = [c \in Conns |-> "none"]
  BY DEF Init, Outcome
<1>2. [c \in Conns |-> Usable(c)] = [c \in Conns |-> TRUE]
  BY DEF Init, Usable
<1>3. Deferring \in BOOLEAN
  BY DEF Deferring
<1> QED
  BY <1>1, <1>2, <1>3 DEF Init, Outcome, Usable, Exchange!Init

\* Each of its steps is a step of RequestReply or leaves what it sees alone.
LEMMA NextImplements ==
  CurrentInv /\ RequestInv /\ ReplyPending /\ [Next]_vars => [Exchange!Next]_(Exchange!vars)
<1> SUFFICES ASSUME CurrentInv, RequestInv, ReplyPending, [Next]_vars
             PROVE  Exchange!Next \/ UNCHANGED Exchange!vars
  OBVIOUS
<1>0. TypeOK /\ TypeOK' /\ model' = model
  BY NextType, ModelFixed DEF CurrentInv
<1>1. Effect
  BY NextEffect
<1>2. CASE Unseen
  BY <1>0, <1>2, UnseenStutters
<1>3. ASSUME NEW d \in Conns, Sends(d) \/ Hears(d) \/ Falls(d) \/ Forgets(d)
      PROVE  Exchange!Next
  BY <1>0, <1>3, SendsAsks, HearsAnswers, FallsFails, ForgetsEnds DEF Exchange!Next
<1> QED
  BY <1>1, <1>2, <1>3 DEF Effect

\* Every behaviour of the endpoint is, seen by the callers of request(), one of
\* RequestReply: an outcome belongs to its request (or answers are deferred, and it
\* belongs to none that was given up), and nothing is asked on a connection where
\* a request was given up.
THEOREM EndpointImplementsExchange == Spec => ImplementsRequestReply
  BY InitImplements, NextImplements, CurrentInvariant, RequestInvariant, PendingInvariant, PTL
     DEF Spec, ImplementsRequestReply, Exchange!Spec

-----------------------------------------------------------------------------
(* The poller watches its connection. *)

\* close() has begun on c and waits for c's poller to end.
BeingClosed(c) == \E x \in Conns : phase[x] \in {"takeover", "cleanup"} /\ Closes(x) = c

\* A poller is cancelled only by a close() that still waits for it.
CancelUnderWay == \A c \in cancelled : task[c] \notin {"none", "ended"} /\ BeingClosed(c)

WatchInv == PollerWatches /\ CancelUnderWay

\* c's poller has nothing more to do on c, which is open all the same.
Unwatched(c) == subscribed[c] /\ writer[c] = "open" /\ task[c] \in {"none", "ended"}

\* What a step must respect to keep WatchInv.
LEMMA WatchFrame ==
  ASSUME TypeOK, TypeOK', WatchInv,
         \A c \in Conns : BeingClosed(c) => BeingClosed(c)' \/ (c \notin cancelled' /\ ~Unwatched(c)'),
         \A c \in cancelled' : task'[c] \notin {"none", "ended"} /\ (c \in cancelled \/ BeingClosed(c)'),
         \A c \in Conns : Unwatched(c)' => Unwatched(c) \/ BeingClosed(c) \/ BeingClosed(c)'
  PROVE  WatchInv'
<1>1. CancelUnderWay'
  <2> SUFFICES ASSUME NEW c \in cancelled' PROVE task'[c] \notin {"none", "ended"} /\ BeingClosed(c)'
    BY DEF CancelUnderWay
  <2>1. c \in Conns
    BY DEF TypeOK
  <2> QED
    BY <2>1 DEF WatchInv, CancelUnderWay
<1>2. PollerWatches'
  <2> SUFFICES ASSUME NEW c \in Conns, Unwatched(c)' PROVE BeingClosed(c)'
    BY DEF PollerWatches, Unwatched, BeingClosed
  <2>1. Unwatched(c) => BeingClosed(c)
    BY DEF WatchInv, PollerWatches, Unwatched, BeingClosed
  <2> QED
    BY <2>1
<1> QED
  BY <1>1, <1>2 DEF WatchInv

\* A close() goes on while the connection task that runs it stays where it is.
LEMMA ClosePersists ==
  ASSUME TypeOK, NEW c \in Conns,
         \/ UNCHANGED phase
         \/ phase[c] \notin {"takeover", "cleanup"} /\ \E p : phase' = [phase EXCEPT ![c] = p],
         \A x \in Conns \ {c} : old'[x] = old[x],
         phase[c] \in {"takeover", "cleanup"} => old'[c] = old[c]
  PROVE  \A d \in Conns : BeingClosed(d) => BeingClosed(d)'
<1> SUFFICES ASSUME NEW d \in Conns, NEW x \in Conns,
                    phase[x] \in {"takeover", "cleanup"}, Closes(x) = d
             PROVE  BeingClosed(d)'
  BY DEF BeingClosed
<1>1. phase'[x] = phase[x] /\ old'[x] = old[x]
  BY DEF TypeOK
<1>2. Closes(x)' = d
  BY <1>1 DEF Closes
<1> QED
  BY <1>1, <1>2 DEF BeingClosed

\* A step that only handles a packet, or ends run(), and may begin to close c.
LEMMA ReadingStep ==
  ASSUME TypeOK, TypeOK', WatchInv, NEW c \in Conns, phase[c] \notin {"takeover", "cleanup"},
         NEW p, phase' = [phase EXCEPT ![c] = p], UNCHANGED <<old, task, writer, subscribed>>,
         cancelled' = cancelled \/ (p = "cleanup" /\ cancelled' = CancelPoller(c))
  PROVE  WatchInv'
<1>1. \A d \in Conns : BeingClosed(d) => BeingClosed(d)'
  BY ClosePersists
<1>2. \A d \in cancelled' : task'[d] \notin {"none", "ended"} /\ (d \in cancelled \/ BeingClosed(d)')
  <2>1. CASE cancelled' = cancelled
    BY <2>1 DEF WatchInv, CancelUnderWay
  <2>2. CASE p = "cleanup" /\ cancelled' = CancelPoller(c)
    <3>1. BeingClosed(c)'
      BY <2>2 DEF BeingClosed, Closes, TypeOK
    <3>2. \A d \in cancelled' : d \in cancelled \/ (d = c /\ task[c] \notin {"none", "ended"})
      BY <2>2 DEF CancelPoller
    <3> QED
      BY <3>1, <3>2 DEF WatchInv, CancelUnderWay
  <2> QED
    BY <2>1, <2>2
<1>3. \A d \in Conns : Unwatched(d)' => Unwatched(d)
  BY DEF Unwatched
<1> QED
  BY <1>1, <1>2, <1>3, WatchFrame

\* A step of task t that is not being cancelled: if it ends a poller it closes
\* the connection.
LEMMA TaskStep ==
  ASSUME TypeOK, TypeOK', WatchInv, NEW t \in Tasks, t \notin cancelled,
         NEW s, task' = [task EXCEPT ![t] = s], UNCHANGED <<phase, old, subscribed, cancelled>>,
         \A d \in Conns : writer'[d] = "open" => writer[d] = "open",
         t \in Conns => s # "none" /\ (s = "ended" => writer'[t] # "open")
  PROVE  WatchInv'
<1>1. \A d \in Conns : BeingClosed(d) => BeingClosed(d)'
  BY DEF BeingClosed, Closes
<1>2. \A d \in Conns : d # t => task'[d] = task[d]
  BY DEF TypeOK
<1>3. \A d \in cancelled' : task'[d] \notin {"none", "ended"} /\ d \in cancelled
  BY <1>2 DEF WatchInv, CancelUnderWay, TypeOK
<1>4. ASSUME NEW d \in Conns, Unwatched(d)' PROVE Unwatched(d)
  <2>1. CASE d = t
    BY <1>4, <2>1 DEF Unwatched, TypeOK
  <2>2. CASE d # t
    BY <1>2, <1>4, <2>2 DEF Unwatched
  <2> QED
    BY <2>1, <2>2
<1> QED
  BY <1>1, <1>3, <1>4, WatchFrame

\* A cancelled request never opens a transport again.
LEMMA CancelCloses ==
  ASSUME TypeOK, NEW t \in Tasks, CancelRequest(t), on' = on
  PROVE  \A d \in Conns : writer'[d] = "open" => writer[d] = "open"
  BY DEF CancelRequest, CancelInReply, CancelInGrace, CancelInQueue, Abandon, TypeOK

\* Every action keeps WatchInv.
LEMMA NextWatch == CurrentInv /\ WatchInv /\ [Next]_vars => WatchInv'
<1> SUFFICES ASSUME CurrentInv, WatchInv, [Next]_vars PROVE WatchInv'
  OBVIOUS
<1>0. TypeOK /\ TypeOK'
  BY NextType DEF CurrentInv
<1>1. ASSUME NEW c \in Conns, ConnectionStep(c) PROVE WatchInv'
  <2>1. CASE Accept(c)
    BY <1>0, <2>1, ReadingStep DEF Accept, taskVars
  <2>2. CASE Connect(c)
    BY <1>0, <2>2, ReadingStep DEF Connect, Reading, AfterPacket
  <2>3. CASE Report(c) \/ FullReport(c)
    BY <1>0, <2>3, ReadingStep DEF Report, FullReport, Heard, Reading, AfterPacket
  <2>4. CASE RunEnds(c)
    BY <1>0, <2>4, ReadingStep DEF RunEnds
  <2>5. ASSUME NEW r \in unanswered[c], NEW success \in BOOLEAN, Reply(c, r, success)
        PROVE  WatchInv'
    BY <1>0, <2>5, ReadingStep DEF Reply, Reading, AfterPacket
  <2>6. CASE FinishCleanup(c)
    BY <1>0, <2>6, ReadingStep DEF FinishCleanup, taskVars
  <2>7. CASE Subscribe(c) \/ FinishTakeover(c)
    <3>1. /\ BecomeCurrent(c) /\ phase[c] \notin {"takeover", "cleanup"}
      BY <2>7 DEF Subscribe, FinishTakeover, Reading
    <3>2. \A d \in Conns : BeingClosed(d) => BeingClosed(d)'
      BY <1>0, <3>1, ClosePersists DEF BecomeCurrent
    <3>3. ASSUME NEW d \in cancelled'
          PROVE  task'[d] \notin {"none", "ended"} /\ (d \in cancelled \/ BeingClosed(d)')
      <4>1. d \in cancelled \/ (d = c /\ phase'[c] = "cleanup")
        BY <1>0, <3>1, <3>3 DEF BecomeCurrent, AfterPacket, TypeOK
      <4>2. d = c => task'[d] = "pause"
        BY <1>0, <3>1 DEF BecomeCurrent, TypeOK
      <4>3. d # c => task'[d] = task[d] /\ d \in cancelled
        BY <1>0, <3>1, <4>1 DEF BecomeCurrent, TypeOK
      <4>4. phase'[c] = "cleanup" => BeingClosed(c)'
        BY DEF BeingClosed, Closes
      <4> QED
        BY <4>1, <4>2, <4>3, <4>4 DEF WatchInv, CancelUnderWay
    <3>4. ASSUME NEW d \in Conns, Unwatched(d)' PROVE Unwatched(d)
      <4>1. d # c
        BY <1>0, <3>1, <3>4 DEF BecomeCurrent, Unwatched, TypeOK
      <4>2. subscribed'[d] = subscribed[d] /\ task'[d] = task[d] /\ writer' = writer
        BY <1>0, <3>1, <4>1 DEF BecomeCurrent, TypeOK
      <4> QED
        BY <3>4, <4>2 DEF Unwatched
    <3> QED
      BY <1>0, <3>2, <3>3, <3>4, WatchFrame
  <2>8. CASE BeginTakeover(c)
    <3>1. PICK k \in Conns :
          /\ k = connection /\ phase[c] = "reading"
          /\ phase' = [phase EXCEPT ![c] = "takeover"] /\ old' = [old EXCEPT ![c] = k]
          /\ cancelled' = CancelPoller(k) /\ UNCHANGED <<task, writer, subscribed>>
      BY <1>0, <2>8 DEF BeginTakeover, Reading, TypeOK
    <3>2. \A d \in Conns : BeingClosed(d) => BeingClosed(d)'
      <4>1. \A x \in Conns \ {c} : old'[x] = old[x]
        BY <1>0, <3>1 DEF TypeOK
      <4> QED
        BY <1>0, <3>1, <4>1, ClosePersists
    <3>3. BeingClosed(k)'
      <4>1. phase'[c] = "takeover" /\ old'[c] = k
        BY <1>0, <3>1 DEF TypeOK
      <4> QED
        BY <4>1 DEF BeingClosed, Closes
    <3>4. \A d \in cancelled' : d \in cancelled \/ (d = k /\ task[k] \notin {"none", "ended"})
      BY <3>1 DEF CancelPoller
    <3>5. \A d \in Conns : Unwatched(d)' => Unwatched(d)
      BY <3>1 DEF Unwatched
    <3> QED
      BY <1>0, <3>1, <3>2, <3>3, <3>4, <3>5, WatchFrame DEF WatchInv, CancelUnderWay
  <2>9. CASE CloseWriter(c)
    <3>1. PICK k \in Conns : k = Closes(c) /\ task[k] \in {"none", "ended"}
                             /\ phase[c] \in {"takeover", "cleanup"}
      BY <2>9 DEF CloseWriter, Closes, CurrentInv, Subscribing
    <3>2. /\ writer' = [writer EXCEPT ![k] = IF @ = "open" THEN "closing" ELSE @]
          /\ UNCHANGED <<old, subscribed, task, cancelled>>
          /\ \A x \in Conns \ {c} : phase'[x] = phase[x]
      BY <1>0, <2>9, <3>1 DEF CloseWriter, taskVars, TypeOK
    <3>3. k \notin cancelled' /\ ~Unwatched(k)'
      BY <1>0, <3>1, <3>2 DEF WatchInv, CancelUnderWay, Unwatched, TypeOK
    <3>4. ASSUME NEW d \in Conns, BeingClosed(d), d # k PROVE BeingClosed(d)'
      <4>1. PICK x \in Conns : phase[x] \in {"takeover", "cleanup"} /\ Closes(x) = d
        BY <3>4 DEF BeingClosed
      <4>2. x # c
        BY <3>1, <3>4, <4>1
      <4>3. phase'[x] = phase[x] /\ Closes(x)' = d
        BY <3>2, <4>1, <4>2 DEF Closes
      <4> QED
        BY <4>1, <4>3 DEF BeingClosed
    <3>5. \A d \in Conns : Unwatched(d)' => Unwatched(d)
      BY <1>0, <3>2 DEF Unwatched, TypeOK
    <3>6. \A d \in cancelled' : task'[d] \notin {"none", "ended"} /\ d \in cancelled
      BY <3>2 DEF WatchInv, CancelUnderWay
    <3> QED
      BY <1>0, <3>3, <3>4, <3>5, <3>6, WatchFrame
  <2>10. CASE PollTurn(c)
    <3>1. c \notin cancelled /\ UNCHANGED <<connVars, cancelled>>
      BY <2>10 DEF PollTurn
    <3>2. PICK s \in {"ended", "lock"} : task' = [task EXCEPT ![c] = s] /\ (s = "ended" => IsClosing(c))
      BY <2>10 DEF PollTurn
    <3> QED
      BY <1>0, <3>1, <3>2, TaskStep DEF connVars, IsClosing
  <2>11. CASE CancelPollerDelivered(c)
    <3>1. /\ c \in cancelled /\ cancelled' = cancelled \ {c} /\ UNCHANGED <<phase, old, subscribed, on>>
      BY <2>11 DEF CancelPollerDelivered
    <3>2. task' = [task EXCEPT ![c] = "ended"]
      BY <2>11, TasksAssumption DEF CancelPollerDelivered, CancelRequest, CancelInReply, CancelInGrace,
                   CancelInQueue, Abandon, AfterRequest
    <3>3. \A d \in Conns : writer'[d] = "open" => writer[d] = "open"
      <4>1. CASE CancelRequest(c)
        BY <1>0, <3>1, <4>1, CancelCloses
      <4>2. CASE UNCHANGED writer
        BY <4>2
      <4> QED
        BY <2>11, <4>1, <4>2 DEF CancelPollerDelivered
    <3>4. \A d \in Conns : BeingClosed(d) => BeingClosed(d)'
      BY <3>1 DEF BeingClosed, Closes
    <3>5. \A d \in Conns : d # c => task'[d] = task[d]
      BY <1>0, <3>2 DEF TypeOK
    <3>6. \A d \in cancelled' : task'[d] \notin {"none", "ended"} /\ d \in cancelled
      BY <1>0, <3>1, <3>5 DEF WatchInv, CancelUnderWay, TypeOK
    <3>7. ASSUME NEW d \in Conns, Unwatched(d)' PROVE Unwatched(d) \/ BeingClosed(d)
      <4>1. CASE d = c
        BY <3>1, <4>1 DEF WatchInv, CancelUnderWay
      <4>2. CASE d # c
        BY <3>1, <3>3, <3>5, <3>7, <4>2 DEF Unwatched
      <4> QED
        BY <4>1, <4>2
    <3> QED
      BY <1>0, <3>4, <3>6, <3>7, WatchFrame
  <2> QED
    BY <1>1, <2>1, <2>2, <2>3, <2>4, <2>5, <2>6, <2>7, <2>8, <2>9, <2>10, <2>11 DEF ConnectionStep
<1>2. ASSUME NEW t \in Tasks, RequestStep(t) PROVE WatchInv'
  <2>1. t \notin cancelled /\ UNCHANGED <<phase, old, subscribed, cancelled, on>>
    BY <1>2 DEF RequestStep, AcquireAndSend, WakeAndSend, AcquireAndSleep, AcquireUnavailable,
                WakeUnavailable, Unavailable, Resume, Timeout, Publish, connVars, taskVars
  <2>2. ASSUME NEW cmd \in Commands, AcquireAndSend(t, cmd) \/ WakeAndSend(t, cmd)
        PROVE  WatchInv'
    <3>1. task' = [task EXCEPT ![t] = "reply"] /\ writer' = writer
      BY <2>2 DEF AcquireAndSend, WakeAndSend, Publish, connVars
    <3> QED
      BY <1>0, <2>1, <3>1, TaskStep
  <2>3. CASE AcquireAndSleep(t)
    <3>1. task' = [task EXCEPT ![t] = "grace"] /\ writer' = writer
      BY <2>3 DEF AcquireAndSleep, connVars
    <3> QED
      BY <1>0, <2>1, <3>1, TaskStep
  <2>4. CASE AcquireUnavailable(t) \/ WakeUnavailable(t)
    <3>1. task' = [task EXCEPT ![t] = AfterRequest(t, FALSE)] /\ writer' = PollerCloses(t)
      BY <2>4 DEF AcquireUnavailable, WakeUnavailable, Unavailable
    <3>2. \A d \in Conns : writer'[d] = "open" => writer[d] = "open"
      BY <1>0, <3>1 DEF PollerCloses, TypeOK
    <3>3. t \in Conns => writer'[t] # "open"
      BY <1>0, <3>1 DEF PollerCloses, TypeOK
    <3>4. AfterRequest(t, FALSE) # "none"
      BY DEF AfterRequest
    <3> QED
      BY <1>0, <2>1, <3>1, <3>2, <3>3, <3>4, TaskStep
  <2>5. CASE Resume(t)
    <3> DEFINE b == future[Link(t)] = "ok"
               s == AfterRequest(t, b)
    <3>1. task' = [task EXCEPT ![t] = s] /\ writer' = IF b THEN writer ELSE PollerCloses(t)
      BY <2>5 DEF Resume
    <3>2. \A d \in Conns : writer'[d] = "open" => writer[d] = "open"
      BY <1>0, <3>1 DEF PollerCloses, TypeOK
    <3>3. t \in Conns => s # "none" /\ (s = "ended" => writer'[t] # "open")
      BY <1>0, <3>1 DEF PollerCloses, AfterRequest, TypeOK
    <3> HIDE DEF s, b
    <3> QED
      BY <1>0, <2>1, <3>1, <3>2, <3>3, TaskStep
  <2>6. CASE Timeout(t)
    <3>1. /\ task' = [task EXCEPT ![t] = AfterRequest(t, FALSE)]
          /\ writer' = [writer EXCEPT ![Link(t)] = IF @ = "open" THEN "closing" ELSE @]
      BY <2>6 DEF Timeout, Abandon
    <3>2. \A d \in Conns : writer'[d] = "open" => writer[d] = "open"
      BY <1>0, <3>1 DEF TypeOK
    <3>3. t \in Conns => writer'[t] # "open"
      BY <1>0, <3>1 DEF Link, TypeOK
    <3>4. AfterRequest(t, FALSE) # "none"
      BY DEF AfterRequest
    <3> QED
      BY <1>0, <2>1, <3>1, <3>2, <3>3, <3>4, TaskStep
  <2> QED
    BY <1>2, <2>2, <2>3, <2>4, <2>5, <2>6 DEF RequestStep
<1>3. ASSUME NEW t \in Callers, CallerStep(t) PROVE WatchInv'
  <2>1. t \notin Conns /\ t \notin cancelled
    BY <1>0, TasksAssumption DEF TypeOK
  <2>2. UNCHANGED <<phase, old, subscribed, cancelled>>
    BY <1>3 DEF CallerStep, Capture, EndControl, Request, CancelCaller, connVars
  <2>3. CASE Capture(t) \/ EndControl(t)
    <3>1. UNCHANGED <<task, writer>>
      BY <2>3 DEF Capture, EndControl, connVars
    <3>2. task' = [task EXCEPT ![t] = task[t]]
      BY <1>0, <3>1 DEF TypeOK
    <3> QED
      BY <1>0, <2>1, <2>2, <3>1, <3>2, TaskStep
  <2>4. CASE Request(t)
    <3>1. task' = [task EXCEPT ![t] = "lock"] /\ writer' = writer
      BY <2>4 DEF Request, connVars
    <3> QED
      BY <1>0, <2>1, <2>2, <3>1, TaskStep
  <2>5. CASE CancelCaller(t)
    <3>1. CancelRequest(t) /\ on' = on
      BY <2>5 DEF CancelCaller
    <3>2. task' = [task EXCEPT ![t] = AfterRequest(t, FALSE)]
      BY <3>1 DEF CancelRequest, CancelInReply, CancelInGrace, CancelInQueue, Abandon
    <3>3. \A d \in Conns : writer'[d] = "open" => writer[d] = "open"
      BY <1>0, <3>1, CancelCloses
    <3> QED
      BY <1>0, <2>1, <2>2, <3>2, <3>3, TaskStep
  <2> QED
    BY <1>3, <2>3, <2>4, <2>5 DEF CallerStep
<1>4. ASSUME (\E c \in Conns : Environment(c)) \/ UNCHANGED vars PROVE WatchInv'
  <2>1. UNCHANGED <<phase, old, subscribed, cancelled, task>>
    BY <1>4 DEF Environment, GraceElapses, Drop, TransportLost, vars, connVars, taskVars
  <2>2. \A d \in Conns : writer'[d] = "open" => writer[d] = "open"
    <3>1. UNCHANGED writer \/ \E c \in Conns, w \in {"closing", "lost"} : writer' = [writer EXCEPT ![c] = w]
      BY <1>4 DEF Environment, GraceElapses, Drop, TransportLost, vars, connVars
    <3> QED
      BY <1>0, <3>1 DEF TypeOK
  <2>3. \A d \in Conns : BeingClosed(d) => BeingClosed(d)'
    BY <2>1 DEF BeingClosed, Closes
  <2>4. \A d \in Conns : Unwatched(d)' => Unwatched(d)
    BY <2>1, <2>2 DEF Unwatched
  <2> QED
    BY <1>0, <2>1, <2>3, <2>4, WatchFrame DEF WatchInv, CancelUnderWay
<1> QED
  BY <1>1, <1>2, <1>3, <1>4 DEF Next

\* An open subscribed connection has a live poller, or is being closed.
THEOREM PollersWatch == Spec => []PollerWatches
<1>1. Init => WatchInv
  BY DEF Init, WatchInv, PollerWatches, CancelUnderWay
<1>2. WatchInv => PollerWatches
  BY DEF WatchInv
<1> QED
  BY <1>1, <1>2, CurrentInvariant, NextWatch, PTL DEF Spec
=============================================================================
