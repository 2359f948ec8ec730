----------------------------- MODULE NativeLink -----------------------------
(***************************************************************************)
(* The native-MQTT endpoint of one power station: class LocalMqttServer    *)
(* and its _Connection objects (python/solix_link/mqtt_intercept.py).      *)
(*                                                                         *)
(* Three kinds of asyncio task share the state below.  Between two awaits  *)
(* a task runs alone, so an action is the code from one await to the next. *)
(*   - the connection task of c (_accept and run): phase[c];               *)
(*   - the poller of c (poll): task[c];                                    *)
(*   - callers, tasks that captured server.connection and call its         *)
(*     request() (the controls and the readiness check): task[t], on[t].   *)
(*                                                                         *)
(* The station answers a published request at most once and may never      *)
(* answer; bytes in flight vanish with the transport. An original C1000    *)
(* may defer the answer to a status request into a full report 0405, which *)
(* it also sends unasked: there a full report settles a status request.    *)
(* Its settings are sent under the same lock, but no reply to them is      *)
(* awaited (module NativeSettings): its requests are all status requests.  *)
(***************************************************************************)
EXTENDS Integers, Sequences, FiniteSets, SequencesExt

CONSTANTS
  Conns,        \* connection objects, one per accepted TLS connection
  Callers,      \* tasks other than pollers that issue requests
  None,         \* Python's None
  Commands,     \* opcodes a request can carry
  Status,       \* the opcode of the poller's status request (0040 / 0100)
  Models,       \* the models of station considered
  MaxClients,   \* the limit in _accept (4 in the code)
  MaxRequests   \* bound: requests issued on one connection

ASSUME NoneAssumption  == None \notin Conns \cup Callers \cup Commands
ASSUME TasksAssumption == Conns \cap Callers = {}
ASSUME StatusAssumption == Status \in Commands
ASSUME ModelsAssumption == Models \subseteq {"c1000", "c1000_gen2", "c2000_gen2"}
ASSUME BoundAssumption == MaxRequests \in Nat /\ MaxClients \in Nat

VARIABLES
  model,        \* server.config.model, which never changes
  phase,        \* [Conns -> ...] where the connection task of c is
  old,          \* [Conns -> Conns \cup {None}] the connection run() took over
  writer,       \* [Conns -> ...] the transport: open, closing (is_closing), lost
  connected,    \* [Conns -> BOOLEAN] CONNECT was accepted
  subscribed,   \* [Conns -> BOOLEAN]
  ready,        \* [Conns -> BOOLEAN] _command_ready_at has passed
  lock,         \* [Conns -> Seq(Tasks)] asyncio.Lock: the head holds it, FIFO
  future,       \* [Conns -> ...] pending[1], or "absent" when pending is None
  opcode,       \* [Conns -> Commands \cup {None}] pending[0]
  cancelled,    \* pollers whose cancel() was called and not yet delivered
  task,         \* [Tasks -> ...] where a poller or a caller is
  on,           \* [Callers -> Conns \cup {None}] the connection it captured
  connection,   \* server.connection
  lastSeen,     \* server.last_seen: None, or the connection the telemetry came by
  unanswered,   \* [Conns -> set of requests the station may still answer]
  published,    \* [Conns -> Nat] requests published; the last one is pending
  answeredBy,   \* [Conns -> Nat] history: request whose reply set the future;
                \* 0 when there is none, or a report set it
  givenUp,      \* [Conns -> SUBSET Nat] history: requests that timed out or were
                \* cancelled while they waited for the reply
  raced         \* history: a takeover ended while another was in progress

pendingVars == <<future, opcode, answeredBy>>
connVars == <<phase, old, writer, connected, subscribed>>
reqVars  == <<ready, lock, published, givenUp, pendingVars>>
taskVars == <<cancelled, task, on>>
srvVars  == <<model, connection, lastSeen, raced>>
vars == <<connVars, reqVars, taskVars, srvVars, unanswered>>

Tasks == Conns \cup Callers

\* A poller works on its own connection, a caller on the one it captured.
Link(t) == IF t \in Conns THEN t ELSE on[t]

TakeoverPhases == {"takeover", "takeoverWait"}
CleanupPhases  == {"cleanup", "cleanupWait"}
Phases  == {"new", "reading", "gone"} \cup TakeoverPhases \cup CleanupPhases
Writers == {"open", "closing", "lost"}
Futures == {"absent", "waiting", "ok", "rejected", "lost"}
CallerStates == {"idle", "lock", "grace", "reply"}
PollerStates == {"none", "pause", "lock", "grace", "reply", "ended"}

Requests == [id : Nat, cmd : Commands]

\* _clients: the connections _accept has registered and not yet discarded.
Clients == {c \in Conns : phase[c] \notin {"new", "gone"}}

IsClosing(c) == writer[c] # "open"

\* Only commands.status() of an original C1000 has a response alias.
Deferring == model = "c1000"

\* The opcodes request() is called with by task t.
Opcodes(t) == IF t \in Conns \/ Deferring THEN {Status} ELSE Commands

-----------------------------------------------------------------------------
Init ==
  /\ model \in Models
  /\ phase = [c \in Conns |-> "new"]
  /\ old = [c \in Conns |-> None]
  /\ writer = [c \in Conns |-> "open"]
  /\ connected = [c \in Conns |-> FALSE]
  /\ subscribed = [c \in Conns |-> FALSE]
  /\ ready = [c \in Conns |-> FALSE]
  /\ lock = [c \in Conns |-> <<>>]
  /\ future = [c \in Conns |-> "absent"]
  /\ opcode = [c \in Conns |-> None]
  /\ cancelled = {}
  /\ task = [t \in Tasks |-> IF t \in Conns THEN "none" ELSE "idle"]
  /\ on = [t \in Callers |-> None]
  /\ connection = None
  /\ lastSeen = None
  /\ unanswered = [c \in Conns |-> {}]
  /\ published = [c \in Conns |-> 0]
  /\ answeredBy = [c \in Conns |-> 0]
  /\ givenUp = [c \in Conns |-> {}]
  /\ raced = FALSE

-----------------------------------------------------------------------------
(* The connection task. *)

\* run() tests is_closing() before every read, so a packet that was already
\* being read when the writer closed is still handled, and it is the last one.
AfterPacket(c) == IF IsClosing(c) THEN "cleanup" ELSE "reading"

\* A packet can be handled until the transport is gone.
Reading(c) == phase[c] = "reading" /\ writer[c] # "lost"

\* The part of close() before its first await: cancel the poller.
CancelPoller(k) ==
  IF task[k] \in {"none", "ended"} THEN cancelled ELSE cancelled \cup {k}

Accept(c) ==
  /\ phase[c] = "new"
  /\ Cardinality(Clients) < MaxClients
  /\ phase' = [phase EXCEPT ![c] = "reading"]
  /\ UNCHANGED <<old, writer, connected, subscribed, reqVars, taskVars, srvVars, unanswered>>

Connect(c) ==
  /\ Reading(c) /\ ~connected[c]
  /\ connected' = [connected EXCEPT ![c] = TRUE]
  /\ phase' = [phase EXCEPT ![c] = AfterPacket(c)]
  /\ cancelled' = IF IsClosing(c) THEN CancelPoller(c) ELSE cancelled
  /\ UNCHANGED <<old, writer, subscribed, reqVars, task, on, srvVars, unanswered>>

\* Mutant of BecomeCurrent: last_seen survives the change of connection.
BecomeCurrentKeepingFreshness(c) ==
  /\ subscribed' = [subscribed EXCEPT ![c] = TRUE]
  /\ ready' = [ready EXCEPT ![c] = model # "c1000_gen2"]
  /\ connection' = c
  /\ task' = [task EXCEPT ![c] = "pause"]
  /\ raced' = (raced \/ \E d \in Conns \ {c} : phase[d] \in TakeoverPhases)
  /\ phase' = [phase EXCEPT ![c] = AfterPacket(c)]
  /\ cancelled' = IF IsClosing(c) THEN cancelled \cup {c} ELSE cancelled
  /\ UNCHANGED <<old, writer, connected, lock, published, givenUp, pendingVars, on, model, lastSeen, unanswered>>

\* The end of the SUBSCRIBE branch: c becomes the server's connection.
BecomeCurrent(c) ==
  /\ subscribed' = [subscribed EXCEPT ![c] = TRUE]
  /\ ready' = [ready EXCEPT ![c] = model # "c1000_gen2"]
  /\ connection' = c
  /\ lastSeen' = None
  /\ task' = [task EXCEPT ![c] = "pause"]
  /\ raced' = (raced \/ \E d \in Conns \ {c} : phase[d] \in TakeoverPhases)
  /\ phase' = [phase EXCEPT ![c] = AfterPacket(c)]
  /\ cancelled' = IF IsClosing(c) THEN cancelled \cup {c} ELSE cancelled
  /\ UNCHANGED <<old, writer, connected, lock, published, givenUp, pendingVars, on, model, unanswered>>

\* Mutant of Subscribe: the old connection is replaced without being closed.
SubscribeBeside(c) ==
  /\ Reading(c) /\ connected[c] /\ ~subscribed[c]
  /\ BecomeCurrent(c)

\* SUBSCRIBE to the request topic when no other connection is current.
Subscribe(c) ==
  /\ Reading(c) /\ connected[c] /\ ~subscribed[c]
  /\ connection = None
  /\ BecomeCurrent(c)

\* SUBSCRIBE while another connection is current: enter old.close().
BeginTakeover(c) ==
  /\ Reading(c) /\ connected[c] /\ ~subscribed[c]
  /\ connection # None
  /\ old' = [old EXCEPT ![c] = connection]
  /\ phase' = [phase EXCEPT ![c] = "takeover"]
  /\ cancelled' = CancelPoller(connection)
  /\ UNCHANGED <<writer, connected, subscribed, reqVars, task, on, srvVars, unanswered>>

\* Telemetry arrives.
Heard(c) ==
  /\ Reading(c) /\ connected[c] /\ subscribed[c]
  /\ lastSeen' = c
  /\ phase' = [phase EXCEPT ![c] = AfterPacket(c)]
  /\ cancelled' = IF IsClosing(c) THEN CancelPoller(c) ELSE cancelled
  /\ UNCHANGED <<old, writer, connected, subscribed, ready, lock, published, givenUp, opcode,
                 task, on, model, connection, raced, unanswered>>

\* A report the station sends by itself, when it cannot be taken for an answer:
\* another model, an incomplete report, or no status request that waits.
Report(c) == Heard(c) /\ UNCHANGED <<future, answeredBy>>

\* A full report 0405 of an original C1000 settles a status request by the alias,
\* whether or not it is the deferred answer; that answer, direct or deferred, may
\* still come.
FullReport(c) ==
  /\ Heard(c) /\ Deferring
  /\ future[c] = "waiting" /\ opcode[c] = Status
  /\ future' = [future EXCEPT ![c] = "ok"]
  /\ answeredBy' = [answeredBy EXCEPT ![c] = 0]

\* Does the reply to request r settle the pending future?  The opcode decides; the
\* answer an original C1000 deferred is matched by the alias of the same opcode.
Settles(c, r) == future[c] = "waiting" /\ opcode[c] = r.cmd

\* The reply to request r, direct or deferred.  A status reply with an error code is a decode
\* error: it is dropped before it can reach the pending request.
Reply(c, r, success) ==
  /\ Reading(c) /\ connected[c] /\ subscribed[c]
  /\ r \in unanswered[c]
  /\ unanswered' = [unanswered EXCEPT ![c] = @ \ {r}]
  /\ lastSeen' = IF r.cmd = Status /\ success THEN c ELSE lastSeen
  /\ IF Settles(c, r) /\ (success \/ r.cmd # Status)
     THEN /\ future' = [future EXCEPT ![c] = IF success THEN "ok" ELSE "rejected"]
          /\ answeredBy' = [answeredBy EXCEPT ![c] = r.id]
     ELSE UNCHANGED <<future, answeredBy>>
  /\ phase' = [phase EXCEPT ![c] = AfterPacket(c)]
  /\ cancelled' = IF IsClosing(c) THEN CancelPoller(c) ELSE cancelled
  /\ UNCHANGED <<old, writer, connected, subscribed, ready, lock, opcode, published, givenUp,
                 task, on, model, connection, raced>>

\* run() returns or raises: DISCONNECT, a malformed or unexpected packet, end
\* of file, 120 s without a packet, or the loop sees is_closing().
RunEnds(c) ==
  /\ phase[c] = "reading"
  /\ phase' = [phase EXCEPT ![c] = "cleanup"]
  /\ cancelled' = CancelPoller(c)
  /\ UNCHANGED <<old, writer, connected, subscribed, reqVars, task, on, srvVars, unanswered>>

-----------------------------------------------------------------------------
(* _Connection.close() by the connection task x, of the connection it takes *)
(* over or, in the finally clause of _accept, of its own.                   *)

Closes(x) == IF phase[x] \in TakeoverPhases THEN old[x] ELSE x

\* After gather(poller): fail the pending request, close the writer, and wait.
CloseWriter(x) ==
  /\ phase[x] \in {"takeover", "cleanup"}
  /\ LET k == Closes(x) IN
       /\ task[k] \in {"none", "ended"}
       /\ future' = [future EXCEPT ![k] = IF @ = "waiting" THEN "lost" ELSE @]
       /\ writer' = [writer EXCEPT ![k] = IF @ = "open" THEN "closing" ELSE @]
  /\ phase' = [phase EXCEPT ![x] = IF @ = "takeover" THEN "takeoverWait" ELSE "cleanupWait"]
  /\ UNCHANGED <<old, connected, subscribed, ready, lock, opcode, published, givenUp, answeredBy,
                 taskVars, srvVars, unanswered>>

\* wait_closed() returned in the SUBSCRIBE branch.
FinishTakeover(x) ==
  /\ phase[x] = "takeoverWait"
  /\ writer[old[x]] = "lost"
  /\ BecomeCurrent(x)

\* wait_closed() returned in _accept: forget the connection.
FinishCleanup(x) ==
  /\ phase[x] = "cleanupWait"
  /\ writer[x] = "lost"
  /\ phase' = [phase EXCEPT ![x] = "gone"]
  /\ connection' = IF connection = x THEN None ELSE connection
  /\ UNCHANGED <<old, writer, connected, subscribed, reqVars, taskVars, model, lastSeen, raced, unanswered>>

-----------------------------------------------------------------------------
(* request(), shared by pollers and callers. *)

\* Where a task is after its request: a poller sleeps 5 s after a success and
\* ends after any failure; a caller goes on in its own code.
AfterRequest(t, success) ==
  IF t \in Callers THEN "idle" ELSE IF success THEN "pause" ELSE "ended"

\* poll() closes the writer when its request failed.
PollerCloses(t) ==
  IF t \in Conns /\ writer[t] = "open" THEN [writer EXCEPT ![t] = "closing"] ELSE writer

\* The i-th task leaves the queue of the lock; the holder is the first.
Leave(c, i) == lock' = [lock EXCEPT ![c] = RemoveAt(@, i)]
Release(c) == Leave(c, 1)

\* The finally clause of request(): pending = None.
ClearPending(c) ==
  /\ future' = [future EXCEPT ![c] = "absent"]
  /\ opcode' = [opcode EXCEPT ![c] = None]
  /\ answeredBy' = [answeredBy EXCEPT ![c] = 0]

HoldsLock(t) == LET c == Link(t) IN c # None /\ lock[c] # <<>> /\ Head(lock[c]) = t

\* Requests issued on c so far, those in the lock's queue included.
Budget(c) == published[c] + Len(lock[c]) < MaxRequests

\* A control operation captures self.connection once, at its beginning.
Capture(t) ==
  /\ task[t] = "idle" /\ on[t] = None
  /\ connection # None
  /\ on' = [on EXCEPT ![t] = connection]
  /\ UNCHANGED <<connVars, reqVars, cancelled, task, srvVars, unanswered>>

\* Mutant of EndControl: the control returns before its request has ended.
EndControlEarly(t) ==
  /\ on[t] # None
  /\ on' = [on EXCEPT ![t] = None]
  /\ UNCHANGED <<connVars, reqVars, cancelled, task, srvVars, unanswered>>

EndControl(t) ==
  /\ task[t] = "idle" /\ on[t] # None
  /\ on' = [on EXCEPT ![t] = None]
  /\ UNCHANGED <<connVars, reqVars, cancelled, task, srvVars, unanswered>>

\* The caller awaits connection.request(): queue for the connection's lock.
Request(t) ==
  /\ task[t] = "idle" /\ on[t] # None
  /\ Budget(on[t])
  /\ task' = [task EXCEPT ![t] = "lock"]
  /\ lock' = [lock EXCEPT ![on[t]] = Append(@, t)]
  /\ UNCHANGED <<connVars, ready, published, givenUp, pendingVars, cancelled, on, srvVars, unanswered>>

\* One turn of poll(): stop if the writer is closing, else request the status.
PollTurn(c) ==
  /\ task[c] = "pause" /\ c \notin cancelled
  /\ IF IsClosing(c)
     THEN task' = [task EXCEPT ![c] = "ended"] /\ UNCHANGED lock
     ELSE /\ Budget(c)
          /\ task' = [task EXCEPT ![c] = "lock"]
          /\ lock' = [lock EXCEPT ![c] = Append(@, c)]
  /\ UNCHANGED <<connVars, ready, published, givenUp, pendingVars, cancelled, on, srvVars, unanswered>>

\* Create the future, make it pending and send the request.
Publish(t, c, cmd) ==
  /\ cmd \in Opcodes(t)
  /\ published' = [published EXCEPT ![c] = @ + 1]
  /\ future' = [future EXCEPT ![c] = "waiting"]
  /\ opcode' = [opcode EXCEPT ![c] = cmd]
  /\ unanswered' = [unanswered EXCEPT ![c] = @ \cup {[id |-> published[c] + 1, cmd |-> cmd]}]
  /\ task' = [task EXCEPT ![t] = "reply"]
  /\ UNCHANGED <<connVars, ready, lock, answeredBy, givenUp, cancelled, on, srvVars>>

\* ConnectionError before anything was sent.
Unavailable(t, c) ==
  /\ Release(c)
  /\ task' = [task EXCEPT ![t] = AfterRequest(t, FALSE)]
  /\ writer' = PollerCloses(t)
  /\ UNCHANGED <<phase, old, connected, subscribed, ready, published, givenUp, pendingVars,
                 cancelled, on, srvVars, unanswered>>

\* The lock is acquired and the subscription is usable, after the delay or now.
AcquireAndSend(t, cmd) ==
  /\ task[t] = "lock" /\ HoldsLock(t) /\ t \notin cancelled
  /\ LET c == Link(t) IN
       /\ ~IsClosing(c) /\ subscribed[c] /\ ready[c]
       /\ Publish(t, c, cmd)

AcquireAndSleep(t) ==
  /\ task[t] = "lock" /\ HoldsLock(t) /\ t \notin cancelled
  /\ LET c == Link(t) IN ~IsClosing(c) /\ subscribed[c] /\ ~ready[c]
  /\ task' = [task EXCEPT ![t] = "grace"]
  /\ UNCHANGED <<connVars, reqVars, cancelled, on, srvVars, unanswered>>

AcquireUnavailable(t) ==
  /\ task[t] = "lock" /\ HoldsLock(t) /\ t \notin cancelled
  /\ LET c == Link(t) IN
       /\ IsClosing(c) \/ ~subscribed[c]
       /\ Unavailable(t, c)

\* Mutant of WakeAndSend: the connection is not tested after the delay.
WakeAndSendBlindly(t, cmd) ==
  /\ task[t] = "grace" /\ t \notin cancelled
  /\ LET c == Link(t) IN ready[c] /\ Publish(t, c, cmd)

\* The startup delay is over; the connection is tested again.
WakeAndSend(t, cmd) ==
  /\ task[t] = "grace" /\ t \notin cancelled
  /\ LET c == Link(t) IN
       /\ ready[c] /\ ~IsClosing(c) /\ subscribed[c]
       /\ Publish(t, c, cmd)

WakeUnavailable(t) ==
  /\ task[t] = "grace" /\ t \notin cancelled
  /\ LET c == Link(t) IN
       /\ ready[c]
       /\ IsClosing(c) \/ ~subscribed[c]
       /\ Unavailable(t, c)

\* wait_for(future) returns or raises the future's outcome; pending = None.
Resume(t) ==
  /\ task[t] = "reply" /\ t \notin cancelled
  /\ LET c == Link(t)
         success == future[c] = "ok"
     IN /\ future[c] # "waiting"
        /\ ClearPending(c)
        /\ Release(c)
        /\ task' = [task EXCEPT ![t] = AfterRequest(t, success)]
        /\ writer' = IF success THEN writer ELSE PollerCloses(t)
  /\ UNCHANGED <<phase, old, connected, subscribed, ready, published, givenUp,
                 cancelled, on, srvVars, unanswered>>

\* Mutant of Abandon: a request that timed out leaves its connection open.
AbandonOpen(t, c) ==
  /\ UNCHANGED writer
  /\ givenUp' = [givenUp EXCEPT ![c] = @ \cup {published[c]}]
  /\ ClearPending(c)
  /\ Release(c)
  /\ task' = [task EXCEPT ![t] = AfterRequest(t, FALSE)]

\* The except clause of request(): close the writer, then pending = None.
Abandon(t, c) ==
  /\ writer' = [writer EXCEPT ![c] = IF @ = "open" THEN "closing" ELSE @]
  /\ givenUp' = [givenUp EXCEPT ![c] = @ \cup {published[c]}]
  /\ ClearPending(c)
  /\ Release(c)
  /\ task' = [task EXCEPT ![t] = AfterRequest(t, FALSE)]

\* Mutant of Timeout: the reply is awaited for ever.
NoTimeout(t) == FALSE

\* wait_for gives up after 12 s, possibly just after the future was settled.
Timeout(t) ==
  /\ task[t] = "reply" /\ t \notin cancelled
  /\ Abandon(t, Link(t))
  /\ UNCHANGED <<phase, old, connected, subscribed, ready, published,
                 cancelled, on, srvVars, unanswered>>

\* Mutant of CancelInReply: only TimeoutError closes the writer.
CancelInReplyOpen(t) ==
  /\ task[t] = "reply"
  /\ givenUp' = [givenUp EXCEPT ![Link(t)] = @ \cup {published[Link(t)]}]
  /\ ClearPending(Link(t))
  /\ Release(Link(t))
  /\ task' = [task EXCEPT ![t] = AfterRequest(t, FALSE)]
  /\ UNCHANGED writer

\* CancelledError reaches task t inside request(): while it waits for the
\* reply, while it sleeps through the delay, or in the queue of the lock.
\* Only the first of these closes the connection.
CancelInReply(t) ==
  /\ task[t] = "reply"
  /\ Abandon(t, Link(t))

CancelInGrace(t) ==
  /\ task[t] = "grace"
  /\ Release(Link(t))
  /\ task' = [task EXCEPT ![t] = AfterRequest(t, FALSE)]
  /\ UNCHANGED <<writer, givenUp, pendingVars>>

CancelInQueue(t) ==
  /\ task[t] = "lock"
  /\ LET c == Link(t) IN
       \E i \in 1..Len(lock[c]) :
         /\ lock[c][i] = t
         /\ Leave(c, i)
  /\ task' = [task EXCEPT ![t] = AfterRequest(t, FALSE)]
  /\ UNCHANGED <<writer, givenUp, pendingVars>>

CancelRequest(t) == CancelInReply(t) \/ CancelInGrace(t) \/ CancelInQueue(t)

\* A control operation is cancelled (its client's deadline, or shutdown).
CancelCaller(t) ==
  /\ CancelRequest(t)
  /\ UNCHANGED <<phase, old, connected, subscribed, ready, published,
                 cancelled, on, srvVars, unanswered>>

\* The poller cancelled by close() dies wherever it is.
CancelPollerDelivered(c) ==
  /\ c \in cancelled
  /\ \/ CancelRequest(c)
     \/ /\ task[c] = "pause"
        /\ task' = [task EXCEPT ![c] = "ended"]
        /\ UNCHANGED <<lock, writer, givenUp, pendingVars>>
  /\ cancelled' = cancelled \ {c}
  /\ UNCHANGED <<phase, old, connected, subscribed, ready, published,
                 on, srvVars, unanswered>>

-----------------------------------------------------------------------------
(* The clock, the network and the station. *)

\* 15 s have passed since the subscription.
GraceElapses(c) ==
  /\ subscribed[c] /\ ~ready[c]
  /\ ready' = [ready EXCEPT ![c] = TRUE]
  /\ UNCHANGED <<connVars, lock, published, givenUp, pendingVars, taskVars, srvVars, unanswered>>

\* The station or the network drops the connection.
Drop(c) ==
  /\ phase[c] \notin {"new", "gone"} /\ writer[c] = "open"
  /\ writer' = [writer EXCEPT ![c] = "closing"]
  /\ UNCHANGED <<phase, old, connected, subscribed, reqVars, taskVars, srvVars, unanswered>>

\* connection_lost(): what was in flight can no longer be read.
TransportLost(c) ==
  /\ writer[c] = "closing"
  /\ writer' = [writer EXCEPT ![c] = "lost"]
  /\ unanswered' = [unanswered EXCEPT ![c] = {}]
  /\ UNCHANGED <<phase, old, connected, subscribed, reqVars, taskVars, srvVars>>

-----------------------------------------------------------------------------
ConnectionStep(c) ==
  \/ Accept(c) \/ Connect(c) \/ Subscribe(c) \/ BeginTakeover(c)
  \/ Report(c) \/ FullReport(c) \/ RunEnds(c)
  \/ \E r \in unanswered[c], success \in BOOLEAN : Reply(c, r, success)
  \/ CloseWriter(c) \/ FinishTakeover(c) \/ FinishCleanup(c)
  \/ PollTurn(c) \/ CancelPollerDelivered(c)

RequestStep(t) ==
  \/ \E cmd \in Commands : AcquireAndSend(t, cmd) \/ WakeAndSend(t, cmd)
  \/ AcquireAndSleep(t) \/ AcquireUnavailable(t) \/ WakeUnavailable(t)
  \/ Resume(t) \/ Timeout(t)

CallerStep(t) == Capture(t) \/ EndControl(t) \/ Request(t) \/ CancelCaller(t)

Environment(c) == GraceElapses(c) \/ Drop(c) \/ TransportLost(c)

Next ==
  \/ \E c \in Conns : ConnectionStep(c) \/ Environment(c)
  \/ \E t \in Tasks : RequestStep(t)
  \/ \E t \in Callers : CallerStep(t)

Spec == Init /\ [][Next]_vars

\* The event loop runs every task that is ready and every timer that is due
\* (12 s for a reply, 15 s of grace, 5 s between polls, 3 s for a TLS
\* shutdown).  The station owes nothing: it need not answer or reconnect.
Fairness ==
  /\ \A c \in Conns :
       /\ WF_vars(writer[c] # "open" /\ RunEnds(c))
       /\ WF_vars(CloseWriter(c))
       /\ WF_vars(FinishTakeover(c))
       /\ WF_vars(FinishCleanup(c))
       /\ WF_vars(PollTurn(c))
       /\ WF_vars(CancelPollerDelivered(c))
       /\ WF_vars(GraceElapses(c))
       /\ WF_vars(TransportLost(c))
  /\ \A t \in Tasks : WF_vars(RequestStep(t))

FairSpec == Spec /\ Fairness
-----------------------------------------------------------------------------
(* Properties. *)

TypeOK ==
  /\ model \in Models
  /\ phase \in [Conns -> Phases]
  /\ old \in [Conns -> Conns \cup {None}]
  /\ writer \in [Conns -> Writers]
  /\ connected \in [Conns -> BOOLEAN]
  /\ subscribed \in [Conns -> BOOLEAN]
  /\ ready \in [Conns -> BOOLEAN]
  /\ lock \in [Conns -> Seq(Tasks)]
  /\ future \in [Conns -> Futures]
  /\ opcode \in [Conns -> Commands \cup {None}]
  /\ cancelled \in SUBSET Conns
  /\ task \in [Tasks -> PollerStates \cup CallerStates]
  /\ \A c \in Conns : task[c] \in PollerStates
  /\ \A t \in Callers : task[t] \in CallerStates /\ (on[t] = None => task[t] = "idle")
  /\ on \in [Callers -> Conns \cup {None}]
  /\ connection \in Conns \cup {None}
  /\ lastSeen \in Conns \cup {None}
  /\ unanswered \in [Conns -> SUBSET Requests]
  /\ published \in [Conns -> Nat]
  /\ answeredBy \in [Conns -> Nat]
  /\ givenUp \in [Conns -> SUBSET Nat]
  /\ raced \in BOOLEAN

\* Replies carry no usable request number and are matched by opcode alone, yet
\* the reply that settles the pending request is the reply to that request. On an
\* original C1000 it may be a report, or the late answer to an earlier status
\* request that a report had settled, but even there it is never the late reply
\* to a request that timed out or was cancelled (request(), the match in run()).
NoStaleReply ==
  \A c \in Conns : future[c] \in {"ok", "rejected"} =>
    \/ answeredBy[c] = published[c]
    \/ Deferring /\ answeredBy[c] \notin givenUp[c]

\* What makes NoStaleReply work: as long as the connection is open, the only
\* request the station may still answer is the one request() is waiting for or,
\* on an original C1000, one that a report had settled, never one that was given
\* up (the except and finally clauses of request()).
NoOrphanRequest ==
  \A c \in Conns : \A r \in unanswered[c] : writer[c] = "open" =>
    \/ future[c] = "waiting" /\ r.id = published[c]
    \/ Deferring /\ r.id \notin givenUp[c]

\* A task that slept through the startup delay or queued for the lock never
\* sends on a connection that closed meanwhile (both tests in request()).
NothingAfterClose ==
  [][\A c \in Conns : IsClosing(c) => published'[c] = published[c]]_vars

\* An open subscribed connection always has a live poller, the only task that
\* notices a station that stopped answering, unless close() has begun on it
\* (poll() closes the writer whenever it gives up).
PollerWatches ==
  \A c \in Conns :
    (subscribed[c] /\ writer[c] = "open" /\ task[c] \in {"none", "ended"})
      => \E x \in Conns : phase[x] \in {"takeover", "cleanup"} /\ Closes(x) = c

\* Unless two takeovers overlapped, a new subscription leaves one live
\* connection: every other subscribed connection has been closed (the
\* SUBSCRIBE branch of run()).
SingleLive ==
  ~raced => \A c \in Conns : subscribed[c] /\ writer[c] = "open" => connection = c

\* Unless two takeovers overlapped, the server's last_seen speaks of the
\* current connection: telemetry that came by an older one never makes a new
\* one look available (last_seen = None on SUBSCRIBE, close() before it).
FreshIsCurrent ==
  ~raced /\ lastSeen # None /\ connection # None => lastSeen = connection

\* The endpoint implements the exchange of RequestReply: whatever is lost, late,
\* timed out or cancelled, an outcome belongs to its request (on a station that
\* defers its answers, to it or an earlier one that was not given up), and nothing
\* is asked on a connection where a request was given up (request() as a whole).
Exchange == INSTANCE RequestReply WITH
  Links     <- Conns,
  deferring <- Deferring,
  usable    <- [c \in Conns |-> writer[c] = "open"],
  asked     <- published,
  abandoned <- givenUp,
  exchange  <- [c \in Conns |-> CASE future[c] = "absent"  -> "none"
                                  [] future[c] = "waiting" -> "waiting"
                                  [] future[c] = "lost"    -> "failed"
                                  [] OTHER                 -> "answered"],
  reply     <- answeredBy

ImplementsRequestReply == Exchange!Spec

\* Every wait inside the endpoint ends, whatever the station does: a request is
\* answered, refused, or failed by a timeout or by close(); a connection whose
\* writer closed is cleaned up, so that its place among the four of _accept is
\* free again; a subscription does not wait for the old connection for ever
\* (request(), poll() and close() wait for one another through the lock, the
\* future and the cancelled poller).
WaitsEnd ==
  /\ \A t \in Callers : task[t] = "lock" ~> task[t] = "idle"
  /\ \A c \in Conns :
       /\ IsClosing(c) /\ c \in Clients ~> phase[c] = "gone"
       /\ phase[c] \in TakeoverPhases ~> phase[c] \notin TakeoverPhases
-----------------------------------------------------------------------------
(* The inductive invariant behind the safety properties. *)

\* Tasks inside request(): each is in the queue of its connection's lock.
Requesting(t) == task[t] \in {"lock", "grace", "reply"}

\* The queue of a lock holds exactly the tasks inside request() on that
\* connection, each once, and only its head is past the acquisition.
LockQueue ==
  /\ \A c \in Conns : \A i \in 1..Len(lock[c]) :
       /\ Link(lock[c][i]) = c
       /\ Requesting(lock[c][i])
       /\ i # 1 => task[lock[c][i]] = "lock"
  /\ \A c \in Conns : \A i, j \in 1..Len(lock[c]) : lock[c][i] = lock[c][j] => i = j
  /\ \A t \in Tasks : Requesting(t) =>
       Link(t) \in Conns /\ \E i \in 1..Len(lock[Link(t)]) : lock[Link(t)][i] = t

\* A pending request belongs to the task that holds the lock.
PendingOwned ==
  \A c \in Conns : future[c] # "absent" => lock[c] # <<>> /\ task[lock[c][1]] = "reply"

\* The poller is created by the subscription, which a takeover precedes.
Subscribing ==
  /\ connection # None => subscribed[connection]
  /\ \A c \in Conns :
       /\ ~subscribed[c] => task[c] = "none"
       /\ phase[c] \in TakeoverPhases => ~subscribed[c] /\ old[c] \in Conns \ {c}

\* At most the pending request is unanswered, unless answers are deferred.
OneUnanswered ==
  \A c \in Conns :
    /\ \A r \in unanswered[c] : r.id <= published[c]
    /\ ~Deferring => \A q, r \in unanswered[c] : q = r /\ r.id = published[c]

\* A connection on which a request was given up carries no other.
GivenUpCloses ==
  \A c \in Conns : givenUp[c] # {} => IsClosing(c) /\ future[c] = "absent"

RequestInv ==
  /\ LockQueue /\ PendingOwned
  /\ OneUnanswered /\ GivenUpCloses /\ NoOrphanRequest /\ NoStaleReply

\* A takeover that no other overtook waits for the server's connection.
TakeoverOfCurrent ==
  ~raced => \A c \in Conns : phase[c] \in TakeoverPhases => connection \in {old[c], None}

\* Until its transport is lost a subscribed connection is the current one.
OnlyCurrentCanSpeak ==
  ~raced => \A c \in Conns : subscribed[c] /\ writer[c] # "lost" => connection = c

CurrentInv ==
  /\ TypeOK /\ Subscribing /\ TakeoverOfCurrent /\ OnlyCurrentCanSpeak /\ FreshIsCurrent
=============================================================================
