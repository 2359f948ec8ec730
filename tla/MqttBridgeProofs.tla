-------------------------- MODULE MqttBridgeProofs --------------------------
(***************************************************************************)
(* What the broker bridge guarantees for any stations and commands, queues *)
(* of any size and any number of connections: that no command outlives its *)
(* connection in the queue, and that the retained availability of every    *)
(* station is right or about to be.                                        *)
(***************************************************************************)
EXTENDS MqttBridge, SequenceTheorems, TLAPS

-----------------------------------------------------------------------------
(* The inductive invariant. *)

\* How many losses of the connection the event loop will have handled after
\* each callback that waits: a command among them came over the connection
\* that it will then believe to have.
Counts(losses) ==
  /\ losses[0] = clears
  /\ losses[Len(callbacks)] = IF broker THEN links - 1 ELSE links
  /\ \A i \in 1..Len(callbacks) :
       /\ losses[i] = IF callbacks[i].type = "lost" THEN losses[i - 1] + 1 ELSE losses[i - 1]
       /\ callbacks[i].type = "command" => origin[callbacks[i].command] = losses[i] + 1

InOrder == \E losses \in [0..Len(callbacks) -> 0..links] : Counts(losses)

\* The update of d that the loop has taken and not yet served.
InHand(d) == hand.update # None /\ hand.update.device = d

\* What is known of d is on its way, or published, or excused.
Right(d) ==
  \/ device[d].connected /\ ~device[d].fresh
  \/ d \in evicted
  \/ \E i \in DOMAIN updates : LastOf(updates, d, i) /\ updates[i].available = Available(d)
  \/ /\ ~Newest(updates, d)
     /\ IF InHand(d) THEN hand.update.available = Available(d)
                     ELSE connected => topic[d] = Available(d)

IInv ==
  /\ TypeOK
  /\ InOrder /\ QueueIsCurrent
  /\ \A d \in Devices : Right(d)
  /\ \A d \in evicted : ~Newest(updates, d)
  /\ phase = "applying" => hand.update = None
-----------------------------------------------------------------------------
(* Values and queues. *)

Update == [device : Devices, available : BOOLEAN]

\* A callback that waits carries a command, or none.
LEMMA CallbackType ==
  ASSUME TypeOK, NEW i \in 1..Len(callbacks)
  PROVE  \/ callbacks[i].type = "command" /\ callbacks[i].command \in Commands
         \/ callbacks[i].type \in {"connected", "lost"} /\ callbacks[i].command = None
  BY DEF TypeOK

\* What is appended to a queue is the last of its device, and leaves the last
\* one of every other device where it is.
LEMMA AppendLast ==
  ASSUME NEW s \in Seq(Update), NEW u \in Update
  PROVE  /\ Append(s, u) \in Seq(Update) /\ Len(Append(s, u)) = Len(s) + 1
         /\ Len(s) + 1 \in DOMAIN Append(s, u) /\ Append(s, u)[Len(s) + 1] = u
         /\ LastOf(Append(s, u), u.device, Len(s) + 1)
         /\ \A d \in Devices \ {u.device} :
              /\ Newest(Append(s, u), d) <=> Newest(s, d)
              /\ \A i \in DOMAIN s : LastOf(s, d, i) =>
                   i \in DOMAIN Append(s, u) /\ LastOf(Append(s, u), d, i)
                     /\ Append(s, u)[i] = s[i]
  <1> DEFINE t == Append(s, u)
  <1>1. /\ t \in Seq(Update) /\ Len(t) = Len(s) + 1 /\ t[Len(s) + 1] = u
        /\ DOMAIN t = 1..(Len(s) + 1) /\ DOMAIN s = 1..Len(s) /\ Len(s) \in Nat
        /\ \A i \in 1..Len(s) : t[i] = s[i]
    OBVIOUS
  <1> HIDE DEF t
  <1>2. LastOf(t, u.device, Len(s) + 1)
    BY <1>1 DEF LastOf
  <1>3. ASSUME NEW d \in Devices \ {u.device}
        PROVE  Newest(t, d) <=> Newest(s, d)
    <2>1. Newest(t, d) => Newest(s, d)
      BY <1>1 DEF Newest
    <2>2. Newest(s, d) => Newest(t, d)
      BY <1>1 DEF Newest
    <2> QED
      BY <2>1, <2>2
  <1>4. ASSUME NEW d \in Devices \ {u.device}, NEW i \in DOMAIN s, LastOf(s, d, i)
        PROVE  i \in DOMAIN t /\ LastOf(t, d, i) /\ t[i] = s[i]
    BY <1>1, <1>4 DEF LastOf
  <1> QED
    BY <1>1, <1>2, <1>3, <1>4 DEF t

\* Without its first, a queue keeps the last one of a device, or that was it.
LEMMA TailLast ==
  ASSUME NEW s \in Seq(Update), s # <<>>, NEW d \in Devices
  PROVE  /\ Tail(s) \in Seq(Update) /\ Len(Tail(s)) = Len(s) - 1
         /\ Newest(Tail(s), d) => Newest(s, d)
         /\ Head(s).device = d => Newest(s, d)
         /\ \A i \in DOMAIN s : LastOf(s, d, i) =>
              \/ /\ i - 1 \in DOMAIN Tail(s) /\ LastOf(Tail(s), d, i - 1)
                 /\ Tail(s)[i - 1] = s[i]
              \/ ~Newest(Tail(s), d) /\ Head(s) = s[i] /\ Head(s).device = d
  <1> DEFINE t == Tail(s)
  <1>1. /\ t \in Seq(Update) /\ Len(t) = Len(s) - 1 /\ Head(s) = s[1]
        /\ DOMAIN t = 1..(Len(s) - 1) /\ DOMAIN s = 1..Len(s) /\ Len(s) \in Nat \ {0}
        /\ \A i \in 1..(Len(s) - 1) : t[i] = s[i + 1]
    BY HeadTailProperties, EmptySeq
  <1> HIDE DEF t
  <1>2. Newest(t, d) => Newest(s, d)
    BY <1>1 DEF Newest
  <1>3. Head(s).device = d => Newest(s, d)
    BY <1>1 DEF Newest
  <1>4. ASSUME NEW i \in DOMAIN s, LastOf(s, d, i)
        PROVE  \/ i - 1 \in DOMAIN t /\ LastOf(t, d, i - 1) /\ t[i - 1] = s[i]
               \/ ~Newest(t, d) /\ Head(s) = s[i] /\ Head(s).device = d
    <2>1. CASE i = 1
      BY <1>1, <1>4, <2>1 DEF LastOf, Newest
    <2>2. CASE i # 1
      <3>1. i - 1 \in 1..(Len(s) - 1) /\ t[i - 1] = s[i]
        BY <1>1, <1>4, <2>2
      <3>2. s[i].device = d /\ \A j \in DOMAIN s : s[j].device = d => j <= i
        BY <1>4 DEF LastOf
      <3>3. ASSUME NEW j \in DOMAIN t, t[j].device = d PROVE j <= i - 1
        <4>1. j + 1 \in DOMAIN s /\ s[j + 1].device = d
          BY <1>1, <3>3
        <4> QED
          BY <1>1, <1>4, <3>2, <4>1
      <3> QED
        BY <1>1, <3>1, <3>2, <3>3 DEF LastOf
    <2> QED
      BY <2>1, <2>2
  <1> QED
    BY <1>1, <1>2, <1>3, <1>4 DEF t
-----------------------------------------------------------------------------
(* The order of the callbacks. *)

Callbacks == {[type |-> "command", command |-> c] : c \in Commands}
               \cup [type : {"connected", "lost"}, command : {None}]

\* A callback that the network thread appends comes after all losses that the
\* event loop has still to handle.
LEMMA AppendInOrder ==
  ASSUME TypeOK, links' \in Nat, NEW cb \in Callbacks, callbacks' = Append(callbacks, cb),
         NEW losses \in [0..Len(callbacks) -> 0..links], Counts(losses), clears' = clears,
         links' >= links,
         links' - (IF broker' THEN 1 ELSE 0) =
           losses[Len(callbacks)] + (IF cb.type = "lost" THEN 1 ELSE 0),
         \A c \in Commands : origin[c] # 0 => origin'[c] = origin[c],
         cb.type = "command" => origin'[cb.command] = losses[Len(callbacks)] + 1
  PROVE  InOrder'
  <1> DEFINE n == Len(callbacks)
             last == losses[n] + (IF cb.type = "lost" THEN 1 ELSE 0)
             more == [i \in 0..(n + 1) |-> IF i = n + 1 THEN last ELSE losses[i]]
  <1>1. n \in Nat /\ Len(callbacks') = n + 1 /\ links \in Nat /\ links' \in Nat
    BY DEF TypeOK, Callbacks
  <1>2. last \in 0..links' /\ \A i \in 0..n : losses[i] \in 0..links
    BY <1>1
  <1>3. more \in [0..Len(callbacks') -> 0..links']
    BY <1>1, <1>2
  <1>4. more[0] = clears' /\ more[Len(callbacks')] = IF broker' THEN links' - 1 ELSE links'
    <2>1. more[0] = losses[0] /\ more[n + 1] = last
      BY <1>1
    <2>2. losses[n] \in Nat /\ last = IF broker' THEN links' - 1 ELSE links'
      BY <1>1, <1>2
    <2> QED
      BY <1>1, <2>1, <2>2 DEF Counts
  <1>5. ASSUME NEW i \in 1..Len(callbacks')
        PROVE  /\ more[i] = IF callbacks'[i].type = "lost" THEN more[i - 1] + 1 ELSE more[i - 1]
               /\ callbacks'[i].type = "command" =>
                    origin'[callbacks'[i].command] = more[i] + 1
    <2>1. CASE i \in 1..n
      <3>1. callbacks'[i] = callbacks[i] /\ more[i] = losses[i] /\ more[i - 1] = losses[i - 1]
        BY <1>1, <2>1 DEF TypeOK, Callbacks
      <3>2. callbacks[i].type = "command" =>
              callbacks[i].command \in Commands /\ origin[callbacks[i].command] # 0
        BY <1>2, <2>1, CallbackType DEF Counts
      <3> QED
        BY <2>1, <3>1, <3>2 DEF Counts
    <2>2. CASE i = n + 1
      <3>1. callbacks'[i] = cb /\ more[i] = last /\ more[i - 1] = losses[n]
        BY <1>1, <2>2 DEF TypeOK, Callbacks
      <3> QED
        BY <1>2, <3>1
    <2> QED
      BY <1>1, <2>1, <2>2
  <1> HIDE DEF more
  <1> QED
    BY <1>3, <1>4, <1>5 DEF InOrder, Counts

\* The first callback that waits is the next that the event loop runs.
LEMMA TailInOrder ==
  ASSUME TypeOK, callbacks # <<>>, callbacks' = Tail(callbacks), UNCHANGED fromBroker,
         NEW losses \in [0..Len(callbacks) -> 0..links], Counts(losses), clears' = losses[1]
  PROVE  InOrder'
  <1> DEFINE n == Len(callbacks)
             rest == [i \in 0..(n - 1) |-> losses[i + 1]]
  <1>1. n \in Nat \ {0} /\ Len(callbacks') = n - 1
        /\ \A i \in 1..(n - 1) : callbacks'[i] = callbacks[i + 1]
    BY HeadTailProperties, EmptySeq DEF TypeOK
  <1>2. rest \in [0..Len(callbacks') -> 0..links']
    BY <1>1 DEF fromBroker
  <1>3. rest[0] = clears' /\ rest[Len(callbacks')] = IF broker' THEN links' - 1 ELSE links'
    BY <1>1 DEF Counts, fromBroker
  <1>4. ASSUME NEW i \in 1..Len(callbacks')
        PROVE  /\ rest[i] = IF callbacks'[i].type = "lost" THEN rest[i - 1] + 1 ELSE rest[i - 1]
               /\ callbacks'[i].type = "command" =>
                    origin'[callbacks'[i].command] = rest[i] + 1
    <2>1. callbacks'[i] = callbacks[i + 1] /\ rest[i] = losses[i + 1] /\ rest[i - 1] = losses[i]
          /\ i + 1 \in 1..n /\ (i + 1) - 1 = i
      BY <1>1
    <2> QED
      BY <2>1 DEF Counts, fromBroker
  <1> HIDE DEF rest
  <1> QED
    BY <1>2, <1>3, <1>4 DEF InOrder, Counts

\* The queue holds commands of the connection that the bridge believes it has.
LEMMA OrderKept ==
  IInv /\ [Next]_vars => InOrder' /\ QueueIsCurrent' /\ clears' \in 0..links'
  <1> SUFFICES ASSUME IInv, [Next]_vars
               PROVE  InOrder' /\ QueueIsCurrent' /\ clears' \in 0..links'
    OBVIOUS
  <1>1. TypeOK /\ QueueIsCurrent
    BY DEF IInv
  <1>2. PICK losses \in [0..Len(callbacks) -> 0..links] : Counts(losses)
    BY DEF IInv, InOrder
  <1>3. /\ Len(callbacks) \in Nat /\ links \in Nat /\ clears \in 0..links
        /\ losses[Len(callbacks)] \in 0..links
        /\ losses[Len(callbacks)] = IF broker THEN links - 1 ELSE links
        /\ commands \in Seq(Commands) /\ origin \in [Commands -> Nat]
        /\ \A i \in DOMAIN commands : commands[i] \in Commands /\ origin[commands[i]] # 0
    BY <1>1, <1>2 DEF TypeOK, Counts, QueueIsCurrent
  <1>4. CASE OnConnect
    <2>1. /\ callbacks' = Append(callbacks, [type |-> "connected", command |-> None])
          /\ ~broker /\ broker' /\ links' = links + 1
          /\ UNCHANGED <<origin, clears, commands>>
      BY <1>4 DEF OnConnect, CallSoon, answers
    <2>2. PICK cb \in Callbacks : cb = [type |-> "connected", command |-> None]
      BY DEF Callbacks
    <2>3. InOrder'
      <3>1. cb.type = "connected"
        BY <2>2
      <3>2. callbacks' = Append(callbacks, cb)
        BY <2>1, <2>2
      <3>3. /\ links' \in Nat /\ links' >= links /\ clears' = clears
            /\ links' - (IF broker' THEN 1 ELSE 0) =
                 losses[Len(callbacks)] + (IF cb.type = "lost" THEN 1 ELSE 0)
            /\ \A d \in Commands : origin[d] # 0 => origin'[d] = origin[d]
            /\ cb.type = "command" => origin'[cb.command] = losses[Len(callbacks)] + 1
        BY <1>3, <2>1, <3>1
      <3> QED
        BY <1>1, <1>2, <3>2, <3>3, AppendInOrder
    <2> QED
      BY <1>1, <1>3, <2>1, <2>3 DEF QueueIsCurrent
  <1>5. CASE \E c \in Commands : OnMessage(c)
    <2>1. PICK c \in Commands : OnMessage(c)
      BY <1>5
    <2>2. /\ callbacks' = Append(callbacks, [type |-> "command", command |-> c])
          /\ broker /\ UNCHANGED <<broker, links, clears, commands>>
          /\ origin[c] = 0 /\ origin' = [origin EXCEPT ![c] = links]
      BY <2>1 DEF OnMessage, CallSoon, answers
    <2>3. PICK cb \in Callbacks : cb = [type |-> "command", command |-> c]
      BY DEF Callbacks
    <2>4. InOrder'
      <3>1. cb.type = "command" /\ cb.command = c
        BY <2>3
      <3>2. callbacks' = Append(callbacks, cb)
        BY <2>2, <2>3
      <3>3. /\ links' \in Nat /\ links' >= links /\ clears' = clears
            /\ links' - (IF broker' THEN 1 ELSE 0) =
                 losses[Len(callbacks)] + (IF cb.type = "lost" THEN 1 ELSE 0)
            /\ \A d \in Commands : origin[d] # 0 => origin'[d] = origin[d]
            /\ cb.type = "command" => origin'[cb.command] = losses[Len(callbacks)] + 1
        BY <1>3, <2>2, <3>1
      <3> QED
        BY <1>1, <1>2, <3>2, <3>3, AppendInOrder
    <2>5. QueueIsCurrent'
      BY <1>1, <1>3, <2>2 DEF QueueIsCurrent
    <2> QED
      BY <1>3, <2>2, <2>4, <2>5
  <1>6. CASE OnDisconnect
    <2>1. /\ callbacks' = Append(callbacks, [type |-> "lost", command |-> None])
          /\ broker /\ ~broker' /\ UNCHANGED <<links, origin, clears, commands>>
      BY <1>6 DEF OnDisconnect, CallSoon, answers
    <2>2. PICK cb \in Callbacks : cb = [type |-> "lost", command |-> None]
      BY DEF Callbacks
    <2>3. InOrder'
      <3>1. cb.type = "lost"
        BY <2>2
      <3>2. callbacks' = Append(callbacks, cb)
        BY <2>1, <2>2
      <3>3. /\ links' \in Nat /\ links' >= links /\ clears' = clears
            /\ links' - (IF broker' THEN 1 ELSE 0) =
                 losses[Len(callbacks)] + (IF cb.type = "lost" THEN 1 ELSE 0)
            /\ \A d \in Commands : origin[d] # 0 => origin'[d] = origin[d]
            /\ cb.type = "command" => origin'[cb.command] = losses[Len(callbacks)] + 1
        BY <1>3, <2>1, <3>1
      <3> QED
        BY <1>1, <1>2, <3>2, <3>3, AppendInOrder
    <2> QED
      BY <1>1, <1>3, <2>1, <2>3 DEF QueueIsCurrent
  <1>7. CASE Callback
    <2> DEFINE first == Head(callbacks)
    <2>1. /\ callbacks # <<>> /\ callbacks' = Tail(callbacks) /\ UNCHANGED fromBroker
          /\ \/ first.type = "connected" /\ BrokerConnected
             \/ first.type = "command" /\ EnqueueCommand(first.command)
             \/ first.type = "lost" /\ ClearConnection
      BY <1>7 DEF Callback
    <2> HIDE DEF first
    <2>2. 1 \in 1..Len(callbacks) /\ first = callbacks[1] /\ losses[1] \in 0..links
      BY <1>1, <1>3, <2>1, EmptySeq DEF TypeOK, first
    <2>3. /\ losses[1] = IF first.type = "lost" THEN clears + 1 ELSE clears
          /\ first.type = "command" =>
               first.command \in Commands /\ origin[first.command] = losses[1] + 1
      BY <1>1, <1>2, <2>2, CallbackType DEF Counts
    <2>4. clears' = losses[1]
      BY <2>1, <2>3 DEF BrokerConnected, EnqueueCommand, ClearConnection
    <2>5. InOrder'
      BY <1>1, <1>2, <2>1, <2>4, TailInOrder
    <2>6. QueueIsCurrent'
      <3>1. CASE first.type = "connected" /\ BrokerConnected
        <4>1. UNCHANGED <<commands, clears, origin>>
          BY <2>1, <3>1 DEF BrokerConnected, answers, fromBroker
        <4> QED
          BY <1>1, <4>1 DEF QueueIsCurrent
      <3>2. CASE first.type = "command" /\ EnqueueCommand(first.command)
        <4>1. origin' = origin /\ clears' = clears /\ origin[first.command] = clears + 1
          BY <2>1, <2>3, <2>4, <3>2 DEF fromBroker
        <4>2. PICK c \in Commands : c = first.command
          BY <2>3, <3>2
        <4>3. CASE commands' = commands
          BY <1>1, <4>1, <4>3 DEF QueueIsCurrent
        <4>4. CASE commands' = Append(commands, c)
          <5>1. \A i \in DOMAIN commands' :
                  (i \in DOMAIN commands /\ commands'[i] = commands[i]) \/ commands'[i] = c
            BY <1>3, <4>4
          <5> QED
            BY <1>1, <4>1, <4>2, <5>1 DEF QueueIsCurrent
        <4> QED
          BY <3>2, <4>2, <4>3, <4>4 DEF EnqueueCommand
      <3>3. CASE first.type = "lost" /\ ClearConnection
        BY <3>3 DEF QueueIsCurrent, ClearConnection
      <3> QED
        BY <2>1, <3>1, <3>2, <3>3
    <2> QED
      BY <2>1, <2>2, <2>4, <2>5, <2>6 DEF fromBroker
  <1>8. CASE GetCommand
    <2>1. commands # <<>> /\ commands' = Tail(commands) /\ UNCHANGED <<fromBroker, callbacks, clears>>
      BY <1>8 DEF GetCommand
    <2>2. QueueIsCurrent'
      BY <1>1, <1>3, <2>1, HeadTailProperties DEF QueueIsCurrent, fromBroker
    <2> QED
      BY <1>2, <1>3, <2>1, <2>2 DEF InOrder, Counts, fromBroker
  <1>9. CASE UNCHANGED <<fromBroker, callbacks, clears, commands>>
    BY <1>1, <1>2, <1>3, <1>9 DEF InOrder, Counts, fromBroker, QueueIsCurrent
  <1> QED
    BY <1>4, <1>5, <1>6, <1>7, <1>8, <1>9
       DEF Next, vars, Changes, LinkUp, LinkDown, Reported, Ages, Run, Started, GetUpdate, Serve,
           Applied, Ends, fromBroker, answers
-----------------------------------------------------------------------------
(* The queue of updates. *)

\* What the stations last said of themselves.
Said == [connected : BOOLEAN, fresh : BOOLEAN]

\* A published status is the last of its device in the queue. The last one of
\* another device stays in the queue, or is noted as evicted.
LEMMA Published ==
  ASSUME TypeOK, NEW d \in Devices, NEW status \in Said, Publish(d, status)
  PROVE  /\ updates' \in Seq(Update) /\ Len(updates') <= UpdatesSize
         /\ evicted' \subseteq Devices /\ d \notin evicted'
         /\ \E i \in DOMAIN updates' : LastOf(updates', d, i)
              /\ updates'[i].available = (status.connected /\ status.fresh)
         /\ \A o \in Devices \ {d} :
              \/ o \in evicted' /\ ~Newest(updates', o)
              \/ /\ o \in evicted' <=> o \in evicted
                 /\ Newest(updates', o) <=> Newest(updates, o)
                 /\ \A i \in DOMAIN updates : LastOf(updates, o, i) =>
                      \E j \in DOMAIN updates' : LastOf(updates', o, j) /\ updates'[j] = updates[i]
  <1> DEFINE event == [device |-> d, available |-> status.connected /\ status.fresh]
             kept == IF Len(updates) = UpdatesSize THEN Tail(updates) ELSE updates
  <1>1. /\ updates' = Append(kept, event)
        /\ evicted' = (evicted \ {d}) \cup
             {o \in Devices \ {d} : Newest(updates, o) /\ ~Newest(kept, o)}
    BY DEF Publish
  <1>2. updates \in Seq(Update) /\ Len(updates) <= UpdatesSize /\ evicted \subseteq Devices
        /\ UpdatesSize \in Nat \ {0} /\ Len(updates) \in Nat
    BY SizesAssumption DEF TypeOK, Update
  <1>3. /\ kept \in Seq(Update) /\ Len(kept) + 1 <= UpdatesSize
        /\ \A o \in Devices : Newest(kept, o) => Newest(updates, o)
        /\ \A o \in Devices : \A i \in DOMAIN updates : LastOf(updates, o, i) =>
             \/ ~Newest(kept, o)
             \/ \E j \in DOMAIN kept : LastOf(kept, o, j) /\ kept[j] = updates[i]
    <2>1. CASE Len(updates) = UpdatesSize
      <3>1. updates # <<>>
        BY <1>2, <2>1
      <3>2. kept = Tail(updates)
        BY <2>1
      <3> HIDE DEF kept
      <3>3. kept \in Seq(Update) /\ Len(kept) = Len(updates) - 1
        BY <1>2, <3>1, <3>2, HeadTailProperties
      <3> QED
        BY <1>2, <2>1, <3>1, <3>2, <3>3, TailLast
    <2>2. CASE Len(updates) # UpdatesSize
      <3>1. kept = updates
        BY <2>2
      <3> HIDE DEF kept
      <3> QED
        BY <1>2, <2>2, <3>1
    <2> QED
      BY <2>1, <2>2
  <1> HIDE DEF kept
  <1>4. PICK u \in Update : u = event
    <2>1. PICK b \in BOOLEAN : b = (status.connected /\ status.fresh)
      OBVIOUS
    <2>2. [device |-> d, available |-> b] \in Update
      BY DEF Update
    <2> QED
      BY <2>1, <2>2
  <1>5. u.device = d /\ u.available = (status.connected /\ status.fresh)
    BY <1>4
  <1> HIDE DEF event
  <1>6. updates' = Append(kept, u)
    BY <1>1, <1>4
  <1>7. /\ updates' \in Seq(Update) /\ Len(updates') = Len(kept) + 1
        /\ Len(kept) + 1 \in DOMAIN updates' /\ updates'[Len(kept) + 1] = u
        /\ LastOf(updates', d, Len(kept) + 1)
        /\ \A o \in Devices \ {d} :
             /\ Newest(updates', o) <=> Newest(kept, o)
             /\ \A i \in DOMAIN kept : LastOf(kept, o, i) =>
                  i \in DOMAIN updates' /\ LastOf(updates', o, i) /\ updates'[i] = kept[i]
    BY <1>3, <1>5, <1>6, AppendLast
  <1>8. evicted' \subseteq Devices /\ d \notin evicted'
    BY <1>1, <1>2
  <1>9. ASSUME NEW o \in Devices \ {d}
        PROVE  \/ o \in evicted' /\ ~Newest(updates', o)
               \/ /\ o \in evicted' <=> o \in evicted
                  /\ Newest(updates', o) <=> Newest(updates, o)
                  /\ \A i \in DOMAIN updates : LastOf(updates, o, i) =>
                       \E j \in DOMAIN updates' :
                         LastOf(updates', o, j) /\ updates'[j] = updates[i]
    <2>1. CASE Newest(updates, o) /\ ~Newest(kept, o)
      BY <1>1, <1>7, <2>1
    <2>2. CASE ~Newest(updates, o) \/ Newest(kept, o)
      <3>1. o \in evicted' <=> o \in evicted
        BY <1>1, <2>2
      <3>2. Newest(updates', o) <=> Newest(updates, o)
        BY <1>3, <1>7, <2>2
      <3>3. ASSUME NEW i \in DOMAIN updates, LastOf(updates, o, i)
            PROVE  \E j \in DOMAIN updates' : LastOf(updates', o, j) /\ updates'[j] = updates[i]
        <4>1. Newest(updates, o)
          BY <3>3 DEF LastOf, Newest
        <4> QED
          BY <1>3, <1>7, <2>2, <3>3, <4>1
      <3> QED
        BY <3>1, <3>2, <3>3
    <2> QED
      BY <2>1, <2>2
  <1> QED
    BY <1>3, <1>5, <1>7, <1>8, <1>9

\* LinkUp, LinkDown and Reported publish what the station says of itself.
LEMMA StatusPublished ==
  ASSUME TypeOK, NEW d \in Devices, LinkUp(d) \/ LinkDown(d) \/ Reported(d)
  PROVE  \E status \in Said : Changes(d, status) /\ Publish(d, status)
  <1>1. device[d] \in Said
    BY DEF TypeOK, Said
  <1>2. CASE LinkUp(d)
    BY <1>1, <1>2 DEF LinkUp, Said
  <1>3. CASE LinkDown(d)
    BY <1>1, <1>3 DEF LinkDown, Said
  <1>4. CASE Reported(d)
    BY <1>1, <1>4 DEF Reported, Said
  <1> QED
    BY <1>2, <1>3, <1>4
-----------------------------------------------------------------------------
(* The availability that the broker holds. *)

\* Nothing of what Right reads changes in the network thread, nor while a
\* command is queued, taken or applied.
LEMMA RightFramed ==
  ASSUME IInv, UNCHANGED <<device, updates, hand, connected, topic, evicted>>
  PROVE  /\ \A d \in Devices : Right(d)'
         /\ \A d \in evicted' : ~Newest(updates, d)'
  <1> QED
    BY DEF IInv, Right, InHand, Newest, LastOf, Available

\* A status that is published is the last known of its device.
LEMMA RightPublished ==
  ASSUME IInv, NEW d \in Devices, NEW status \in Said, Changes(d, status), Publish(d, status)
  PROVE  /\ \A o \in Devices : Right(o)'
         /\ \A o \in evicted' : ~Newest(updates, o)'
  <1>1. /\ \A o \in Devices : Right(o)
        /\ \A o \in evicted : ~Newest(updates, o)
        /\ device \in [Devices -> Said]
    BY DEF IInv, TypeOK, Said
  <1>2. /\ evicted' \subseteq Devices /\ d \notin evicted'
        /\ \E i \in DOMAIN updates' : LastOf(updates', d, i)
             /\ updates'[i].available = (status.connected /\ status.fresh)
        /\ \A o \in Devices \ {d} :
             \/ o \in evicted' /\ ~Newest(updates', o)
             \/ /\ o \in evicted' <=> o \in evicted
                /\ Newest(updates', o) <=> Newest(updates, o)
                /\ \A i \in DOMAIN updates : LastOf(updates, o, i) =>
                     \E j \in DOMAIN updates' : LastOf(updates', o, j) /\ updates'[j] = updates[i]
    BY Published DEF IInv
  <1>3. /\ device' = [device EXCEPT ![d] = status]
        /\ UNCHANGED <<hand, connected, topic>>
    BY DEF Changes
  <1>4. Right(d)'
    <2>1. Available(d)' = (status.connected /\ status.fresh)
      BY <1>1, <1>3 DEF Available
    <2> QED
      BY <1>2, <2>1 DEF Right, LastOf
  <1>5. ASSUME NEW o \in Devices \ {d}
        PROVE  Right(o)'
    <2>1. device'[o] = device[o]
      BY <1>1, <1>3
    <2>2. CASE o \in evicted'
      BY <2>2 DEF Right
    <2>3. CASE o \notin evicted'
      <3>1. /\ o \notin evicted /\ (Newest(updates', o) <=> Newest(updates, o))
            /\ \A i \in DOMAIN updates : LastOf(updates, o, i) =>
                 \E j \in DOMAIN updates' : LastOf(updates', o, j) /\ updates'[j] = updates[i]
        BY <1>2, <2>3
      <3>2. CASE device[o].connected /\ ~device[o].fresh
        BY <2>1, <3>2 DEF Right
      <3>3. CASE \E i \in DOMAIN updates : LastOf(updates, o, i)
                   /\ updates[i].available = Available(o)
        <4>1. PICK j \in DOMAIN updates' : LastOf(updates', o, j)
                     /\ updates'[j].available = Available(o)
          BY <3>1, <3>3
        <4> QED
          BY <2>1, <4>1 DEF Right, Available, LastOf
      <3>4. CASE /\ ~Newest(updates, o)
                 /\ IF InHand(o) THEN hand.update.available = Available(o)
                                 ELSE connected => topic[o] = Available(o)
        <4>1. ~Newest(updates', o)
          BY <3>1, <3>4
        <4> QED
          BY <1>3, <2>1, <3>4, <4>1 DEF Right, InHand, Available, Newest
      <3> QED
        BY <1>1, <3>1, <3>2, <3>3, <3>4 DEF Right
    <2> QED
      BY <2>2, <2>3
  <1>6. ASSUME NEW o \in evicted'
        PROVE  ~Newest(updates, o)'
    BY <1>1, <1>2, <1>6 DEF Newest
  <1> QED
    BY <1>4, <1>5, <1>6

\* A device that grows stale is excused while it is connected, and as
\* unavailable as before when it is not.
LEMMA RightAgeing ==
  ASSUME IInv, NEW d \in Devices, Ages(d)
  PROVE  /\ \A o \in Devices : Right(o)'
         /\ \A o \in evicted' : ~Newest(updates, o)'
  <1>1. /\ \A o \in Devices : Right(o)
        /\ \A o \in evicted : ~Newest(updates, o)
        /\ device \in [Devices -> Said]
    BY DEF IInv, TypeOK, Said
  <1>2. /\ device' = [device EXCEPT ![d] = [device[d] EXCEPT !.fresh = FALSE]]
        /\ UNCHANGED <<hand, connected, topic, updates, evicted>>
    BY DEF Ages, Changes
  <1>3. ASSUME NEW o \in Devices
        PROVE  Right(o)'
    <2>1. /\ device'[o].connected = device[o].connected
          /\ device'[o].fresh = IF o = d THEN FALSE ELSE device[o].fresh
      BY <1>1, <1>2 DEF Said
    <2>2. CASE o = d /\ device[o].connected
      BY <2>1, <2>2 DEF Right
    <2>3. CASE o # d \/ ~device[o].connected
      <3>1. Available(o)' = Available(o)
        BY <2>1, <2>3 DEF Available
      <3>2. CASE device[o].connected /\ ~device[o].fresh
        BY <2>1, <3>2 DEF Right
      <3>3. CASE ~(device[o].connected /\ ~device[o].fresh)
        <4>1. Right(o)
          BY <1>1
        <4> QED
          BY <1>2, <3>1, <3>3, <4>1 DEF Right, InHand, Newest, LastOf
      <3> QED
        BY <3>2, <3>3
    <2> QED
      BY <2>2, <2>3
  <1> QED
    BY <1>1, <1>2, <1>3 DEF Newest

\* The update the loop takes from the queue was the last of its device, or
\* the last one is still in the queue.
LEMMA RightTaken ==
  ASSUME IInv, GetUpdate
  PROVE  /\ \A o \in Devices : Right(o)'
         /\ \A o \in evicted' : ~Newest(updates, o)'
  <1>1. /\ \A o \in Devices : Right(o)
        /\ \A o \in evicted : ~Newest(updates, o)
        /\ evicted \subseteq Devices /\ updates \in Seq(Update) /\ updates # <<>>
        /\ hand.update = None /\ updates' = Tail(updates)
        /\ UNCHANGED <<device, connected, topic, evicted>>
    BY DEF IInv, TypeOK, Update, GetUpdate, stations
  <1>2. /\ hand'.update = Head(updates) /\ hand'.update # None
    <2>1. hand' = [hand EXCEPT !.update = Head(updates)] /\ "update" \in DOMAIN hand
      BY DEF IInv, TypeOK, GetUpdate
    <2>2. Head(updates) \in Update
      BY <1>1, HeadTailProperties
    <2> QED
      BY <2>1, <2>2, NoneAssumption DEF Update
  <1>3. ASSUME NEW o \in Devices
        PROVE  /\ Newest(updates', o) => Newest(updates, o)
               /\ Head(updates).device = o => Newest(updates, o)
               /\ \A i \in DOMAIN updates : LastOf(updates, o, i) =>
                    \/ /\ i - 1 \in DOMAIN updates' /\ LastOf(updates', o, i - 1)
                       /\ updates'[i - 1] = updates[i]
                    \/ /\ ~Newest(updates', o) /\ Head(updates) = updates[i]
                       /\ Head(updates).device = o
    BY <1>1, TailLast
  <1>4. ASSUME NEW o \in Devices
        PROVE  Right(o)'
    <2>1. Available(o)' = Available(o) /\ device'[o] = device[o]
      BY <1>1 DEF Available
    <2>2. CASE o \in evicted \/ (device[o].connected /\ ~device[o].fresh)
      BY <1>1, <2>1, <2>2 DEF Right
    <2>3. CASE \E i \in DOMAIN updates : LastOf(updates, o, i)
                 /\ updates[i].available = Available(o)
      <3>1. PICK i \in DOMAIN updates : LastOf(updates, o, i)
                   /\ updates[i].available = Available(o)
        BY <2>3
      <3>2. CASE /\ i - 1 \in DOMAIN updates' /\ LastOf(updates', o, i - 1)
                 /\ updates'[i - 1] = updates[i]
        BY <2>1, <3>1, <3>2 DEF Right, LastOf
      <3>3. CASE /\ ~Newest(updates', o) /\ Head(updates) = updates[i]
                 /\ Head(updates).device = o
        <4>1. InHand(o)' /\ hand'.update.available = Available(o)'
          BY <1>2, <2>1, <3>1, <3>3 DEF InHand
        <4> QED
          BY <3>3, <4>1 DEF Right, Newest
      <3> QED
        BY <1>3, <3>1, <3>2, <3>3
    <2>4. CASE ~Newest(updates, o) /\ (connected => topic[o] = Available(o))
      <3>1. ~Newest(updates', o) /\ ~InHand(o)'
        BY <1>2, <1>3, <2>4 DEF InHand
      <3> QED
        BY <1>1, <2>1, <2>4, <3>1 DEF Right, Newest
    <2> QED
      BY <1>1, <2>2, <2>3, <2>4 DEF Right, InHand
  <1> QED
    BY <1>1, <1>3, <1>4 DEF Newest

\* Serve publishes the update over the connection there is, or there is none.
LEMMA RightServed ==
  ASSUME IInv, Serve
  PROVE  /\ \A o \in Devices : Right(o)'
         /\ \A o \in evicted' : ~Newest(updates, o)'
  <1>1. /\ \A o \in Devices : Right(o)
        /\ \A o \in evicted : ~Newest(updates, o)
        /\ UNCHANGED <<device, connected, updates, evicted>>
        /\ topic' = IF hand.update # None /\ connected
                    THEN [topic EXCEPT ![hand.update.device] = hand.update.available]
                    ELSE topic
        /\ topic \in [Devices -> BOOLEAN \cup {None}]
    BY DEF IInv, TypeOK, Serve, stations
  <1>2. hand'.update = None
    BY DEF IInv, TypeOK, Serve, EmptyHand
  <1>3. ASSUME NEW o \in Devices
        PROVE  Right(o)'
    <2>1. Available(o)' = Available(o) /\ device'[o] = device[o] /\ ~InHand(o)'
      BY <1>1, <1>2 DEF Available, InHand
    <2>2. CASE ~Newest(updates, o) /\ InHand(o) /\ hand.update.available = Available(o)
      <3>1. connected => topic'[o] = Available(o)
        BY <1>1, <2>2 DEF InHand
      <3> QED
        BY <1>1, <2>1, <2>2, <3>1 DEF Right, Newest
    <2>3. CASE ~Newest(updates, o) /\ ~InHand(o) /\ (connected => topic[o] = Available(o))
      <3>1. connected => topic'[o] = Available(o)
        BY <1>1, <2>3 DEF InHand
      <3> QED
        BY <1>1, <2>1, <2>3, <3>1 DEF Right, Newest
    <2>4. CASE \/ o \in evicted \/ (device[o].connected /\ ~device[o].fresh)
               \/ \E i \in DOMAIN updates : LastOf(updates, o, i)
                    /\ updates[i].available = Available(o)
      BY <1>1, <2>1, <2>4 DEF Right, LastOf
    <2> QED
      BY <1>1, <2>2, <2>3, <2>4 DEF Right
  <1> QED
    BY <1>1, <1>3 DEF Newest

\* The snapshots of a new connection are right, and what was evicted is
\* published with them.
LEMMA RightConnected ==
  ASSUME IInv, BrokerConnected, UNCHANGED <<device, updates, hand>>
  PROVE  /\ \A o \in Devices : Right(o)'
         /\ \A o \in evicted' : ~Newest(updates, o)'
  <1>1. /\ \A o \in Devices : Right(o)
        /\ \A o \in evicted : ~Newest(updates, o)
        /\ topic' = [d \in Devices |-> Available(d)]
        /\ evicted' = {d \in evicted : hand.update # None /\ hand.update.device = d}
    BY DEF IInv, BrokerConnected
  <1>2. ASSUME NEW o \in Devices
        PROVE  Right(o)'
    <2>1. /\ Available(o)' = Available(o) /\ device'[o] = device[o]
          /\ topic'[o] = Available(o) /\ (InHand(o)' <=> InHand(o))
      BY <1>1 DEF Available, InHand
    <2>2. CASE o \in evicted /\ ~InHand(o)
      BY <1>1, <2>1, <2>2 DEF Right, Newest
    <2>3. CASE o \in evicted /\ InHand(o)
      <3>1. o \in evicted'
        BY <1>1, <2>3 DEF InHand
      <3> QED
        BY <3>1 DEF Right
    <2>4. CASE o \notin evicted
      BY <1>1, <2>1, <2>4 DEF Right, Newest, LastOf
    <2> QED
      BY <2>2, <2>3, <2>4
  <1> QED
    BY <1>1, <1>2 DEF Newest

\* While there is no connection nothing is expected of the broker.
LEMMA RightCleared ==
  ASSUME IInv, ClearConnection, UNCHANGED <<device, updates, hand>>
  PROVE  /\ \A o \in Devices : Right(o)'
         /\ \A o \in evicted' : ~Newest(updates, o)'
  <1> QED
    BY DEF IInv, ClearConnection, Right, InHand, Newest, LastOf, Available

\* The retained availability stays right through every step.
LEMMA RightKept ==
  IInv /\ [Next]_vars => /\ \A d \in Devices : Right(d)'
                         /\ \A d \in evicted' : ~Newest(updates, d)'
  <1> SUFFICES ASSUME IInv, [Next]_vars
               PROVE  /\ \A d \in Devices : Right(d)'
                      /\ \A d \in evicted' : ~Newest(updates, d)'
    OBVIOUS
  <1>1. CASE UNCHANGED <<device, updates, hand, connected, topic, evicted>>
    BY <1>1, RightFramed
  <1>2. CASE Callback
    <2>1. UNCHANGED <<device, updates, hand>>
      BY <1>2 DEF Callback, stations
    <2>2. CASE BrokerConnected
      BY <2>1, <2>2, RightConnected
    <2>3. CASE \E c : EnqueueCommand(c)
      <3>1. UNCHANGED <<connected, topic, evicted>>
        BY <2>3 DEF EnqueueCommand
      <3> QED
        BY <2>1, <3>1, RightFramed
    <2>4. CASE ClearConnection
      BY <2>1, <2>4, RightCleared
    <2> QED
      BY <1>2, <2>2, <2>3, <2>4 DEF Callback
  <1>3. CASE \E d \in Devices : LinkUp(d) \/ LinkDown(d) \/ Reported(d)
    BY <1>3, StatusPublished, RightPublished DEF IInv
  <1>4. CASE \E d \in Devices : Ages(d)
    BY <1>4, RightAgeing
  <1>5. CASE GetUpdate
    BY <1>5, RightTaken
  <1>6. CASE Serve
    BY <1>6, RightServed
  <1>7. CASE GetCommand
    <2>1. UNCHANGED <<device, updates, connected, topic, evicted>> /\ hand'.update = hand.update
      BY <1>7 DEF GetCommand, stations, IInv, TypeOK
    <2> QED
      BY <2>1 DEF IInv, Right, InHand, Newest, LastOf, Available
  <1>8. CASE Applied
    <2>1. /\ UNCHANGED <<device, updates, connected, topic, evicted>>
          /\ hand.update = None /\ hand'.update = None
      BY <1>8 DEF Applied, EmptyHand, stations, IInv
    <2> QED
      BY <2>1 DEF IInv, Right, InHand, Newest, LastOf, Available
  <1>9. CASE OnConnect \/ OnDisconnect \/ (\E c \in Commands : OnMessage(c)) \/ Started \/ Ends
    BY <1>1, <1>9 DEF OnConnect, OnDisconnect, OnMessage, Started, Ends, stations
  <1>10. CASE UNCHANGED vars
    BY <1>1, <1>10 DEF vars, stations
  <1> QED
    BY <1>2, <1>3, <1>4, <1>5, <1>6, <1>7, <1>8, <1>9, <1>10 DEF Next, Run
-----------------------------------------------------------------------------
(* Types. *)

\* Every step keeps the types.
LEMMA TypeKept ==
  IInv /\ [Next]_vars => TypeOK' /\ (phase' = "applying" => hand'.update = None)
  <1> SUFFICES ASSUME IInv, [Next]_vars
               PROVE  TypeOK' /\ (phase' = "applying" => hand'.update = None)
    OBVIOUS
  <1>0. TypeOK
    BY DEF IInv
  <1>1. broker' \in BOOLEAN /\ connected' \in BOOLEAN
    BY <1>0
       DEF Next, vars, OnConnect, OnMessage, OnDisconnect, Callback, LinkUp, LinkDown,
           Reported, Ages, Run, Started, GetUpdate, GetCommand, Serve, Applied, Ends,
           Changes, fromBroker, stations, answers, BrokerConnected, EnqueueCommand,
           ClearConnection, TypeOK
  <1>2. links' \in 0..MaxLinks /\ changes' \in 0..MaxChanges
    <2>1. MaxLinks \in Nat /\ MaxChanges \in Nat /\ links \in 0..MaxLinks
          /\ changes \in 0..MaxChanges
      BY <1>0, SizesAssumption DEF TypeOK
    <2>2. links' = links \/ (links < MaxLinks /\ links' = links + 1)
      BY DEF Next, vars, OnConnect, OnMessage, OnDisconnect, Callback, LinkUp,
             LinkDown, Reported, Ages, Run, Started, GetUpdate, GetCommand, Serve,
             Applied, Ends, Changes, fromBroker, stations, answers
    <2>3. changes' = changes \/ (changes < MaxChanges /\ changes' = changes + 1)
      BY DEF Next, vars, OnConnect, OnMessage, OnDisconnect, Callback, LinkUp,
             LinkDown, Reported, Ages, Run, Started, GetUpdate, GetCommand, Serve,
             Applied, Ends, Changes, fromBroker, stations, answers
    <2> QED
      BY <2>1, <2>2, <2>3
  <1>3. clears' \in 0..links'
    BY OrderKept
  <1>4. callbacks' \in Seq(Callbacks)
    <2>1. callbacks \in Seq(Callbacks)
      BY <1>0 DEF TypeOK, Callbacks
    <2>2. CASE \E cb \in Callbacks : callbacks' = Append(callbacks, cb)
      BY <2>1, <2>2
    <2>3. CASE callbacks # <<>> /\ callbacks' = Tail(callbacks)
      BY <2>1, <2>3, HeadTailProperties
    <2>4. \A c \in Commands : [type |-> "command", command |-> c] \in Callbacks
      BY DEF Callbacks
    <2>5. \A t \in {"connected", "lost"} : [type |-> t, command |-> None] \in Callbacks
      BY DEF Callbacks
    <2>6. CASE OnConnect \/ OnDisconnect \/ \E c \in Commands : OnMessage(c)
      BY <2>2, <2>4, <2>5, <2>6 DEF OnConnect, OnDisconnect, OnMessage, CallSoon
    <2>7. CASE Callback
      BY <2>3, <2>7 DEF Callback
    <2>8. CASE UNCHANGED callbacks
      BY <2>1, <2>8
    <2> QED
      BY <2>6, <2>7, <2>8
         DEF Next, vars, LinkUp, LinkDown, Reported, Ages, Changes, Run, Started, GetUpdate,
             GetCommand, Serve, Applied, Ends
  <1>5. commands' \in Seq(Commands) /\ Len(commands') <= QueueSize
    <2>1. commands \in Seq(Commands) /\ Len(commands) <= QueueSize /\ QueueSize \in Nat
      BY <1>0, SizesAssumption DEF TypeOK
    <2>2. CASE Callback
      <3>1. \A c \in Commands : EnqueueCommand(c) =>
              commands' \in Seq(Commands) /\ Len(commands') <= QueueSize
        BY <2>1 DEF EnqueueCommand
      <3>2. ClearConnection => commands' \in Seq(Commands) /\ Len(commands') <= QueueSize
        BY <2>1 DEF ClearConnection
      <3>3. BrokerConnected => UNCHANGED commands
        BY DEF BrokerConnected
      <3>4. 1 \in 1..Len(callbacks) /\ Head(callbacks) = callbacks[1]
        BY <1>0, <2>2, EmptySeq DEF TypeOK, Callback
      <3>5. Head(callbacks).type = "command" => Head(callbacks).command \in Commands
        BY <1>0, <3>4, CallbackType
      <3> QED
        BY <2>1, <2>2, <3>1, <3>2, <3>3, <3>5 DEF Callback
    <2>3. CASE GetCommand
      BY <2>1, <2>3, HeadTailProperties DEF GetCommand
    <2>4. CASE UNCHANGED commands
      BY <2>1, <2>4
    <2> QED
      BY <2>2, <2>3, <2>4
         DEF Next, vars, OnConnect, OnDisconnect, OnMessage, LinkUp, LinkDown, Reported, Ages,
             Changes, Run, Started, GetUpdate, Serve, Applied, Ends
  <1>6. updates' \in Seq(Update) /\ Len(updates') <= UpdatesSize /\ evicted' \subseteq Devices
    <2>1. /\ updates \in Seq(Update) /\ Len(updates) <= UpdatesSize /\ UpdatesSize \in Nat
          /\ evicted \subseteq Devices
      BY <1>0, SizesAssumption DEF TypeOK, Update
    <2>2. CASE \E d \in Devices : LinkUp(d) \/ LinkDown(d) \/ Reported(d)
      BY <1>0, <2>2, StatusPublished, Published
    <2>3. CASE GetUpdate
      BY <2>1, <2>3, HeadTailProperties DEF GetUpdate
    <2>4. CASE Callback
      BY <2>1, <2>4 DEF Callback, BrokerConnected, EnqueueCommand, ClearConnection
    <2>5. CASE UNCHANGED <<updates, evicted>>
      BY <2>1, <2>5
    <2> QED
      BY <2>2, <2>3, <2>4, <2>5
         DEF Next, vars, OnConnect, OnDisconnect, OnMessage, Ages, Run, Started, GetCommand,
             Serve, Applied, Ends
  <1>7. phase' \in {"starting", "waiting", "applying", "ended"}
    BY <1>0
       DEF Next, vars, OnConnect, OnMessage, OnDisconnect, Callback, LinkUp, LinkDown,
           Reported, Ages, Run, Started, GetUpdate, GetCommand, Serve, Applied, Ends,
           Changes, fromBroker, stations, answers, BrokerConnected, EnqueueCommand,
           ClearConnection, TypeOK
  <1>8. hand' \in [update : Update \cup {None}, command : Commands \cup {None}]
        /\ (phase' = "applying" => hand'.command # None /\ hand'.update = None)
    <2>1. /\ hand \in [update : Update \cup {None}, command : Commands \cup {None}]
          /\ updates \in Seq(Update) /\ commands \in Seq(Commands)
          /\ phase = "applying" => hand.command # None /\ hand.update = None
          /\ None \notin Commands
      BY <1>0, NoneAssumption DEF IInv, TypeOK, Update
    <2>2. CASE GetUpdate
      <3>1. Head(updates) \in Update
        BY <2>1, <2>2, HeadTailProperties DEF GetUpdate
      <3> QED
        BY <2>1, <2>2, <3>1 DEF GetUpdate
    <2>3. CASE GetCommand
      <3>1. Head(commands) \in Commands
        BY <2>1, <2>3, HeadTailProperties DEF GetCommand
      <3> QED
        BY <2>1, <2>3, <3>1 DEF GetCommand
    <2>4. CASE Serve
      <3>1. CASE hand.command \in Commands \ Unfit
        BY <2>1, <2>4, <3>1 DEF Serve
      <3>2. CASE hand.command \notin Commands \ Unfit
        BY <2>1, <2>4, <3>2 DEF Serve, EmptyHand
      <3> QED
        BY <3>1, <3>2
    <2>5. CASE Applied
      BY <2>1, <2>5 DEF Applied, EmptyHand
    <2>6. CASE Started \/ Ends
      BY <2>1, <2>6 DEF Started, Ends
    <2>7. CASE UNCHANGED <<hand, phase>>
      BY <2>1, <2>7
    <2> QED
      BY <2>2, <2>3, <2>4, <2>5, <2>6, <2>7
         DEF Next, vars, OnConnect, OnDisconnect, OnMessage, Callback, LinkUp, LinkDown,
             Reported, Ages, Changes, Run
  <1>9. device' \in [Devices -> Said]
    <2>1. device \in [Devices -> Said]
      BY <1>0 DEF TypeOK, Said
    <2>2. ASSUME NEW d \in Devices, LinkUp(d) \/ LinkDown(d) \/ Reported(d)
          PROVE  device' \in [Devices -> Said]
      BY <1>0, <2>1, <2>2, StatusPublished DEF Changes
    <2>3. ASSUME NEW d \in Devices, Ages(d)
          PROVE  device' \in [Devices -> Said]
      BY <2>1, <2>3 DEF Ages, Changes, Said
    <2>4. CASE UNCHANGED device
      BY <2>1, <2>4
    <2> QED
      BY <2>2, <2>3, <2>4
         DEF Next, vars, OnConnect, OnDisconnect, OnMessage, Callback, Run, Started, GetUpdate,
             GetCommand, Serve, Applied, Ends, stations
  <1>10. topic' \in [Devices -> BOOLEAN \cup {None}]
    <2>1. /\ topic \in [Devices -> BOOLEAN \cup {None}] /\ device \in [Devices -> Said]
          /\ hand.update # None => hand.update \in Update
      BY <1>0 DEF TypeOK, Said, Update
    <2>2. CASE Serve
      BY <2>1, <2>2 DEF Serve, Update
    <2>3. CASE Callback
      <3>1. \A d \in Devices : Available(d) \in BOOLEAN
        BY DEF Available
      <3>2. CASE topic' = [d \in Devices |-> Available(d)]
        BY <3>1, <3>2
      <3>3. CASE UNCHANGED topic
        BY <2>1, <3>3
      <3> QED
        BY <2>3, <3>2, <3>3 DEF Callback, BrokerConnected, EnqueueCommand, ClearConnection
    <2>4. CASE UNCHANGED topic
      BY <2>1, <2>4
    <2> QED
      BY <2>2, <2>3, <2>4
         DEF Next, vars, OnConnect, OnDisconnect, OnMessage, LinkUp, LinkDown, Reported, Ages,
             Changes, Run, Started, GetUpdate, GetCommand, Applied, Ends
  <1>11. origin' \in [Commands -> 0..MaxLinks]
    <2>1. origin \in [Commands -> 0..MaxLinks] /\ links \in 0..MaxLinks
      BY <1>0 DEF TypeOK
    <2> QED
      BY <2>1
         DEF Next, vars, OnConnect, OnMessage, OnDisconnect, Callback, LinkUp,
             LinkDown, Reported, Ages, Run, Started, GetUpdate, GetCommand, Serve,
             Applied, Ends, Changes, fromBroker, stations, answers
  <1>12. results' \subseteq Commands /\ cleared' \subseteq Commands
    <2>1. /\ results \subseteq Commands /\ cleared \subseteq Commands
          /\ commands \in Seq(Commands) /\ hand.command \in Commands \cup {None}
          /\ phase = "applying" => hand.command # None
      BY <1>0 DEF TypeOK
    <2>2. CASE Callback
      <3>1. \A c \in Commands : EnqueueCommand(c) =>
              results' \subseteq Commands /\ cleared' \subseteq Commands
        BY <2>1 DEF EnqueueCommand
      <3>2. ToSet(commands) \subseteq Commands
        BY <2>1 DEF ToSet
      <3>3. ClearConnection => results' \subseteq Commands /\ cleared' \subseteq Commands
        BY <2>1, <3>2 DEF ClearConnection
      <3>4. BrokerConnected => results' \subseteq Commands /\ cleared' \subseteq Commands
        BY <2>1 DEF BrokerConnected, answers
      <3>5. 1 \in 1..Len(callbacks) /\ Head(callbacks) = callbacks[1]
        BY <1>0, <2>2, EmptySeq DEF TypeOK, Callback
      <3>6. Head(callbacks).type = "command" => Head(callbacks).command \in Commands
        BY <1>0, <3>5, CallbackType
      <3> QED
        BY <2>2, <3>1, <3>3, <3>4, <3>6 DEF Callback
    <2>3. CASE Serve \/ Applied
      BY <2>1, <2>3 DEF Serve, Applied
    <2>4. CASE UNCHANGED answers
      BY <2>1, <2>4 DEF answers
    <2> QED
      BY <2>2, <2>3, <2>4
         DEF Next, vars, OnConnect, OnDisconnect, OnMessage, LinkUp, LinkDown, Reported, Ages,
             Changes, Run, Started, GetUpdate, GetCommand, Ends
  <1> QED
    BY <1>1, <1>2, <1>3, <1>4, <1>5, <1>6, <1>7, <1>8, <1>9, <1>10, <1>11, <1>12
       DEF TypeOK, Callbacks, Update, Said
-----------------------------------------------------------------------------
(* The theorems. *)

\* The first state has nothing to be wrong about.
LEMMA InitInv == Init => IInv
  <1> SUFFICES ASSUME Init PROVE IInv
    OBVIOUS
  <1>1. TypeOK
    <2>1. MaxLinks \in Nat /\ MaxChanges \in Nat /\ QueueSize \in Nat /\ UpdatesSize \in Nat
      BY SizesAssumption
    <2>2. /\ broker \in BOOLEAN /\ connected \in BOOLEAN
          /\ links \in 0..MaxLinks /\ clears \in 0..links /\ changes \in 0..MaxChanges
      <3>1. broker = FALSE /\ connected = FALSE /\ links = 0 /\ clears = 0 /\ changes = 0
        BY DEF Init
      <3>2. broker \in BOOLEAN /\ connected \in BOOLEAN
        BY <3>1
      <3>3. links \in 0..MaxLinks /\ clears \in 0..links /\ changes \in 0..MaxChanges
        BY <2>1, <3>1
      <3> QED
        BY <3>2, <3>3
    <2>3. callbacks \in Seq(Callbacks)
      BY DEF Init
    <2>4. commands \in Seq(Commands) /\ Len(commands) <= QueueSize
      BY <2>1 DEF Init
    <2>5. updates \in Seq(Update) /\ Len(updates) <= UpdatesSize
      BY <2>1 DEF Init
    <2>6. hand \in [update : Update \cup {None}, command : Commands \cup {None}]
      BY DEF Init, EmptyHand
    <2>7. device \in [Devices -> Said]
      BY DEF Init, Said
    <2>8. /\ topic \in [Devices -> BOOLEAN \cup {None}] /\ origin \in [Commands -> 0..MaxLinks]
          /\ results \subseteq Commands /\ cleared \subseteq Commands /\ evicted \subseteq Devices
          /\ phase = "starting"
      BY <2>1 DEF Init
    <2> QED
      BY <2>2, <2>3, <2>4, <2>5, <2>6, <2>7, <2>8 DEF TypeOK, Callbacks, Update, Said
  <1>2. InOrder
    <2> DEFINE none == [i \in 0..0 |-> 0]
    <2>1. Len(callbacks) = 0 /\ links = 0 /\ clears = 0 /\ broker = FALSE
      BY DEF Init
    <2>2. none \in [0..Len(callbacks) -> 0..links] /\ none[0] = 0
      BY <2>1
    <2> HIDE DEF none
    <2>3. Counts(none)
      BY <2>1, <2>2 DEF Counts
    <2> QED
      BY <2>2, <2>3 DEF InOrder
  <1>3. QueueIsCurrent
    BY DEF Init, QueueIsCurrent
  <1>4. \A d \in Devices : Right(d)
    BY DEF Init, Right, InHand, EmptyHand, Newest
  <1> QED
    BY <1>1, <1>2, <1>3, <1>4 DEF Init, IInv

\* IInv is inductive.
LEMMA NextInv == IInv /\ [Next]_vars => IInv'
  <1> SUFFICES ASSUME IInv, [Next]_vars PROVE IInv'
    OBVIOUS
  <1>1. TypeOK' /\ (phase' = "applying" => hand'.update = None)
    BY TypeKept
  <1>2. InOrder' /\ QueueIsCurrent'
    BY OrderKept
  <1>3. (\A d \in Devices : Right(d)') /\ (\A d \in evicted' : ~Newest(updates, d)')
    BY RightKept
  <1> QED
    BY <1>1, <1>2, <1>3 DEF IInv

\* IInv holds in every reachable state.
LEMMA Invariance == Spec => []IInv
  BY InitInv, NextInv, PTL DEF Spec

\* Every variable of the bridge keeps its type, and its queues their limits.
THEOREM TypeCorrect == Spec => []TypeOK
  <1>1. IInv => TypeOK
    BY DEF IInv
  <1> QED
    BY Invariance, <1>1, PTL

\* A command that waits in the bridge's queue came over the connection the
\* bridge believes it has, however the network thread and the event loop
\* interleave and however often the broker goes away.
THEOREM QueueStaysCurrent == Spec => []QueueIsCurrent
  <1>1. IInv => QueueIsCurrent
    BY DEF IInv
  <1> QED
    BY Invariance, <1>1, PTL

\* While the bridge is connected, the availability that the broker retains for
\* a device is right, or the update that corrects it is on its way, but for
\* the two exceptions the property names.
THEOREM TopicsAreRight == Spec => []TopicIsRight
  <1>1. IInv => TopicIsRight
    <2> SUFFICES ASSUME IInv, connected, NEW d \in Devices
                 PROVE  LET ahead == IF hand.update = None THEN updates
                                                           ELSE <<hand.update>> \o updates
                        IN  \/ ~Newest(ahead, d) /\ topic[d] = Available(d)
                            \/ \E i \in DOMAIN ahead :
                                 LastOf(ahead, d, i) /\ ahead[i].available = Available(d)
                            \/ device[d].connected /\ ~device[d].fresh
                            \/ d \in evicted
      BY DEF TopicIsRight
    <2>1. /\ Right(d) /\ updates \in Seq(Update)
          /\ hand.update # None => hand.update \in Update
      BY DEF IInv, TypeOK, Update
    <2>2. CASE hand.update = None
      BY <2>1, <2>2 DEF Right, InHand
    <2>3. CASE hand.update # None
      <3> DEFINE ahead == <<hand.update>> \o updates
      <3>1. /\ DOMAIN updates = 1..Len(updates) /\ Len(updates) \in Nat
            /\ DOMAIN ahead = 1..(Len(updates) + 1)
            /\ ahead[1] = hand.update
            /\ \A i \in 1..Len(updates) : ahead[i + 1] = updates[i]
        BY <2>1, <2>3
      <3> HIDE DEF ahead
      <3>2. ASSUME NEW i \in DOMAIN ahead, i # 1
            PROVE  i - 1 \in DOMAIN updates /\ ahead[i] = updates[i - 1]
        BY <3>1, <3>2
      <3>3. CASE \E i \in DOMAIN updates : LastOf(updates, d, i)
                   /\ updates[i].available = Available(d)
        <4>1. PICK i \in DOMAIN updates : LastOf(updates, d, i)
                     /\ updates[i].available = Available(d)
          BY <3>3
        <4>2. i + 1 \in DOMAIN ahead /\ ahead[i + 1] = updates[i]
          BY <3>1
        <4>3. LastOf(ahead, d, i + 1)
          BY <3>1, <3>2, <4>1, <4>2 DEF LastOf
        <4> QED
          BY <2>3, <4>1, <4>2, <4>3 DEF ahead
      <3>4. CASE ~Newest(updates, d) /\ InHand(d) /\ hand.update.available = Available(d)
        <4>1. 1 \in DOMAIN ahead /\ LastOf(ahead, d, 1) /\ ahead[1].available = Available(d)
          BY <3>1, <3>2, <3>4 DEF LastOf, Newest, InHand
        <4> QED
          BY <2>3, <4>1 DEF ahead
      <3>5. CASE ~Newest(updates, d) /\ ~InHand(d) /\ topic[d] = Available(d)
        <4>1. ~Newest(ahead, d)
          BY <2>3, <3>1, <3>2, <3>5 DEF Newest, InHand
        <4> QED
          BY <2>3, <3>5, <4>1 DEF ahead
      <3> QED
        BY <2>1, <3>3, <3>4, <3>5 DEF Right
    <2> QED
      BY <2>2, <2>3
  <1> QED
    BY Invariance, <1>1, PTL
=============================================================================
