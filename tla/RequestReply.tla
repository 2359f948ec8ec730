---------------------------- MODULE RequestReply ----------------------------
(***************************************************************************)
(* What the native-MQTT endpoint promises to the code that calls           *)
(* _Connection.request() (python/solix_link/mqtt_intercept.py): on one     *)
(* link at most one request is outstanding, its outcome is the reply to    *)
(* this very request or a failure, and a link on which a request was given *)
(* up without an outcome carries no further request. Of a station that     *)
(* defers its answers into reports (an original C1000) it promises less:   *)
(* the outcome is a report or the answer to some request that was never    *)
(* given up.                                                               *)
(***************************************************************************)
EXTENDS Naturals

CONSTANT Links

VARIABLES
  deferring, \* BOOLEAN, fixed: may a report take the place of the answer?
  usable,    \* [Links -> BOOLEAN] requests may be sent
  asked,     \* [Links -> Nat] requests sent; their numbers are 1..asked
  abandoned, \* [Links -> SUBSET Nat] requests that were given up
  exchange,  \* [Links -> ...] the outcome of the outstanding request
  reply      \* [Links -> Nat] the request the outcome answers, or 0

vars == <<deferring, usable, asked, abandoned, exchange, reply>>

Exchanges == {"none", "waiting", "answered", "failed"}

Init ==
  /\ deferring \in BOOLEAN
  /\ usable = [l \in Links |-> TRUE]
  /\ asked = [l \in Links |-> 0]
  /\ abandoned = [l \in Links |-> {}]
  /\ exchange = [l \in Links |-> "none"]
  /\ reply = [l \in Links |-> 0]

Ask(l) ==
  /\ usable[l] /\ exchange[l] = "none"
  /\ asked' = [asked EXCEPT ![l] = @ + 1]
  /\ exchange' = [exchange EXCEPT ![l] = "waiting"]
  /\ UNCHANGED <<deferring, usable, abandoned, reply>>

\* What can answer the outstanding request; 0 is a report.
Answers(l) == IF deferring THEN 0..asked[l] \ abandoned[l] ELSE {asked[l]}

Answer(l) ==
  /\ exchange[l] = "waiting"
  /\ exchange' = [exchange EXCEPT ![l] = "answered"]
  /\ \E r \in Answers(l) : reply' = [reply EXCEPT ![l] = r]
  /\ UNCHANGED <<deferring, usable, asked, abandoned>>

\* The link may fall at any time, with or without a request outstanding.
Fail(l) ==
  /\ usable' = [usable EXCEPT ![l] = FALSE]
  /\ \/ UNCHANGED exchange
     \/ exchange[l] = "waiting" /\ exchange' = [exchange EXCEPT ![l] = "failed"]
  /\ UNCHANGED <<deferring, asked, abandoned, reply>>

\* The caller takes the outcome, and may then refuse to go on with the link.
Take(l) ==
  /\ exchange[l] \in {"answered", "failed"}
  /\ exchange' = [exchange EXCEPT ![l] = "none"]
  /\ reply' = [reply EXCEPT ![l] = 0]
  /\ usable' \in {usable, [usable EXCEPT ![l] = FALSE]}
  /\ UNCHANGED <<deferring, asked, abandoned>>

\* A timeout or a cancellation ends the request; the link with it.
GiveUp(l) ==
  /\ exchange[l] # "none"
  /\ exchange' = [exchange EXCEPT ![l] = "none"]
  /\ reply' = [reply EXCEPT ![l] = 0]
  /\ abandoned' = [abandoned EXCEPT ![l] = @ \cup {asked[l]}]
  /\ usable' = [usable EXCEPT ![l] = FALSE]
  /\ UNCHANGED <<deferring, asked>>

Next == \E l \in Links : Ask(l) \/ Answer(l) \/ Fail(l) \/ Take(l) \/ GiveUp(l)

Spec == Init /\ [][Next]_vars
=============================================================================
