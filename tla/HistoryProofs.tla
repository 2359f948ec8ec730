--------------------------- MODULE HistoryProofs ---------------------------
(***************************************************************************)
(* What History guarantees for any clock, limits and number of restarts:   *)
(* the covered time of a station fits between its first and last report    *)
(* and is what its rows ever added up to, no interval spans a break, a     *)
(* crash loses none of the totals, the rows draw what was integrated, and  *)
(* their cap is kept.  What the recursive functions over rows compute is   *)
(* proved by induction in the form of a least number that fails.           *)
(***************************************************************************)
EXTENDS History, SequenceTheorems, WellFoundedInduction, TLAPS

-----------------------------------------------------------------------------
(* What is true of a station and of a transaction between any two steps.   *)

\* Stations in memory.  Which signature a station has does not matter to the
\* theorems: S holds those that are possible.
Stations(S) ==
  [context : Contexts, highwater : Times \cup {None}, seconds : Nat, gaps : Nat,
   gapOpen : BOOLEAN, hasSamples : BOOLEAN, start : Times \cup {None},
   previous : Readings \cup {None}, signature : S, restarted : BOOLEAN]

\* The endpoint of the next interval is the last report, and what is covered
\* lies between the first report and the last.
StationOK(s) ==
  /\ s.hasSamples => /\ s.highwater # None /\ s.start # None
                     /\ s.seconds <= s.highwater - s.start
  /\ ~s.hasSamples => s.seconds = 0 /\ s.highwater = None
  /\ s.previous # None => s.hasSamples /\ s.previous.time = s.highwater

\* The columns of row st hold station s, but perhaps for its gaps.
SavedAs(st, s) == \A f \in PersistentFields \ {"gaps", "gapOpen"} : st[f] = s[f]

\* Transactions of record().
Works(S) == [station : Stations(S), stored : Persistent, added : Seq(Rows)]

WorkOK(w) == StationOK(w.station) /\ SavedAs(w.stored, w.station)

\* The transaction has stored a reading.
Read(w) == w.added # <<>> /\ IsReading(Last(w.added))

USE NoneAssumption, TimesAssumption DEF Times

\* A row at the end of the added ones.
LEMMA AppendRow ==
  ASSUME NEW rs \in Seq(Rows), NEW r \in Rows
  PROVE  /\ Append(rs, r) \in Seq(Rows) /\ Append(rs, r) # <<>>
         /\ Last(Append(rs, r)) = r
  BY DEF Last

\* Saving makes the row the station.
LEMMA SaveStep ==
  ASSUME NEW S, NEW w \in Works(S), StationOK(w.station)
  PROVE  /\ Save(w) \in Works(S) /\ WorkOK(Save(w))
         /\ Save(w).station = w.station /\ Save(w).added = w.added
         /\ Save(w).stored = Claims(w.station)
         /\ Read(Save(w)) <=> Read(w)
<1>1. Claims(w.station) \in Persistent
  BY DEF Claims, Persistent, PersistentFields, Works, Stations
<1>2. \A f \in PersistentFields : Claims(w.station)[f] = w.station[f]
  BY DEF Claims
<1>3. /\ Save(w) \in Works(S) /\ Save(w).stored = Claims(w.station)
      /\ Save(w).station = w.station /\ Save(w).added = w.added
  BY <1>1 DEF Save, Works
<1> QED
  BY <1>2, <1>3 DEF WorkOK, SavedAs, Read

\* An interruption leaves everything but the pair and the flags.
LEMMA InterruptedFields ==
  ASSUME NEW S, NEW s \in Stations(S)
  PROVE  /\ Interrupted(s) \in Stations(S)
         /\ Interrupted(s).previous = None /\ Interrupted(s).gaps = s.gaps
         /\ Interrupted(s).restarted = FALSE /\ Interrupted(s).gapOpen = TRUE
         /\ \A f \in PersistentFields \ {"gaps", "gapOpen"} : Interrupted(s)[f] = s[f]
  BY DEF Interrupted, Stations, PersistentFields

\* Transaction b is w after a break: the pair has ended and no total but the
\* number of gaps has changed; a marker is at the time of the last report.
Broken(S, w, b) ==
  /\ b \in Works(S) /\ WorkOK(b) /\ ~Read(b) /\ b.stored = w.stored
  /\ b.station.previous = None /\ b.station.gapOpen /\ ~b.station.restarted
  /\ \A f \in PersistentFields \ {"gaps", "gapOpen"} : b.station[f] = w.station[f]
  /\ b.station.gaps - w.station.gaps \in {0, 1}
  /\ \/ b.added = w.added
     \/ w.station.hasSamples /\ b.added = Append(w.added, Marker(w.station.highwater))

\* That is what _break() does.
LEMMA BreakStep ==
  ASSUME NEW S, NEW w \in Works(S), WorkOK(w), ~Read(w),
         NEW now \in Times, NEW marker \in BOOLEAN
  PROVE  Broken(S, w, Break(w, now, marker))
<1> DEFINE s == w.station
           b == Break(w, now, marker)
           counts == s.hasSamples /\ ~s.gapOpen
           i == Interrupted(s)
           broken == [i EXCEPT !.gaps = IF counts THEN @ + 1 ELSE @]
           mark == Marker(MarkerTime(s, now))
           added == IF counts /\ marker THEN Append(w.added, mark) ELSE w.added
<1>1. s \in Stations(S) /\ w.added \in Seq(Rows) /\ w.stored \in Persistent
  BY DEF Works
<1>2. b = [w EXCEPT !.station = broken, !.added = added]
  BY DEF Break
<1>3. /\ broken \in Stations(S) /\ broken.previous = None
      /\ \A f \in PersistentFields \ {"gaps", "gapOpen"} : broken[f] = s[f]
      /\ broken.gaps - s.gaps \in {0, 1}
      /\ broken.gapOpen = TRUE /\ broken.restarted = FALSE
  <2>1. /\ i \in Stations(S) /\ i.gapOpen = TRUE /\ i.restarted = FALSE /\ i.previous = None /\ i.gaps = s.gaps
        /\ \A f \in PersistentFields \ {"gaps", "gapOpen"} : i[f] = s[f]
    BY <1>1, InterruptedFields
  <2> HIDE DEF i, counts
  <2>2. /\ broken \in Stations(S) /\ broken.previous = i.previous
        /\ broken.gaps - i.gaps \in {0, 1}
        /\ broken.gapOpen = i.gapOpen /\ broken.restarted = i.restarted
    BY <2>1 DEF Stations
  <2>3. \A f \in PersistentFields \ {"gaps", "gapOpen"} : broken[f] = i[f]
    BY <2>1 DEF Stations, PersistentFields
  <2> QED
    BY <2>1, <2>2, <2>3
<1>4. mark \in Rows /\ ~IsReading(mark)
  BY <1>1 DEF Marker, MarkerTime, Rows, IsReading, Stations
<1>5. added \in Seq(Rows) /\ (added = <<>> \/ ~IsReading(Last(added)))
  BY <1>1, <1>4, AppendRow DEF Read
<1>8. added = w.added \/ (s.hasSamples /\ added = Append(w.added, Marker(s.highwater)))
  <2>1. s.hasSamples => MarkerTime(s, now) = s.highwater
    BY DEF WorkOK, StationOK, MarkerTime
  <2> QED
    BY <2>1
<1> HIDE DEF broken, added, b, s
<1>6. b \in Works(S) /\ b.station = broken /\ b.stored = w.stored /\ b.added = added
  BY <1>1, <1>2, <1>3, <1>5 DEF Works
<1>7. StationOK(broken) /\ SavedAs(w.stored, broken)
  BY <1>3 DEF WorkOK, StationOK, SavedAs, PersistentFields, s
<1> QED
  BY <1>3, <1>5, <1>6, <1>7, <1>8 DEF WorkOK, Read, Broken, b, s

\* Transaction a is w after a new reading r: the reading is the endpoint of the
\* next interval, and its row, the last one, integrates the pair with the last
\* reading or nothing.
Accepted(S, w, a, r, invalid) ==
  LET s == w.station
      row == Last(a.added)
  IN /\ a \in Works(S) /\ WorkOK(a) /\ Read(a)
     /\ row \in Rows /\ a.added = Append(w.added, row)
     /\ a.station.highwater = r.time /\ row.time = r.time
     /\ row.start # None =>
          /\ ~invalid /\ r.context = s.context
          /\ s.previous # None /\ row.start = s.previous.time
     /\ a.station.seconds = s.seconds + row.seconds
     /\ a.station.previous = IF invalid THEN None ELSE r
     /\ a.station.hasSamples /\ a.station.gapOpen = invalid
     /\ a.stored = Claims(a.station)
     /\ ~s.restarted => ~a.station.restarted
     /\ (s.gapOpen <=> s.previous = None) => (row.gap <=> row.start = None)

\* That is what the rest of _record_one() does.
LEMMA AcceptStep ==
  ASSUME NEW S, Readings \subseteq S, NEW w \in Works(S), WorkOK(w), ~Read(w),
         NEW now \in Times, NEW r \in Readings, NEW invalid \in BOOLEAN,
         ~Replayed(w.station, r)
  PROVE  Accepted(S, w, Accept(w, now, r, invalid), r, invalid)
<1> DEFINE s == w.station
           cut == \/ invalid \/ r.context # s.context
                  \/ s.previous # None /\ r.time - s.previous.time > MaxGap
           b == (IF cut THEN Break(w, now, FALSE) ELSE w).station
           pair == b.previous # None /\ 0 < r.time - b.previous.time
           seconds == IF pair /\ HasPower(b.previous.value) /\ HasPower(r.value)
                      THEN r.time - b.previous.time ELSE 0
           row == [time |-> r.time, value |-> r.value, gap |-> b.gapOpen,
                   delta |-> b.gaps - s.gaps,
                   start |-> IF pair THEN b.previous.time ELSE None, seconds |-> seconds]
           accepted == [b EXCEPT !.context = r.context, !.highwater = r.time, !.signature = r,
                            !.seconds = @ + seconds,
                            !.start = IF s.hasSamples THEN @ ELSE r.time,
                            !.hasSamples = TRUE,
                            !.previous = IF invalid THEN None ELSE r,
                            !.gapOpen = invalid]
           v == [w EXCEPT !.station = accepted, !.added = Append(@, row)]
<1>1. s \in Stations(S) /\ w.added \in Seq(Rows) /\ StationOK(s)
  BY DEF Works, WorkOK
<1>2. r.time \in Times /\ r.context \in Contexts /\ r.value \in Values /\ r.value # None
  BY DEF Readings
<1>3. /\ b \in Stations(S) /\ b.gaps - s.gaps \in {0, 1}
      /\ b.seconds = s.seconds /\ b.start = s.start
      /\ b.previous # None => ~invalid /\ r.context = s.context /\ b.previous = s.previous
      /\ ~s.restarted => ~b.restarted
      /\ (s.gapOpen <=> s.previous = None) => (b.gapOpen <=> b.previous = None)
  <2>1. CASE cut
    <3> DEFINE d == Break(w, now, FALSE)
    <3>0. Broken(S, w, d)
      BY BreakStep
    <3>1. /\ d \in Works(S) /\ d.station.previous = None
          /\ d.station.gapOpen /\ ~d.station.restarted
          /\ \A f \in PersistentFields \ {"gaps", "gapOpen"} : d.station[f] = s[f]
          /\ d.station.gaps - s.gaps \in {0, 1}
      BY <3>0 DEF Broken
    <3>2. b = d.station
      BY <2>1
    <3> QED
      BY <3>1, <3>2 DEF Works, PersistentFields
  <2>2. CASE ~cut
    <3>1. b = s
      BY <2>2
    <3>2. s.gaps - s.gaps = 0
      BY <1>1 DEF Stations
    <3> QED
      BY <1>1, <2>2, <3>1, <3>2
  <2> QED
    BY <2>1, <2>2
<1> HIDE DEF b, s
<1>4. b.previous # None => /\ b.previous \in Readings /\ s.hasSamples
                           /\ b.previous.time = s.highwater
                           /\ b.previous.time < r.time
  <2> SUFFICES ASSUME b.previous # None PROVE /\ b.previous \in Readings /\ s.hasSamples
                           /\ b.previous.time = s.highwater
                           /\ b.previous.time < r.time
    OBVIOUS
  <2>1. s.previous # None /\ b.previous = s.previous /\ s.previous \in Readings
    BY <1>1, <1>3 DEF Stations
  <2>2. s.hasSamples /\ s.previous.time = s.highwater /\ s.highwater # None
    BY <1>1, <2>1 DEF StationOK
  <2>3. s.highwater < r.time
    BY <1>1, <1>2, <2>2 DEF Replayed, s, Stations
  <2> QED
    BY <2>1, <2>2, <2>3
<1>5. seconds \in Nat /\ (seconds # 0 => b.previous # None /\ seconds = r.time - s.highwater)
  BY <1>2, <1>4 DEF Readings
<1> HIDE DEF seconds
<1>6. row \in Rows
  BY <1>2, <1>3, <1>4, <1>5 DEF Rows, Readings, Stations
<1>14. r \in S /\ (IF s.hasSamples THEN b.start ELSE r.time) \in Times \cup {None}
  BY <1>1, <1>2, <1>3 DEF Stations
<1>15. b.seconds + seconds \in Nat
  BY <1>3, <1>5 DEF Stations
<1>7. /\ accepted \in Stations(S)
      /\ accepted.highwater = r.time /\ accepted.hasSamples = TRUE
      /\ accepted.seconds = s.seconds + seconds
      /\ accepted.start = IF s.hasSamples THEN s.start ELSE r.time
      /\ accepted.previous = IF invalid THEN None ELSE r
      /\ accepted.gapOpen = invalid /\ accepted.restarted = b.restarted
  BY <1>2, <1>3, <1>14, <1>15 DEF Stations
<1> HIDE DEF accepted, row
<1>8. StationOK(accepted)
  <2>1. accepted.seconds <= accepted.highwater - accepted.start
    <3>1. CASE s.hasSamples
      <4>1. /\ s.highwater \in Times /\ s.start \in Times /\ s.seconds \in Nat
            /\ s.seconds <= s.highwater - s.start
        BY <1>1, <3>1 DEF StationOK, Stations
      <4>2. s.highwater < r.time
        BY <1>2, <4>1 DEF Replayed, s
      <4> QED
        BY <1>2, <1>5, <1>7, <3>1, <4>1, <4>2
    <3>2. CASE ~s.hasSamples
      BY <1>1, <1>2, <1>4, <1>5, <1>7, <3>2 DEF StationOK
    <3> QED
      BY <3>1, <3>2
  <2>2. accepted.start # None
    BY <1>1, <1>2, <1>7 DEF StationOK
  <2> QED
    BY <1>2, <1>7, <2>1, <2>2 DEF StationOK
<1>9. v \in Works(S) /\ v.station = accepted /\ v.added = Append(w.added, row)
  BY <1>1, <1>6, <1>7, AppendRow DEF Works
<1>10. v.added # <<>> /\ Last(v.added) = row
  BY <1>1, <1>6, <1>9, AppendRow
<1>11. Accept(w, now, r, invalid) = Save(v)
  BY DEF Accept, b, s, accepted, row, seconds
<1>12. /\ IsReading(row) /\ row.time = r.time /\ row.gap = b.gapOpen /\ row.seconds = seconds
       /\ row.start # None => b.previous # None /\ row.start = b.previous.time
  BY <1>2 DEF row, IsReading
<1>16. row.start = None <=> b.previous = None
  <2>1. b.previous # None => pair /\ b.previous.time \in Times
    BY <1>2, <1>4 DEF Readings
  <2> QED
    BY <2>1 DEF row
<1> HIDE DEF v
<1>13. /\ Save(v) \in Works(S) /\ WorkOK(Save(v)) /\ Read(Save(v))
       /\ Save(v).station = accepted /\ Save(v).added = v.added
       /\ Save(v).stored = Claims(accepted)
  <2>1. StationOK(v.station) /\ Read(v)
    BY <1>8, <1>9, <1>10, <1>12 DEF Read
  <2> QED
    BY <1>9, <2>1, SaveStep
<1> QED
  BY <1>3, <1>6, <1>7, <1>9, <1>10, <1>11, <1>12, <1>13, <1>16 DEF Accepted, s

\* How transaction a continues station s: a stored reading is its new
\* endpoint and is paired only with its old one, the old one remains only if
\* the report is unchanged, and either only if whole holds.
Continues(a, s, whole, latest) ==
  /\ Read(a) =>
       /\ a.station.previous # None => a.station.previous.time = Last(a.added).time
       /\ Last(a.added).start # None =>
            /\ whole /\ s.previous # None /\ latest > s.highwater
            /\ Last(a.added).start = s.previous.time
  /\ ~Read(a) /\ a.station.previous # None =>
       whole /\ a.station.previous = s.previous /\ latest = s.highwater

\* A report that can be used to continue station s.
Usable(s, snap, now, rollback) ==
  ~Unavailable(snap, now, rollback) /\ ~snap.invalid /\ snap.context = s.context

\* A break that is saved.
LEMMA SavedBreak ==
  ASSUME NEW S, NEW w \in Works(S), WorkOK(w), ~Read(w), NEW now \in Times
  PROVE  LET a == Save(Break(w, now, TRUE))
         IN /\ a \in Works(S) /\ WorkOK(a) /\ ~Read(a)
            /\ a.station.previous = None /\ a.station.highwater = w.station.highwater
<1> DEFINE b == Break(w, now, TRUE)
<1>0. Broken(S, w, b)
  BY BreakStep
<1>1. /\ b \in Works(S) /\ WorkOK(b) /\ ~Read(b) /\ b.station.previous = None
      /\ \A f \in PersistentFields \ {"gaps", "gapOpen"} : b.station[f] = w.station[f]
  BY <1>0 DEF Broken
<1> HIDE DEF b
<1>2. b.station.highwater = w.station.highwater
  BY <1>1 DEF PersistentFields
<1>3. /\ Save(b) \in Works(S) /\ WorkOK(Save(b)) /\ ~Read(Save(b))
      /\ Save(b).station = b.station
  BY <1>1, SaveStep DEF WorkOK
<1> QED
  BY <1>1, <1>2, <1>3 DEF b

\* _record_one() continues a station only with a usable report.
LEMMA RecordOneStep ==
  ASSUME NEW S, Readings \subseteq S, NEW w \in Works(S), WorkOK(w), ~Read(w),
         NEW now \in Times, NEW snap \in Inputs, snap.kind # "missing",
         NEW rollback \in BOOLEAN
  PROVE  LET a == RecordOne(w, snap, now, rollback)
         IN /\ a \in Works(S) /\ WorkOK(a)
            /\ Continues(a, w.station, Usable(w.station, snap, now, rollback), snap.latest)
<1> DEFINE s == w.station
           v == IF s.restarted THEN Break(w, now, TRUE) ELSE w
           r == Reading(snap)
           a == RecordOne(w, snap, now, rollback)
           usable == Usable(s, snap, now, rollback)
<1>1. /\ v \in Works(S) /\ WorkOK(v) /\ ~Read(v)
      /\ v.station.previous # None => v.station.previous = s.previous
      /\ v.station.highwater = s.highwater /\ v.station.context = s.context
  <2>1. CASE s.restarted
    <3> DEFINE d == Break(w, now, TRUE)
    <3>0. Broken(S, w, d)
      BY BreakStep
    <3>1. /\ d \in Works(S) /\ WorkOK(d) /\ ~Read(d) /\ d.station.previous = None
          /\ \A f \in PersistentFields \ {"gaps", "gapOpen"} : d.station[f] = s[f]
      BY <3>0 DEF Broken
    <3>2. v = d
      BY <2>1
    <3> HIDE DEF d, v
    <3>3. d.station.highwater = s.highwater /\ d.station.context = s.context
      BY <3>1 DEF PersistentFields
    <3> QED
      BY <3>1, <3>2, <3>3
  <2>2. CASE ~s.restarted
    BY <2>2
  <2> QED
    BY <2>1, <2>2
<1>2. CASE Unavailable(snap, now, rollback)
  <2>1. a = Save(Break(v, now, TRUE))
    BY <1>2 DEF RecordOne
  <2> HIDE DEF v, a
  <2>2. a \in Works(S) /\ WorkOK(a) /\ ~Read(a) /\ a.station.previous = None
    BY <1>1, <2>1, SavedBreak
  <2> QED
    BY <2>2 DEF Continues, a
<1>3. CASE ~Unavailable(snap, now, rollback)
  <2>1. /\ r \in Readings /\ r.time = snap.latest /\ r.context = snap.context
        /\ snap.latest \in Times /\ snap.invalid \in BOOLEAN
    <3>1. snap \in Reports
      BY <1>3 DEF Unavailable, Inputs
    <3> QED
      BY <3>1 DEF Reports, Reading, Readings
  <2>2. CASE ~Replayed(v.station, r)
    <3>1. a = Accept(v, now, r, snap.invalid)
      BY <1>3, <2>2 DEF RecordOne
    <3> HIDE DEF v, r
    <3>2. /\ a \in Works(S) /\ WorkOK(a) /\ Read(a)
          /\ a.station.highwater = r.time /\ Last(a.added).time = r.time
          /\ Last(a.added).start # None =>
               /\ ~snap.invalid /\ r.context = v.station.context
               /\ v.station.previous # None
               /\ Last(a.added).start = v.station.previous.time
      <4>1. Accepted(S, v, a, r, snap.invalid)
        BY <1>1, <2>1, <2>2, <3>1, AcceptStep
      <4> QED
        BY <4>1 DEF Accepted
    <3>3. a.station.previous # None => a.station.previous.time = Last(a.added).time
      BY <3>2 DEF WorkOK, StationOK
    <3>4. Last(a.added).start # None =>
            /\ usable /\ s.previous # None /\ snap.latest > s.highwater
            /\ Last(a.added).start = s.previous.time
      <4> SUFFICES ASSUME Last(a.added).start # None
                   PROVE  /\ usable /\ s.previous # None /\ snap.latest > s.highwater
                          /\ Last(a.added).start = s.previous.time
        OBVIOUS
      <4>1. v.station.previous # None /\ usable
        BY <1>1, <1>3, <2>1, <3>2 DEF Usable
      <4>2. s.hasSamples /\ s.highwater # None /\ s.highwater \in Times
        BY <1>1, <4>1 DEF WorkOK, StationOK, Works, Stations
      <4>3. snap.latest > s.highwater
        BY <1>1, <2>1, <2>2, <4>2 DEF Replayed
      <4> QED
        BY <1>1, <3>2, <4>1, <4>3
    <3> QED
      BY <3>2, <3>3, <3>4 DEF Continues
  <2>3. CASE Replayed(v.station, r) /\ Conflicting(v.station, r, snap.invalid)
    <3>1. a = Save(Break(v, now, TRUE))
      BY <1>3, <2>3 DEF RecordOne
    <3> HIDE DEF v, a
    <3>2. a \in Works(S) /\ WorkOK(a) /\ ~Read(a) /\ a.station.previous = None
      BY <1>1, <3>1, SavedBreak
    <3> QED
      BY <3>2 DEF Continues, a
  <2>4. CASE Replayed(v.station, r) /\ ~Conflicting(v.station, r, snap.invalid)
    <3>1. a = v
      BY <1>3, <2>4 DEF RecordOne
    <3>2. ~snap.invalid /\ snap.latest = s.highwater /\ snap.context = s.context
      <4>1. v.station.highwater \in Times /\ r.time <= v.station.highwater
        BY <1>1, <2>4 DEF Replayed, Works, Stations
      <4> HIDE DEF v
      <4> QED
        BY <1>1, <2>1, <2>4, <4>1 DEF Conflicting
    <3> HIDE DEF v
    <3> QED
      BY <1>1, <1>3, <3>1, <3>2 DEF Continues, Usable
  <2> QED
    BY <2>2, <2>3, <2>4
<1> QED
  BY <1>2, <1>3

-----------------------------------------------------------------------------
(* The invariant. *)

\* What the module keeps true: the endpoint in memory is the last reading that
\* no break followed, unless a failed record() is still to be made a break.
HistoryInv ==
  /\ station \in Stations({station.signature}) /\ StationOK(station)
  /\ stored \in Persistent /\ SavedAs(stored, station)
  /\ chain \in Times \cup {None} /\ resetRequired \in BOOLEAN
  /\ station.previous # None /\ ~resetRequired => chain = station.previous.time
  /\ bridged = FALSE

\* Nothing that this poll sees breaks the continuity.
Unbroken(snap, now) ==
  /\ ~ClockChanged(now) /\ ~Rollback(now) /\ ~resetRequired
  /\ snap.kind # "missing" /\ ~Unavailable(snap, now, FALSE) /\ ~snap.invalid
  /\ snap.context = station.context

\* The transaction of record().
LEMMA PolledStep ==
  ASSUME HistoryInv, NEW now \in Times, NEW snap \in Inputs
  PROVE  LET w == Polled(snap, now)
         IN /\ w \in Works(Readings \cup {station.signature}) /\ WorkOK(w)
            /\ Continues(w, station, Unbroken(snap, now), snap.latest)
<1> DEFINE S == Readings \cup {station.signature}
           begin == [station |-> station, stored |-> stored, added |-> <<>>]
           cut == ClockChanged(now) \/ resetRequired
           reset == IF cut THEN Save(Break(begin, now, TRUE)) ELSE begin
           w == Polled(snap, now)
<1>1. begin \in Works(S) /\ WorkOK(begin) /\ ~Read(begin)
  <2>1. station \in Stations(S)
    BY DEF HistoryInv, Stations
  <2> QED
    BY <2>1 DEF HistoryInv, Works, WorkOK, Read
<1>2. /\ reset \in Works(S) /\ WorkOK(reset) /\ ~Read(reset)
      /\ cut => reset.station.previous = None
      /\ ~cut => reset.station = station
  <2>1. CASE cut
    <3> HIDE DEF begin, S
    <3> QED
      BY <1>1, <2>1, SavedBreak
  <2>2. CASE ~cut
    BY <1>1, <2>2
  <2> QED
    BY <2>1, <2>2
<1>3. CASE snap.kind = "missing"
  <2>1. w = Save(Break(reset, now, TRUE))
    BY <1>3 DEF Polled
  <2> HIDE DEF reset, w, S
  <2>2. w \in Works(S) /\ WorkOK(w) /\ ~Read(w) /\ w.station.previous = None
    BY <1>2, <2>1, SavedBreak
  <2> QED
    BY <2>2 DEF Continues, w, S
<1>4. CASE snap.kind # "missing"
  <2>1. w = RecordOne(reset, snap, now, Rollback(now))
    BY <1>4 DEF Polled
  <2>2. Rollback(now) \in BOOLEAN /\ Readings \subseteq S
    BY DEF Rollback
  <2> HIDE DEF reset, w, S, cut
  <2>3. /\ w \in Works(S) /\ WorkOK(w)
        /\ Continues(w, reset.station, Usable(reset.station, snap, now, Rollback(now)), snap.latest)
    BY <1>2, <1>4, <2>1, <2>2, RecordOneStep
  <2>4. Continues(w, station, Unbroken(snap, now), snap.latest)
    <3>1. CASE cut
      BY <1>2, <2>3, <3>1 DEF Continues
    <3>2. CASE ~cut
      <4>1. Usable(station, snap, now, Rollback(now)) => Unbroken(snap, now)
        BY <1>4, <3>2 DEF Usable, Unbroken, Unavailable, cut
      <4> QED
        BY <1>2, <2>3, <3>2, <4>1 DEF Continues
    <3> QED
      BY <3>1, <3>2
  <2> QED
    BY <2>3, <2>4 DEF w, S
<1> QED
  BY <1>3, <1>4

\* record() preserves the invariant.
LEMMA RecordStep ==
  ASSUME HistoryInv, NEW now \in Times, NEW snap \in Inputs, Record(snap, now)
  PROVE  HistoryInv'
<1> DEFINE w == Polled(snap, now)
           S == Readings \cup {station.signature}
           before == IF Discontinuous(snap, now) THEN None ELSE chain
<1>1. /\ w \in Works(S) /\ WorkOK(w)
      /\ Continues(w, station, Unbroken(snap, now), snap.latest)
  BY PolledStep
<1>2. /\ station' = w.station /\ stored' = w.stored /\ resetRequired' = FALSE
      /\ chain' = IF Read(w) THEN Last(w.added).time ELSE before
      /\ bridged' = (bridged \/ (Read(w) /\ Last(w.added).start \notin {None, before}))
  BY DEF Record, Trace, Read
<1> HIDE DEF w
<1>3. Unbroken(snap, now) =>
        (Discontinuous(snap, now) <=> chain # None /\ snap.latest < chain)
  BY DEF Unbroken, Discontinuous
<1>4. Unbroken(snap, now) /\ station.previous # None =>
        chain = station.previous.time /\ chain = station.highwater /\ chain \in Times
  BY DEF Unbroken, HistoryInv, StationOK, Stations, Readings
<1>5. station' \in Stations({station.signature})' /\ StationOK(station)'
  <2>1. station' \in Stations(S)
    BY <1>1, <1>2 DEF Works
  <2> QED
    BY <1>1, <1>2, <2>1 DEF WorkOK, Stations, StationOK
<1>6. stored' \in Persistent /\ SavedAs(stored, station)'
  BY <1>1, <1>2 DEF Works, WorkOK, SavedAs
<1>7. chain' \in Times \cup {None}
  <2>1. CASE Read(w)
    <3>1. w.added \in Seq(Rows) /\ w.added # <<>>
      BY <1>1, <2>1 DEF Works, Read
    <3>2. Last(w.added) \in Rows
      BY <3>1 DEF Last
    <3> QED
      BY <1>2, <2>1, <3>2 DEF Rows
  <2>2. CASE ~Read(w)
    BY <1>2, <2>2 DEF HistoryInv
  <2> QED
    BY <2>1, <2>2
<1>8. station'.previous # None => chain' = station'.previous.time
  <2>1. CASE Read(w)
    BY <1>1, <1>2, <2>1 DEF Continues
  <2>2. CASE ~Read(w)
    <3> SUFFICES ASSUME station'.previous # None PROVE chain' = station'.previous.time
      OBVIOUS
    <3>1. /\ Unbroken(snap, now) /\ station'.previous = station.previous
          /\ snap.latest = station.highwater
      BY <1>1, <1>2, <2>2 DEF Continues
    <3>2. chain' = chain
      BY <1>2, <1>3, <1>4, <2>2, <3>1
    <3> QED
      BY <1>4, <3>1, <3>2
  <2> QED
    BY <2>1, <2>2
<1>9. bridged' = FALSE
  <2> SUFFICES ASSUME Read(w), Last(w.added).start # None PROVE Last(w.added).start = before
    BY <1>2 DEF HistoryInv
  <2>1. /\ Unbroken(snap, now) /\ station.previous # None /\ snap.latest > station.highwater
        /\ Last(w.added).start = station.previous.time
    BY <1>1 DEF Continues
  <2>2. ~(snap.latest < chain)
    <3>1. snap.latest \in Times
      BY <2>1 DEF Unbroken, Unavailable, Inputs, Reports
    <3> QED
      BY <1>4, <2>1, <3>1
  <2> QED
    BY <1>3, <1>4, <2>1, <2>2
<1> QED
  BY <1>2, <1>5, <1>6, <1>7, <1>8, <1>9 DEF HistoryInv

\* The constructor preserves it: the station is built from its row.
LEMMA RestartStep ==
  ASSUME HistoryInv, NEW now \in Times, Restart(now)
  PROVE  HistoryInv'
<1>1. /\ station' = Loaded(stored, Signature) /\ stored' = stored /\ resetRequired' = FALSE
      /\ chain' = None /\ bridged' = bridged
  BY DEF Restart
<1>2. station' \in Stations({station.signature})'
  BY <1>1 DEF HistoryInv, Persistent, Loaded, Stations
<1>3. StationOK(station)'
  BY <1>1 DEF HistoryInv, SavedAs, PersistentFields, StationOK, Loaded
<1>4. SavedAs(stored, station)'
  BY <1>1 DEF SavedAs, PersistentFields, Loaded
<1> QED
  BY <1>1, <1>2, <1>3, <1>4 DEF HistoryInv, Loaded

\* A step that leaves the station and its row, and breaks the chain only
\* with the flag set.
LEMMA OtherStep ==
  ASSUME HistoryInv, UNCHANGED <<station, stored, bridged>>,
         \/ UNCHANGED <<chain, resetRequired>>
         \/ resetRequired' = TRUE /\ chain' = None
  PROVE  HistoryInv'
<1>1. /\ (station \in Stations({station.signature}))' /\ StationOK(station)'
      /\ (stored \in Persistent)' /\ SavedAs(stored, station)'
  BY DEF HistoryInv, StationOK, SavedAs
<1> QED
  BY <1>1 DEF HistoryInv

\* The initial station has nothing to continue.
LEMMA InitHistory == Init => HistoryInv
<1> SUFFICES ASSUME Init PROVE HistoryInv
  OBVIOUS
<1>1. PICK c \in Contexts : stored = Unrecorded(c) /\ station = Loaded(stored, None)
  BY DEF Init
<1>2. station \in Stations({station.signature}) /\ StationOK(station)
  BY <1>1 DEF Unrecorded, Loaded, Stations, StationOK
<1>3. stored \in Persistent
  BY <1>1 DEF Unrecorded, Persistent
<1>4. SavedAs(stored, station)
  BY <1>1 DEF Loaded, SavedAs, PersistentFields
<1>5. station.previous = None
  BY <1>1 DEF Loaded
<1>6. chain = None /\ resetRequired = FALSE /\ bridged = FALSE
  BY DEF Init
<1> QED
  BY <1>2, <1>3, <1>4, <1>5, <1>6 DEF HistoryInv

\* Every step preserves the invariant.
THEOREM HistoryInvariant == Spec => []HistoryInv
<1>1. HistoryInv /\ [Next]_vars => HistoryInv'
  <2> SUFFICES ASSUME HistoryInv, [Next]_vars PROVE HistoryInv'
    OBVIOUS
  <2>1. ASSUME NEW now \in Times, NEW snap \in Inputs, Record(snap, now) PROVE HistoryInv'
    BY <2>1, RecordStep
  <2>2. CASE RecordFails
    BY <2>2, OtherStep DEF RecordFails
  <2>3. ASSUME NEW now \in Times, Query(now) \/ QueryRollsBack(now) PROVE HistoryInv'
    BY <2>3, OtherStep DEF Query, QueryRollsBack, history
  <2>4. ASSUME NEW now \in Times, Restart(now) PROVE HistoryInv'
    BY <2>4, RestartStep
  <2>5. CASE UNCHANGED vars
    BY <2>5, OtherStep DEF vars, memory, history
  <2> QED
    BY <2>1, <2>2, <2>3, <2>4, <2>5 DEF Next
<1> QED
  BY InitHistory, <1>1, PTL DEF Spec

-----------------------------------------------------------------------------
(* Induction over the rows.                                                *)

\* Induction over the numbers, in the form the proofs use: what fails for some
\* number fails for a least one.
LEMMA Least ==
  ASSUME NEW T, T \subseteq Nat, T # {}
  PROVE  \E n \in T : \A m \in T : n <= m
<1> DEFINE R == {p \in Nat \X Nat : p[1] < p[2]}
<1>1. IsWellFoundedOn(R, Nat)
  BY NatLessThanWellFounded DEF OpToRel
<1>2. PICK x \in T : \A y \in T : ~(<<y, x>> \in R)
  BY <1>1, WFMin
<1>3. ASSUME NEW y \in T PROVE x <= y
  <2>1. x \in Nat /\ y \in Nat /\ <<y, x>> \notin R
    BY <1>2
  <2>2. ~(y < x)
    BY <2>1
  <2> QED
    BY <2>1, <2>2
<1> QED
  BY <1>3

\* Induction up to a number.
LEMMA Induction ==
  ASSUME NEW N \in Nat, NEW P, 0 \in P, \A n \in 1..N : n - 1 \in P => n \in P
  PROVE  0..N \subseteq P
<1> DEFINE T == {n \in 0..N : n \notin P}
<1>1. SUFFICES ASSUME T # {} PROVE FALSE
  OBVIOUS
<1>2. T \subseteq Nat
  OBVIOUS
<1>3. PICK n \in T : \A m \in T : n <= m
  <2> HIDE DEF T
  <2> QED
    BY <1>1, <1>2, Least
<1>4. n \in 1..N /\ n - 1 \in 0..N /\ ~(n <= n - 1)
  OBVIOUS
<1>5. n - 1 \notin T
  <2> HIDE DEF T
  <2> QED
    BY <1>3, <1>4
<1> QED
  BY <1>4, <1>5

\* A function is defined by its first value and a step, up to any number.
Defined(N, V, first, step) ==
  \E f \in [0..N -> V] : f[0] = first /\ \A n \in 1..N : f[n] = step[<<f[n - 1], n>>]

LEMMA Recursion ==
  ASSUME NEW N \in Nat, NEW V, NEW first \in V, NEW step \in [V \X (1..N) -> V]
  PROVE  Defined(N, V, first, step)
<1> DEFINE Defines(f, n) == f[0] = first /\ \A i \in 1..n : f[i] = step[<<f[i - 1], i>>]
           Ok(n) == \E f \in [0..n -> V] : Defines(f, n)
           P == {n \in 0..N : Ok(n)}
<1>1. Ok(0)
  <2> DEFINE f == [i \in 0..0 |-> first]
  <2>1. f \in [0..0 -> V] /\ Defines(f, 0)
    OBVIOUS
  <2> QED
    BY <2>1
<1>2. ASSUME NEW n \in 1..N, Ok(n - 1) PROVE Ok(n)
  <2>1. PICK f \in [0..(n - 1) -> V] : Defines(f, n - 1)
    BY <1>2
  <2>2. n \in Nat /\ n - 1 \in 0..(n - 1) /\ 0 \in 0..(n - 1)
    OBVIOUS
  <2> DEFINE last == step[<<f[n - 1], n>>]
             g == [i \in 0..n |-> IF i = n THEN last ELSE f[i]]
  <2>3. last \in V
    BY <2>1, <2>2
  <2>4. \A i \in 0..n : i = n \/ i \in 0..(n - 1)
    BY <2>2
  <2>5. g \in [0..n -> V]
    <3> HIDE DEF last
    <3> QED
      BY <2>1, <2>3, <2>4
  <2>6. g[n] = last /\ \A i \in 0..(n - 1) : g[i] = f[i]
    BY <2>2
  <2> HIDE DEF g
  <2>7. ASSUME NEW i \in 1..n PROVE g[i] = step[<<g[i - 1], i>>]
    <3>1. i - 1 \in 0..(n - 1) /\ g[i - 1] = f[i - 1]
      BY <2>2, <2>6
    <3>2. CASE i = n
      BY <2>6, <3>1, <3>2
    <3>3. CASE i # n
      <4>1. i \in 0..(n - 1) /\ i \in 1..(n - 1)
        BY <2>2, <3>3
      <4> QED
        BY <2>1, <2>6, <3>1, <4>1
    <3> QED
      BY <3>2, <3>3
  <2>8. g[0] = first
    BY <2>1, <2>2, <2>6
  <2> QED
    BY <2>5, <2>7, <2>8
<1> HIDE DEF Ok
<1>3. 0 \in P /\ \A n \in 1..N : n - 1 \in P => n \in P
  BY <1>1, <1>2
<1>4. 0..N \subseteq P
  <2> HIDE DEF P
  <2> QED
    BY <1>3, Induction
<1> QED
  BY <1>4 DEF Ok, Defined

\* Rows t are some of the rows s, in their order.
PartOf(t, s) ==
  /\ Len(t) <= Len(s)
  /\ \E h \in [1..Len(t) -> 1..Len(s)] :
       /\ \A i, j \in 1..Len(t) : i < j => h[i] < h[j]
       /\ \A i \in 1..Len(t) : t[i] = s[h[i]]

\* All rows, and the rows after the first k, are some of them.
LEMMA SuffixPart ==
  ASSUME NEW s \in Seq(Rows), NEW k \in 0..Len(s)
  PROVE  LET t == SubSeq(s, k + 1, Len(s))
         IN t \in Seq(Rows) /\ Len(t) = Len(s) - k /\ PartOf(t, s)
<1> DEFINE t == SubSeq(s, k + 1, Len(s))
           h == [i \in 1..(Len(s) - k) |-> i + k]
<1>1. Len(s) \in Nat
  OBVIOUS
<1>2. /\ t \in Seq(Rows) /\ Len(t) = Len(s) - k
      /\ \A i \in 1..(Len(s) - k) : t[i] = s[i + k]
  <2>1. /\ t \in Seq(Rows)
        /\ Len(t) = IF k + 1 <= Len(s) THEN Len(s) - (k + 1) + 1 ELSE 0
        /\ \A i \in 1..(Len(s) - (k + 1) + 1) : t[i] = s[(k + 1) + i - 1]
    BY <1>1, SubSeqProperties
  <2> QED
    BY <1>1, <2>1
<1> HIDE DEF t
<1>3. h \in [1..Len(t) -> 1..Len(s)]
  BY <1>1, <1>2
<1>4. \A i, j \in 1..Len(t) : i < j => h[i] < h[j]
  BY <1>1, <1>2
<1>5. \A i \in 1..Len(t) : t[i] = s[h[i]]
  BY <1>2
<1> HIDE DEF h
<1>6. Len(t) <= Len(s)
  BY <1>1, <1>2
<1>7. PartOf(t, s)
  BY <1>3, <1>4, <1>5, <1>6 DEF PartOf
<1> QED
  BY <1>2, <1>7 DEF t

\* The relation is transitive.
LEMMA PartTransitive ==
  ASSUME NEW r \in Seq(Rows), NEW s \in Seq(Rows), NEW t \in Seq(Rows), PartOf(t, s), PartOf(s, r)
  PROVE  PartOf(t, r)
<1>1. Len(r) \in Nat /\ Len(s) \in Nat /\ Len(t) \in Nat
  OBVIOUS
<1>2. PICK g \in [1..Len(t) -> 1..Len(s)] :
        /\ \A i, j \in 1..Len(t) : i < j => g[i] < g[j]
        /\ \A i \in 1..Len(t) : t[i] = s[g[i]]
  BY DEF PartOf
<1>3. PICK h \in [1..Len(s) -> 1..Len(r)] :
        /\ \A i, j \in 1..Len(s) : i < j => h[i] < h[j]
        /\ \A i \in 1..Len(s) : s[i] = r[h[i]]
  BY DEF PartOf
<1> DEFINE f == [i \in 1..Len(t) |-> h[g[i]]]
<1>4. f \in [1..Len(t) -> 1..Len(r)]
  BY <1>2, <1>3
<1>5. \A i, j \in 1..Len(t) : i < j => f[i] < f[j]
  BY <1>2, <1>3
<1>6. \A i \in 1..Len(t) : t[i] = r[f[i]]
  BY <1>2, <1>3
<1>7. Len(t) <= Len(r)
  BY <1>1 DEF PartOf
<1> QED
  BY <1>4, <1>5, <1>6, <1>7 DEF PartOf

\* The deletion of old rows leaves some of the rows.
LEMMA SincePart ==
  ASSUME NEW s \in Seq(Rows), NEW time \in Int
  PROVE  RowsSince(s, time) \in Seq(Rows) /\ PartOf(RowsSince(s, time), s)
<1> DEFINE N == Len(s)
           After(f, n) == IF s[n].time >= time THEN Append(f[n - 1], s[n]) ELSE f[n - 1]
           Filters(f, n) == f[0] = <<>> /\ \A i \in 1..n : f[i] = After(f, i)
<1>1. N \in Nat /\ \A i \in 1..N : s[i] \in Rows
  OBVIOUS
<1>2. \E f \in [0..N -> Seq(Rows)] : Filters(f, N)
  <2> DEFINE V == Seq(Rows)
             step == [x \in V \X (1..N) |->
                        IF s[x[2]].time >= time THEN Append(x[1], s[x[2]]) ELSE x[1]]
  <2>1. step \in [V \X (1..N) -> V]
    BY <1>1
  <2>2. \A v \in V, n \in 1..N :
          step[<<v, n>>] = IF s[n].time >= time THEN Append(v, s[n]) ELSE v
    OBVIOUS
  <2>3. <<>> \in V
    OBVIOUS
  <2> HIDE DEF step, V
  <2>4. PICK f \in [0..N -> V] : f[0] = <<>> /\ \A n \in 1..N : f[n] = step[<<f[n - 1], n>>]
    <3>1. N \in Nat /\ step \in [V \X (1..N) -> V] /\ <<>> \in V
      BY <1>1, <2>1, <2>3
    <3> HIDE DEF N
    <3>2. Defined(N, V, <<>>, step)
      BY <3>1, Recursion, Zenon
    <3> QED
      BY <3>2 DEF Defined
  <2>5. \A n \in 1..N : f[n - 1] \in V
    BY <1>1, <2>4
  <2>6. \A n \in 1..N : f[n] = After(f, n)
    BY <2>2, <2>4, <2>5
  <2> QED
    BY <2>4, <2>6 DEF V
<1> DEFINE kept == CHOOSE f : f = [n \in 0..N |-> IF n = 0 THEN <<>> ELSE After(f, n)]
<1>3. kept = [n \in 0..N |-> IF n = 0 THEN <<>> ELSE After(kept, n)]
  <2>1. PICK f \in [0..N -> Seq(Rows)] : Filters(f, N)
    BY <1>2
  <2>2. f = [n \in 0..N |-> IF n = 0 THEN <<>> ELSE After(f, n)]
    <3>1. \A n \in 0..N : n # 0 => n \in 1..N
      BY <1>1
    <3> HIDE DEF After
    <3> QED
      BY <2>1, <3>1
  <2> HIDE DEF After
  <2> QED
    BY <2>2
<1>4. RowsSince(s, time) = kept[N]
  BY DEF RowsSince
<1> HIDE DEF kept
<1>5. kept[0] = <<>> /\ \A n \in 1..N : kept[n] = After(kept, n)
  <2>1. 0 \in 0..N /\ \A n \in 1..N : n \in 0..N /\ n # 0
    BY <1>1
  <2> HIDE DEF After
  <2> QED
    BY <1>3, <2>1
<1> DEFINE Part(n) ==
             /\ kept[n] \in Seq(Rows) /\ Len(kept[n]) <= n
             /\ \E h \in [1..Len(kept[n]) -> 1..n] :
                  /\ \A i, j \in 1..Len(kept[n]) : i < j => h[i] < h[j]
                  /\ \A i \in 1..Len(kept[n]) : kept[n][i] = s[h[i]]
<1>6. Part(0)
  <2>1. kept[0] = <<>> /\ Len(<<>>) = 0 /\ <<>> \in Seq(Rows) /\ 1..0 = {}
    BY <1>5
  <2>2. Len(kept[0]) = 0 /\ 1..Len(kept[0]) = {}
    BY <2>1
  <2>3. PICK h : h = [i \in 1..Len(kept[0]) |-> 0]
    OBVIOUS
  <2>4. h \in [1..Len(kept[0]) -> 1..0]
    BY <2>2, <2>3
  <2>5. /\ \A i, j \in 1..Len(kept[0]) : i < j => h[i] < h[j]
        /\ \A i \in 1..Len(kept[0]) : kept[0][i] = s[h[i]]
    BY <2>2
  <2>6. \E g \in [1..Len(kept[0]) -> 1..0] :
          /\ \A i, j \in 1..Len(kept[0]) : i < j => g[i] < g[j]
          /\ \A i \in 1..Len(kept[0]) : kept[0][i] = s[g[i]]
    BY <2>4, <2>5
  <2>7. kept[0] \in Seq(Rows) /\ Len(kept[0]) <= 0
    BY <2>1, <2>2
  <2> QED
    BY <2>6, <2>7
<1>7. ASSUME NEW n \in 1..N, Part(n - 1) PROVE Part(n)
  <2>1. n \in Nat \ {0} /\ n - 1 \in Nat /\ s[n] \in Rows /\ kept[n] = After(kept, n)
    BY <1>1, <1>5
  <2>p. PICK p : p = kept[n - 1]
    OBVIOUS
  <2>2. p \in Seq(Rows) /\ Len(p) \in Nat /\ Len(p) <= n - 1
    BY <1>7, <2>p
  <2>3. PICK h \in [1..Len(p) -> 1..(n - 1)] :
          /\ \A i, j \in 1..Len(p) : i < j => h[i] < h[j]
          /\ \A i \in 1..Len(p) : p[i] = s[h[i]]
    BY <1>7, <2>p
  <2>4. CASE s[n].time >= time
    <3>1. PICK q : q = Append(p, s[n])
      OBVIOUS
    <3>2. kept[n] = q
      BY <2>1, <2>4, <2>p, <3>1
    <3>3. /\ q \in Seq(Rows) /\ Len(q) = Len(p) + 1 /\ q[Len(p) + 1] = s[n]
          /\ \A i \in 1..Len(p) : q[i] = p[i]
      BY <2>1, <2>2, <3>1
    <3> DEFINE g == [i \in 1..Len(q) |-> IF i = Len(q) THEN n ELSE h[i]]
    <3>4. \A i \in 1..Len(q) : i # Len(q) => i \in 1..Len(p) /\ h[i] \in 1..(n - 1)
      BY <2>2, <2>3, <3>3
    <3>5. g \in [1..Len(q) -> 1..n]
      BY <2>1, <3>4
    <3>6. \A i, j \in 1..Len(q) : i < j => g[i] < g[j]
      <4>1. SUFFICES ASSUME NEW i \in 1..Len(q), NEW j \in 1..Len(q), i < j PROVE g[i] < g[j]
        OBVIOUS
      <4>2. i # Len(q) /\ i \in 1..Len(p) /\ g[i] = h[i] /\ h[i] \in 1..(n - 1)
        BY <2>2, <3>3, <3>4, <4>1
      <4>3. CASE j = Len(q)
        BY <2>1, <4>2, <4>3
      <4>4. CASE j # Len(q)
        <5>1. j \in 1..Len(p) /\ g[j] = h[j]
          BY <3>4, <4>4
        <5> QED
          BY <2>3, <4>1, <4>2, <5>1
      <4> QED
        BY <4>3, <4>4
    <3>7. \A i \in 1..Len(q) : q[i] = s[g[i]]
      BY <2>2, <2>3, <3>3, <3>4
    <3> HIDE DEF g
    <3>8. Len(q) <= n
      BY <2>1, <2>2, <3>3
    <3> QED
      BY <3>2, <3>3, <3>5, <3>6, <3>7, <3>8
  <2>5. CASE ~(s[n].time >= time)
    <3>1. kept[n] = p
      BY <2>1, <2>5, <2>p
    <3>2. h \in [1..Len(p) -> 1..n] /\ Len(p) <= n
      BY <2>1, <2>2, <2>3
    <3> QED
      BY <2>2, <2>3, <3>1, <3>2
  <2> QED
    BY <2>4, <2>5
<1> HIDE DEF Part
<1>8. \A n \in 0..N : Part(n)
  <2> DEFINE P == {n \in 0..N : Part(n)}
  <2>1. 0 \in P /\ \A n \in 1..N : n - 1 \in P => n \in P
    BY <1>1, <1>6, <1>7
  <2>2. 0..N \subseteq P
    <3> HIDE DEF P
    <3> QED
      BY <1>1, <2>1, Induction
  <2> QED
    BY <2>2
<1>9. N \in 0..N
  BY <1>1
<1>10. Part(N)
  BY <1>8, <1>9
<1> QED
  BY <1>4, <1>10 DEF PartOf, Part

\* Adding up more rows adds them to the sum.
LEMMA PlusRowsStep ==
  ASSUME NEW totals \in [seconds : Nat, gaps : Nat], NEW s \in Seq(Rows), NEW r \in Rows
  PROVE  /\ PlusRows(totals, <<>>) = totals
         /\ PlusRows(totals, s) \in [seconds : Nat, gaps : Nat]
         /\ PlusRows(totals, Append(s, r)).seconds = PlusRows(totals, s).seconds + r.seconds
<1> DEFINE V == [seconds : Nat, gaps : Nat]
           Plus(v, row) == [seconds |-> v.seconds + row.seconds, gaps |-> v.gaps + row.delta]
           Sums(f, q) == f[0] = totals /\ \A n \in 1..Len(q) : f[n] = Plus(f[n - 1], q[n])
<1>1. ASSUME NEW q \in Seq(Rows)
      PROVE  \E f \in [0..Len(q) -> V] : Sums(f, q) /\ PlusRows(totals, q) = f[Len(q)]
  <2> DEFINE N == Len(q)
             step == [x \in V \X (1..N) |-> Plus(x[1], q[x[2]])]
             sum == CHOOSE f : f = [n \in 0..N |-> IF n = 0 THEN totals ELSE Plus(f[n - 1], q[n])]
  <2>1. N \in Nat /\ \A n \in 1..N : q[n] \in Rows
    OBVIOUS
  <2>2. \A v \in V, row \in Rows : Plus(v, row) \in V
    BY DEF Rows
  <2>3. step \in [V \X (1..N) -> V] /\ \A v \in V, n \in 1..N : step[<<v, n>>] = Plus(v, q[n])
    <3> HIDE DEF V, Plus
    <3> QED
      BY <2>1, <2>2
  <2> HIDE DEF step, V, Plus
  <2>4. PICK f \in [0..N -> V] : f[0] = totals /\ \A n \in 1..N : f[n] = step[<<f[n - 1], n>>]
    <3>1. totals \in V
      BY DEF V
    <3>2. N \in Nat /\ step \in [V \X (1..N) -> V]
      BY <2>1, <2>3
    <3> HIDE DEF N
    <3>3. Defined(N, V, totals, step)
      BY <3>1, <3>2, Recursion, Zenon
    <3> QED
      BY <3>3 DEF Defined
  <2>5. \A n \in 0..N : n # 0 => n \in 1..N /\ f[n - 1] \in V
    BY <2>1, <2>4
  <2>6. \A n \in 1..N : n \in 0..N /\ n # 0
    BY <2>1
  <2>7. f = [n \in 0..N |-> IF n = 0 THEN totals ELSE Plus(f[n - 1], q[n])]
    BY <2>3, <2>4, <2>5
  <2>8. sum = [n \in 0..N |-> IF n = 0 THEN totals ELSE Plus(sum[n - 1], q[n])]
    BY <2>7
  <2>9. PlusRows(totals, q) = sum[N]
    BY DEF PlusRows, Plus
  <2> HIDE DEF sum
  <2>10. sum[0] = totals /\ \A n \in 1..N : sum[n] = Plus(sum[n - 1], q[n])
    <3>1. 0 \in 0..N
      BY <2>1
    <3> QED
      BY <2>6, <2>8, <3>1
  <2>11. \A n \in 0..N : sum[n] \in V
    <3> DEFINE P == {n \in 0..N : sum[n] \in V}
    <3>1. 0 \in P
      BY <2>1, <2>10 DEF V
    <3>2. ASSUME NEW n \in 1..N, n - 1 \in P PROVE n \in P
      <4>1. sum[n - 1] \in V /\ q[n] \in Rows /\ sum[n] = Plus(sum[n - 1], q[n])
        BY <2>1, <2>10, <3>2
      <4>2. n \in 0..N
        BY <2>1
      <4> QED
        BY <2>2, <4>1, <4>2
    <3>3. 0..N \subseteq P
      <4> HIDE DEF P
      <4> QED
        BY <2>1, <3>1, <3>2, Induction
    <3> QED
      BY <3>3
  <2>12. sum \in [0..N -> V]
    BY <2>8, <2>11
  <2> QED
    BY <2>9, <2>10, <2>12
<1>2. PlusRows(totals, <<>>) = totals
  <2>1. <<>> \in Seq(Rows) /\ Len(<<>>) = 0
    OBVIOUS
  <2> HIDE DEF Plus
  <2> QED
    BY <1>1, <2>1
<1>3. PICK f \in [0..Len(s) -> V] : Sums(f, s) /\ PlusRows(totals, s) = f[Len(s)]
  BY <1>1
<1>4. PICK t : t = Append(s, r)
  OBVIOUS
<1>5. /\ t \in Seq(Rows) /\ Len(t) = Len(s) + 1 /\ Len(s) \in Nat /\ t[Len(t)] = r
      /\ \A i \in 1..Len(s) : t[i] = s[i]
  BY <1>4
<1>6. PICK g \in [0..Len(t) -> V] : Sums(g, t) /\ PlusRows(totals, t) = g[Len(t)]
  BY <1>1, <1>5
<1>7. g[Len(s)] = f[Len(s)]
  <2> DEFINE P == {n \in 0..Len(s) : g[n] = f[n]}
  <2> HIDE DEF Plus
  <2>1. 0 \in P
    BY <1>3, <1>5, <1>6
  <2>2. ASSUME NEW n \in 1..Len(s), n - 1 \in P PROVE n \in P
    <3>1. n \in 1..Len(t) /\ t[n] = s[n] /\ n \in 0..Len(s)
      BY <1>5
    <3> QED
      BY <1>3, <1>6, <2>2, <3>1
  <2>3. 0..Len(s) \subseteq P
    <3> HIDE DEF P
    <3> QED
      BY <1>5, <2>1, <2>2, Induction
  <2> QED
    BY <1>5, <2>3
<1>8. PlusRows(totals, t) = Plus(PlusRows(totals, s), r)
  <2>1. Len(t) \in 1..Len(t) /\ Len(t) - 1 = Len(s)
    BY <1>5
  <2> HIDE DEF Plus
  <2> QED
    BY <1>3, <1>5, <1>6, <1>7, <2>1
<1>9. f[Len(s)] \in V
  <2>1. Len(s) \in 0..Len(s)
    BY <1>5
  <2> HIDE DEF Sums, V
  <2> QED
    BY <1>3, <2>1
<1> QED
  BY <1>2, <1>3, <1>4, <1>8, <1>9

\* _maintain() leaves some of the rows, changes the count by as many as it
\* deletes, and applies the cap to the rows that are counted.
Kept(table, count, m) ==
  /\ m.samples \in Seq(Rows) /\ PartOf(m.samples, table)
  /\ m.rows \in Int /\ m.lastMaintenance \in Times
  /\ m.rows - Len(m.samples) = count - Len(table)
  /\ \A back \in Nat : count + back = Len(table) => Len(m.samples) <= MaxSamples + back

LEMMA MaintainedStep ==
  ASSUME NEW table \in Seq(Rows), NEW count \in Int, NEW now \in Times, NEW force \in BOOLEAN,
         lastMaintenance \in Times
  PROVE  Kept(table, count, Maintained(table, count, now, force))
<1> DEFINE due == \/ force \/ lastMaintenance = None
                  \/ now - lastMaintenance >= MaintainEvery
           kept == IF due THEN RowsSince(table, now - Retention) ELSE table
           n == count - (Len(table) - Len(kept))
           excess == IF Excess(n) < Len(kept) THEN Excess(n) ELSE Len(kept)
           left == SubSeq(kept, excess + 1, Len(kept))
           m == Maintained(table, count, now, force)
<1>1. m = [samples |-> left, rows |-> n - excess,
           lastMaintenance |-> IF due THEN now ELSE lastMaintenance]
  BY DEF Maintained
<1>2. kept \in Seq(Rows) /\ PartOf(kept, table)
  <2>1. CASE due
    <3>1. now - Retention \in Int
      OBVIOUS
    <3> QED
      BY <2>1, <3>1, SincePart
  <2>2. CASE ~due
    <3>1. 0 \in 0..Len(table) /\ SubSeq(table, 0 + 1, Len(table)) = table
      OBVIOUS
    <3>2. PartOf(table, table)
      BY <3>1, SuffixPart
    <3> QED
      BY <2>2, <3>2
  <2> QED
    BY <2>1, <2>2
<1>3. (IF due THEN now ELSE lastMaintenance) \in Times
  OBVIOUS
<1> HIDE DEF kept, due
<1>4. /\ Len(table) \in Nat /\ Len(kept) \in Nat /\ Len(kept) <= Len(table)
      /\ n \in Int /\ Excess(n) \in Nat
  BY <1>2 DEF PartOf, Excess
<1>5. excess \in 0..Len(kept)
  BY <1>4
<1>6. /\ left \in Seq(Rows) /\ Len(left) = Len(kept) - excess /\ PartOf(left, kept)
  <2> HIDE DEF excess
  <2> QED
    BY <1>2, <1>5, SuffixPart
<1> HIDE DEF left, m
<1>7. PartOf(left, table)
  BY <1>2, <1>6, PartTransitive
<1>8. (n - excess) - Len(left) = count - Len(table) /\ n - excess \in Int
  <2> HIDE DEF excess
  <2> QED
    BY <1>4, <1>5, <1>6
<1>9. ASSUME NEW back \in Nat, count + back = Len(table) PROVE Len(left) <= MaxSamples + back
  <2>1. n + back = Len(kept)
    BY <1>4, <1>9
  <2>2. CASE n > MaxSamples
    <3>1. Excess(n) = n - MaxSamples
      BY <2>2 DEF Excess
    <3> QED
      BY <1>4, <1>6, <2>1, <3>1
  <2>3. CASE ~(n > MaxSamples)
    <3>1. Len(left) <= Len(kept)
      BY <1>4, <1>5, <1>6
    <3> HIDE DEF n, excess
    <3> QED
      BY <1>4, <1>6, <2>1, <2>3, <3>1
  <2> QED
    BY <2>2, <2>3
<1> HIDE DEF n, excess
<1>10. /\ m.samples = left /\ m.rows = n - excess
       /\ m.lastMaintenance = IF due THEN now ELSE lastMaintenance
  BY <1>1
<1>11. Kept(table, count, m)
  <2>1. m.rows - Len(m.samples) = count - Len(table) /\ m.rows \in Int
    BY <1>8, <1>10
  <2>2. m.samples \in Seq(Rows) /\ PartOf(m.samples, table)
    BY <1>6, <1>7, <1>10
  <2>3. m.lastMaintenance \in Times
    BY <1>3, <1>10
  <2>4. \A back \in Nat : count + back = Len(table) => Len(m.samples) <= MaxSamples + back
    BY <1>9, <1>10
  <2> QED
    BY <2>1, <2>2, <2>3, <2>4 DEF Kept
<1> QED
  BY <1>11 DEF m
-----------------------------------------------------------------------------
(* The chart and the totals.                                               *)

\* Rows t are in order and show the intervals (RowsInOrder, ChartShowsIntervals
\* for any rows).
InOrder(t) ==
  \A i, j \in 1..Len(t) : i < j =>
    /\ t[i].time <= t[j].time
    /\ IsReading(t[i]) /\ IsReading(t[j]) => t[i].time < t[j].time
Shows(t) ==
  \A i \in 1..Len(t) : IsReading(t[i]) =>
    /\ t[i].gap <=> t[i].start = None
    /\ t[i].start # None =>
         \A j \in 1..(i - 1) : t[j].time <= t[i].start /\
           (t[j].time = t[i].start => IsReading(t[j]))

\* Station s has the rows t behind it: none is later than its last report, and
\* no marker is at that report while it can still be paired.
Behind(t, s) ==
  \A i \in 1..Len(t) :
    /\ s.hasSamples /\ t[i].time <= s.highwater
    /\ s.previous # None /\ t[i].time = s.highwater => IsReading(t[i])

Drawn(t, s) == InOrder(t) /\ Shows(t) /\ Behind(t, s)

\* Deleting rows keeps the chart.
LEMMA DrawnPart ==
  ASSUME NEW r \in Seq(Rows), NEW t \in Seq(Rows), PartOf(t, r), NEW s, Drawn(r, s)
  PROVE  Drawn(t, s)
<1>1. PICK h \in [1..Len(t) -> 1..Len(r)] :
        /\ \A i, j \in 1..Len(t) : i < j => h[i] < h[j]
        /\ \A i \in 1..Len(t) : t[i] = r[h[i]]
  BY DEF PartOf
<1>2. Len(t) \in Nat /\ Len(r) \in Nat
  OBVIOUS
<1>3. InOrder(t)
  <2>1. SUFFICES ASSUME NEW i \in 1..Len(t), NEW j \in 1..Len(t), i < j
                 PROVE  /\ t[i].time <= t[j].time
                        /\ IsReading(t[i]) /\ IsReading(t[j]) => t[i].time < t[j].time
    BY DEF InOrder
  <2>2. h[i] \in 1..Len(r) /\ h[j] \in 1..Len(r) /\ h[i] < h[j] /\ t[i] = r[h[i]] /\ t[j] = r[h[j]]
    BY <1>1, <2>1
  <2> QED
    BY <2>2 DEF Drawn, InOrder
<1>4. Shows(t)
  <2>1. SUFFICES ASSUME NEW i \in 1..Len(t), IsReading(t[i])
                 PROVE  /\ t[i].gap <=> t[i].start = None
                        /\ t[i].start # None =>
                             \A j \in 1..(i - 1) : t[j].time <= t[i].start /\
                               (t[j].time = t[i].start => IsReading(t[j]))
    BY DEF Shows
  <2>2. h[i] \in 1..Len(r) /\ t[i] = r[h[i]]
    BY <1>1
  <2>3. \A j \in 1..(i - 1) : h[j] \in 1..(h[i] - 1) /\ t[j] = r[h[j]]
    <3>1. TAKE j \in 1..(i - 1)
    <3>2. j \in 1..Len(t) /\ j < i
      BY <1>2
    <3>3. h[j] \in 1..Len(r) /\ h[j] < h[i] /\ t[j] = r[h[j]]
      BY <1>1, <3>2
    <3> QED
      BY <1>2, <2>2, <3>3
  <2>4. /\ r[h[i]].gap <=> r[h[i]].start = None
        /\ r[h[i]].start # None =>
             \A j \in 1..(h[i] - 1) : r[j].time <= r[h[i]].start /\
               (r[j].time = r[h[i]].start => IsReading(r[j]))
    BY <2>1, <2>2 DEF Drawn, Shows
  <2> QED
    BY <2>2, <2>3, <2>4
<1>5. Behind(t, s)
  BY <1>1 DEF Drawn, Behind
<1> QED
  BY <1>3, <1>4, <1>5 DEF Drawn

\* The chart is the same for a station that ends where it did, and for one that
\* has lost its pair.
LEMMA DrawnSame ==
  ASSUME NEW t, NEW s, NEW b, Drawn(t, s), b.hasSamples = s.hasSamples,
         b.highwater = s.highwater, b.previous = None \/ b.previous = s.previous
  PROVE  Drawn(t, b)
  BY DEF Drawn, Behind

\* A row at the end changes nothing of the rows before it.
LEMMA DrawnAppend ==
  ASSUME NEW t \in Seq(Rows), NEW row \in Rows, InOrder(t), Shows(t),
         \A i \in 1..Len(t) : t[i].time <= row.time /\ (IsReading(row) => t[i].time < row.time),
         IsReading(row) =>
           /\ row.gap <=> row.start = None
           /\ row.start # None => \A i \in 1..Len(t) :
                t[i].time <= row.start /\ (t[i].time = row.start => IsReading(t[i]))
  PROVE  /\ InOrder(Append(t, row)) /\ Shows(Append(t, row))
<1> DEFINE n == Len(t)
           u == Append(t, row)
<1>1. /\ n \in Nat /\ Len(u) = n + 1 /\ u[n + 1] = row
      /\ \A i \in 1..n : u[i] = t[i]
  OBVIOUS
<1> HIDE DEF u
<1>2. \A i \in 1..Len(u) : (i \in 1..n /\ u[i] = t[i]) \/ (i = n + 1 /\ u[i] = row)
  BY <1>1
<1>3. InOrder(u)
  <2>1. SUFFICES ASSUME NEW i \in 1..Len(u), NEW j \in 1..Len(u), i < j
                 PROVE  /\ u[i].time <= u[j].time
                        /\ IsReading(u[i]) /\ IsReading(u[j]) => u[i].time < u[j].time
    BY DEF InOrder
  <2>2. i \in 1..n /\ u[i] = t[i]
    BY <1>1, <1>2, <2>1
  <2>3. CASE j \in 1..n /\ u[j] = t[j]
    BY <2>1, <2>2, <2>3 DEF InOrder
  <2>4. CASE u[j] = row
    BY <2>2, <2>4
  <2> QED
    BY <1>2, <2>3, <2>4
<1>4. Shows(u)
  <2>1. SUFFICES ASSUME NEW i \in 1..Len(u), IsReading(u[i])
                 PROVE  /\ u[i].gap <=> u[i].start = None
                        /\ u[i].start # None =>
                             \A j \in 1..(i - 1) : u[j].time <= u[i].start /\
                               (u[j].time = u[i].start => IsReading(u[j]))
    BY DEF Shows
  <2>2. \A j \in 1..(i - 1) : j \in 1..n /\ u[j] = t[j]
    BY <1>1, <1>2
  <2>3. CASE i \in 1..n /\ u[i] = t[i]
    BY <2>1, <2>2, <2>3 DEF Shows
  <2>4. CASE u[i] = row
    BY <2>1, <2>2, <2>4
  <2> QED
    BY <1>2, <2>3, <2>4
<1> QED
  BY <1>3, <1>4 DEF u

\* A marker at the last report ends the pair and overtakes nothing.
LEMMA DrawnMarker ==
  ASSUME NEW t \in Seq(Rows), NEW s, Drawn(t, s), s.hasSamples, s.highwater \in Times,
         NEW b, b.hasSamples = s.hasSamples, b.highwater = s.highwater, b.previous = None
  PROVE  LET m == Marker(s.highwater)
         IN m \in Rows /\ m.seconds = 0 /\ Drawn(Append(t, m), b)
<1> DEFINE m == Marker(s.highwater)
<1>1. m \in Rows /\ ~IsReading(m) /\ m.time = s.highwater /\ m.seconds = 0
  BY DEF Marker, Rows, IsReading
<1> HIDE DEF m
<1>2. \A i \in 1..Len(t) : t[i].time <= m.time
  BY <1>1 DEF Drawn, Behind
<1>3. InOrder(Append(t, m)) /\ Shows(Append(t, m))
  BY <1>1, <1>2, DrawnAppend DEF Drawn
<1>4. Behind(Append(t, m), b)
  <2>1. /\ Len(t) \in Nat /\ Len(Append(t, m)) = Len(t) + 1 /\ Append(t, m)[Len(t) + 1] = m
        /\ \A i \in 1..Len(t) : Append(t, m)[i] = t[i]
    BY <1>1
  <2>2. \A i \in 1..Len(Append(t, m)) :
          (i \in 1..Len(t) /\ Append(t, m)[i] = t[i]) \/ Append(t, m)[i] = m
    BY <2>1
  <2> QED
    BY <1>1, <2>2 DEF Drawn, Behind
<1> QED
  BY <1>1, <1>3, <1>4 DEF Drawn, m

\* A reading after the last report is connected with it exactly if it is paired.
LEMMA DrawnReading ==
  ASSUME NEW t \in Seq(Rows), NEW s, Drawn(t, s), NEW row \in Rows, IsReading(row),
         s.hasSamples => s.highwater \in Times /\ s.highwater < row.time,
         row.gap <=> row.start = None,
         row.start # None => s.previous # None /\ row.start = s.highwater,
         NEW b, b.hasSamples, b.highwater = row.time
  PROVE  Drawn(Append(t, row), b)
<1>1. \A i \in 1..Len(t) : t[i] \in Rows /\ s.hasSamples /\ t[i].time <= s.highwater /\ t[i].time < row.time
  <2>1. TAKE i \in 1..Len(t)
  <2>2. t[i] \in Rows /\ s.hasSamples /\ t[i].time <= s.highwater
    BY DEF Drawn, Behind
  <2> QED
    BY <2>2 DEF Rows
<1>2. \A i \in 1..Len(t) : t[i].time <= row.time /\ t[i].time < row.time
  BY <1>1 DEF Rows
<1>3. row.start # None => \A i \in 1..Len(t) :
        t[i].time <= row.start /\ (t[i].time = row.start => IsReading(t[i]))
  BY <1>1 DEF Drawn, Behind
<1>4. InOrder(Append(t, row)) /\ Shows(Append(t, row))
  BY <1>2, <1>3, DrawnAppend DEF Drawn
<1>5. Behind(Append(t, row), b)
  <2>1. /\ Len(t) \in Nat /\ Len(Append(t, row)) = Len(t) + 1 /\ Append(t, row)[Len(t) + 1] = row
        /\ \A i \in 1..Len(t) : Append(t, row)[i] = t[i]
    OBVIOUS
  <2>2. \A i \in 1..Len(Append(t, row)) :
          (i \in 1..Len(t) /\ Append(t, row)[i] = t[i]) \/ Append(t, row)[i] = row
    BY <2>1
  <2>3. row.time <= row.time
    BY DEF Rows
  <2>4. \A i \in 1..Len(t) : t[i].time # row.time
    BY <1>1 DEF Rows
  <2> QED
    BY <1>2, <2>2, <2>3, <2>4 DEF Behind
<1> QED
  BY <1>4, <1>5 DEF Drawn

\* What the flags of a station say: a gap is open exactly while there is no
\* endpoint to pair with, unless the station was restored and not polled since.
Flags(s) ==
  /\ s.restarted => s.previous = None
  /\ ~s.restarted => (s.gapOpen <=> s.previous = None)
  /\ ~s.hasSamples => s.gapOpen

\* A transaction that began with rows t and their totals c tells the truth.
Tells(t, c, w) ==
  /\ Flags(w.station)
  /\ ~w.stored.hasSamples => w.stored.gapOpen
  /\ Drawn(t \o w.added, w.station)
  /\ PlusRows(c, w.added).seconds = w.station.seconds

Totals == [seconds : Nat, gaps : Nat]

\* The sum of rows.
LEMMA PlusRowsType ==
  ASSUME NEW c \in Totals, NEW s \in Seq(Rows)
  PROVE  PlusRows(c, <<>>) = c /\ PlusRows(c, s) \in Totals
<1>1. Marker(0) \in Rows
  BY DEF Marker, Rows
<1> QED
  BY <1>1, PlusRowsStep DEF Totals

\* The table after one more row.
LEMMA OneMore ==
  ASSUME NEW t \in Seq(Rows), NEW a \in Seq(Rows), NEW r \in Rows
  PROVE  /\ t \o a \in Seq(Rows) /\ Append(a, r) \in Seq(Rows)
         /\ t \o Append(a, r) = Append(t \o a, r)
  OBVIOUS

\* A break tells the truth.
LEMMA BreakTells ==
  ASSUME NEW t \in Seq(Rows), NEW c \in Totals, NEW S, NEW w \in Works(S), WorkOK(w),
         Tells(t, c, w), NEW b, Broken(S, w, b)
  PROVE  Tells(t, c, b)
<1> DEFINE s == w.station
<1>1. /\ w.added \in Seq(Rows) /\ b.stored = w.stored
      /\ b.station.previous = None /\ b.station.gapOpen /\ ~b.station.restarted
      /\ b.station.hasSamples = s.hasSamples /\ b.station.highwater = s.highwater
      /\ b.station.seconds = s.seconds
      /\ \/ b.added = w.added
         \/ s.hasSamples /\ b.added = Append(w.added, Marker(s.highwater))
  BY DEF Broken, Works, PersistentFields
<1>2. Flags(b.station) /\ (~b.stored.hasSamples => b.stored.gapOpen)
  BY <1>1 DEF Flags, Tells
<1> HIDE DEF s
<1>3. CASE b.added = w.added
  <2>1. Drawn(t \o b.added, b.station)
    BY <1>1, <1>3, DrawnSame DEF Tells, s
  <2> QED
    BY <1>1, <1>2, <1>3, <2>1 DEF Tells, s
<1>4. CASE s.hasSamples /\ b.added = Append(w.added, Marker(s.highwater))
  <2> DEFINE m == Marker(s.highwater)
             u == t \o w.added
  <2>1. s.highwater \in Times
    BY <1>4 DEF WorkOK, StationOK, Works, Stations, s
  <2>2. u \in Seq(Rows) /\ Drawn(u, s)
    BY <1>1 DEF Tells, s
  <2> HIDE DEF u
  <2>3. m \in Rows /\ m.seconds = 0 /\ Drawn(Append(u, m), b.station)
    BY <1>1, <1>4, <2>1, <2>2, DrawnMarker
  <2> HIDE DEF m
  <2>4. t \o Append(w.added, m) = Append(u, m)
    BY <1>1, <2>3, OneMore DEF u
  <2>5. PlusRows(c, Append(w.added, m)).seconds = PlusRows(c, w.added).seconds
    <3>1. /\ PlusRows(c, w.added) \in Totals
          /\ PlusRows(c, Append(w.added, m)).seconds = PlusRows(c, w.added).seconds + m.seconds
      BY <1>1, <2>3, PlusRowsStep DEF Totals
    <3>2. PlusRows(c, w.added).seconds \in Nat
      BY <3>1 DEF Totals
    <3> QED
      BY <2>3, <3>1, <3>2
  <2>6. b.added = Append(w.added, m)
    BY <1>4 DEF m
  <2> QED
    BY <1>1, <1>2, <2>3, <2>4, <2>5, <2>6 DEF Tells, s
<1> QED
  BY <1>1, <1>3, <1>4

\* So does saving.
LEMMA SaveTells ==
  ASSUME NEW t \in Seq(Rows), NEW c \in Totals, NEW S, NEW w \in Works(S), WorkOK(w),
         Tells(t, c, w)
  PROVE  Tells(t, c, Save(w))
<1>1. /\ Save(w).station = w.station /\ Save(w).added = w.added
      /\ Save(w).stored = Claims(w.station)
  BY SaveStep DEF WorkOK
<1>2. /\ Claims(w.station).hasSamples = w.station.hasSamples
      /\ Claims(w.station).gapOpen = w.station.gapOpen
  BY DEF Claims, PersistentFields
<1> QED
  BY <1>1, <1>2 DEF Tells, Flags

\* And so does a new reading of a station that has been polled since the start.
LEMMA AcceptTells ==
  ASSUME NEW t \in Seq(Rows), NEW c \in Totals, NEW S, NEW w \in Works(S), WorkOK(w),
         Tells(t, c, w), ~w.station.restarted,
         NEW r \in Readings, NEW invalid \in BOOLEAN, ~Replayed(w.station, r),
         NEW a, Accepted(S, w, a, r, invalid)
  PROVE  Tells(t, c, a)
<1> DEFINE s == w.station
           row == Last(a.added)
           u == t \o w.added
<1>1. /\ w.added \in Seq(Rows) /\ row \in Rows /\ a.added = Append(w.added, row)
      /\ IsReading(row) /\ row.time = r.time /\ a.station.highwater = r.time
      /\ a.station.seconds = s.seconds + row.seconds
      /\ a.station.previous = IF invalid THEN None ELSE r
      /\ a.station.hasSamples /\ a.station.gapOpen = invalid
      /\ a.stored = Claims(a.station) /\ ~a.station.restarted
  BY DEF Accepted, Works, Read
<1>2. row.gap <=> row.start = None
  BY DEF Accepted, Tells, Flags
<1>3. row.start # None => s.previous # None /\ row.start = s.highwater
  BY DEF Accepted, WorkOK, StationOK
<1> HIDE DEF row
<1>4. s.hasSamples => s.highwater \in Times /\ s.highwater < row.time
  <2>1. SUFFICES ASSUME s.hasSamples PROVE s.highwater \in Times /\ s.highwater < row.time
    OBVIOUS
  <2>2. s.highwater \in Times
    BY <2>1 DEF WorkOK, StationOK, Works, Stations
  <2>3. r.time \in Times
    BY DEF Readings
  <2> QED
    BY <1>1, <2>2, <2>3 DEF Replayed
<1>5. u \in Seq(Rows) /\ Drawn(u, s)
  BY <1>1 DEF Tells
<1> HIDE DEF u, s
<1>6. Drawn(Append(u, row), a.station)
  BY <1>1, <1>2, <1>3, <1>4, <1>5, DrawnReading
<1>7. t \o a.added = Append(u, row)
  BY <1>1, OneMore DEF u
<1>8. PlusRows(c, a.added).seconds = a.station.seconds
  <2>1. PlusRows(c, a.added).seconds = PlusRows(c, w.added).seconds + row.seconds
    BY <1>1, PlusRowsStep DEF Totals
  <2> QED
    BY <1>1, <2>1 DEF Tells, s
<1>9. Flags(a.station)
  BY <1>1 DEF Flags
<1>10. a.stored.hasSamples
  BY <1>1 DEF Claims, PersistentFields
<1> QED
  BY <1>6, <1>7, <1>8, <1>9, <1>10 DEF Tells

\* A break that is saved tells the truth.
LEMMA SavedBreakTells ==
  ASSUME NEW t \in Seq(Rows), NEW c \in Totals, NEW S, NEW w \in Works(S), WorkOK(w), ~Read(w),
         Tells(t, c, w), NEW now \in Times
  PROVE  Tells(t, c, Save(Break(w, now, TRUE)))
<1> DEFINE b == Break(w, now, TRUE)
<1>1. Broken(S, w, b)
  BY BreakStep
<1>2. b \in Works(S) /\ WorkOK(b)
  BY <1>1 DEF Broken
<1> HIDE DEF b
<1>3. Tells(t, c, b)
  BY <1>1, BreakTells
<1>4. Tells(t, c, Save(b))
  BY <1>2, <1>3, SaveTells
<1> QED
  BY <1>4 DEF b

\* _record_one() tells the truth.
LEMMA RecordOneTells ==
  ASSUME NEW t \in Seq(Rows), NEW c \in Totals, NEW S, Readings \subseteq S,
         NEW w \in Works(S), WorkOK(w), ~Read(w), Tells(t, c, w),
         NEW now \in Times, NEW snap \in Inputs, snap.kind # "missing",
         NEW rollback \in BOOLEAN
  PROVE  Tells(t, c, RecordOne(w, snap, now, rollback))
<1> DEFINE v == IF w.station.restarted THEN Break(w, now, TRUE) ELSE w
           r == Reading(snap)
           a == RecordOne(w, snap, now, rollback)
<1>1. v \in Works(S) /\ WorkOK(v) /\ ~Read(v) /\ Tells(t, c, v) /\ ~v.station.restarted
  <2>1. CASE w.station.restarted
    <3> DEFINE d == Break(w, now, TRUE)
    <3>1. Broken(S, w, d)
      BY BreakStep
    <3>2. v = d
      BY <2>1
    <3> HIDE DEF d, v
    <3>3. Tells(t, c, d)
      BY <3>1, BreakTells
    <3> QED
      BY <3>1, <3>2, <3>3 DEF Broken
  <2>2. CASE ~w.station.restarted
    BY <2>2
  <2> QED
    BY <2>1, <2>2
<1>2. ASSUME a = Save(Break(v, now, TRUE)) PROVE Tells(t, c, a)
  <2> HIDE DEF v, a
  <2> QED
    BY <1>1, <1>2, SavedBreakTells
<1>3. CASE Unavailable(snap, now, rollback)
  BY <1>2, <1>3 DEF RecordOne
<1>4. CASE ~Unavailable(snap, now, rollback) /\ ~Replayed(v.station, r)
  <2>1. r \in Readings /\ snap.invalid \in BOOLEAN
    <3>1. snap \in Reports
      BY <1>4 DEF Unavailable, Inputs
    <3> QED
      BY <3>1 DEF Reports, Reading, Readings
  <2>2. a = Accept(v, now, r, snap.invalid)
    BY <1>4 DEF RecordOne
  <2> HIDE DEF v, a, r
  <2>3. Accepted(S, v, a, r, snap.invalid)
    BY <1>1, <1>4, <2>1, <2>2, AcceptStep
  <2>4. Tells(t, c, a)
    BY <1>1, <1>4, <2>1, <2>3, AcceptTells
  <2> QED
    BY <2>4 DEF a
<1>5. CASE /\ ~Unavailable(snap, now, rollback) /\ Replayed(v.station, r)
           /\ Conflicting(v.station, r, snap.invalid)
  BY <1>2, <1>5 DEF RecordOne
<1>6. CASE /\ ~Unavailable(snap, now, rollback) /\ Replayed(v.station, r)
           /\ ~Conflicting(v.station, r, snap.invalid)
  <2>1. a = v
    BY <1>6 DEF RecordOne
  <2> HIDE DEF v, a
  <2>2. Tells(t, c, a)
    BY <1>1, <2>1
  <2> QED
    BY <2>2 DEF a
<1> QED
  BY <1>3, <1>4, <1>5, <1>6

-----------------------------------------------------------------------------
(* The invariant of the table. *)

\* What the tables, the counts and the clocks keep true.
TableInv ==
  /\ samples \in Seq(Rows) /\ rows \in Int
  /\ lastNow \in Times \cup {None} /\ clockFloor \in Times \cup {None}
  /\ lastMaintenance \in Times
  /\ counted \in Totals
  /\ rowsBack \in 0..MaxRowsBack /\ restarts \in 0..MaxRestarts
  /\ station.signature \in Readings \cup {None}
  /\ Flags(station) /\ (~stored.hasSamples => stored.gapOpen)
  /\ Drawn(samples, station)
  /\ counted.seconds = station.seconds
  /\ CapIsApplied

\* The transaction of record() tells the truth.
LEMMA PolledTells ==
  ASSUME HistoryInv, TableInv, NEW now \in Times, NEW snap \in Inputs
  PROVE  Tells(samples, counted, Polled(snap, now))
<1> DEFINE S == Readings \cup {station.signature}
           begin == [station |-> station, stored |-> stored, added |-> <<>>]
           cut == ClockChanged(now) \/ resetRequired
           reset == IF cut THEN Save(Break(begin, now, TRUE)) ELSE begin
           w == Polled(snap, now)
<1>0. samples \in Seq(Rows) /\ counted \in Totals
  BY DEF TableInv
<1>1. begin \in Works(S) /\ WorkOK(begin) /\ ~Read(begin)
  <2>1. station \in Stations(S)
    BY DEF HistoryInv, Stations
  <2> QED
    BY <2>1 DEF HistoryInv, Works, WorkOK, Read
<1>2. Tells(samples, counted, begin)
  <2>1. begin.station = station /\ begin.stored = stored /\ begin.added = <<>>
    OBVIOUS
  <2>2. samples \o <<>> = samples
    BY <1>0
  <2>3. PlusRows(counted, <<>>) = counted
    BY <1>0, PlusRowsType
  <2> HIDE DEF begin
  <2> QED
    BY <2>1, <2>2, <2>3 DEF TableInv, Tells
<1>3. reset \in Works(S) /\ WorkOK(reset) /\ ~Read(reset) /\ Tells(samples, counted, reset)
  <2>1. CASE cut
    <3> HIDE DEF begin, S
    <3>1. reset = Save(Break(begin, now, TRUE))
      BY <2>1
    <3>2. /\ Save(Break(begin, now, TRUE)) \in Works(S) /\ WorkOK(Save(Break(begin, now, TRUE)))
          /\ ~Read(Save(Break(begin, now, TRUE)))
      BY <1>1, SavedBreak
    <3>3. Tells(samples, counted, Save(Break(begin, now, TRUE)))
      BY <1>0, <1>1, <1>2, SavedBreakTells
    <3> QED
      BY <3>1, <3>2, <3>3
  <2>2. CASE ~cut
    BY <1>1, <1>2, <2>2
  <2> QED
    BY <2>1, <2>2
<1>4. CASE snap.kind = "missing"
  <2>1. w = Save(Break(reset, now, TRUE))
    BY <1>4 DEF Polled
  <2> HIDE DEF reset, w, S
  <2>2. Tells(samples, counted, w)
    BY <1>0, <1>3, <2>1, SavedBreakTells
  <2> QED
    BY <2>2 DEF w
<1>5. CASE snap.kind # "missing"
  <2>1. w = RecordOne(reset, snap, now, Rollback(now))
    BY <1>5 DEF Polled
  <2>2. Rollback(now) \in BOOLEAN /\ Readings \subseteq S
    BY DEF Rollback
  <2> HIDE DEF reset, w, S
  <2>3. Tells(samples, counted, w)
    BY <1>0, <1>3, <1>5, <2>1, <2>2, RecordOneTells
  <2> QED
    BY <2>3 DEF w
<1> QED
  BY <1>4, <1>5

\* record() preserves the invariant of the table.
LEMMA RecordTable ==
  ASSUME HistoryInv, TableInv, NEW now \in Times, NEW snap \in Inputs, Record(snap, now)
  PROVE  TableInv'
<1> DEFINE w == Polled(snap, now)
           S == Readings \cup {station.signature}
           table == samples \o w.added
           count == rows + Len(w.added)
           m == Maintained(table, count, now, FALSE)
<1>1. w \in Works(S) /\ Tells(samples, counted, w)
  BY PolledStep, PolledTells
<1>2. /\ samples' = m.samples /\ rows' = m.rows /\ lastMaintenance' = m.lastMaintenance
      /\ station' = w.station /\ stored' = w.stored /\ lastNow' = now
      /\ clockFloor' = (IF clockFloor # None /\ clockFloor > now THEN clockFloor ELSE now)
      /\ counted' = PlusRows(counted, w.added)
      /\ rowsBack' = rowsBack /\ restarts' = restarts
  BY DEF Record, Trace
<1> HIDE DEF w
<1>3. /\ table \in Seq(Rows) /\ count \in Int /\ w.added \in Seq(Rows)
      /\ Len(table) = Len(samples) + Len(w.added) /\ Len(samples) \in Nat /\ Len(w.added) \in Nat
  BY <1>1 DEF TableInv, Works
<1> HIDE DEF table, count
<1>4. Kept(table, count, m)
  BY <1>3, MaintainedStep DEF TableInv
<1> HIDE DEF m
<1>5. /\ samples' \in Seq(Rows) /\ PartOf(samples', table)
      /\ rows' \in Int /\ lastMaintenance' \in Times
      /\ rows' - Len(samples') = count - Len(table)
      /\ \A back \in Nat : count + back = Len(table) => Len(samples') <= MaxSamples + back
  BY <1>2, <1>4 DEF Kept
<1>6. Drawn(samples, station)'
  <2>1. Drawn(table, w.station)
    BY <1>1 DEF Tells, table
  <2>2. Drawn(samples', w.station)
    BY <1>3, <1>5, <2>1, DrawnPart
  <2> QED
    BY <1>2, <2>2 DEF Drawn, InOrder, Shows, Behind
<1>7. CapIsApplied'
  <2>1. rows + rowsBack = Len(samples) /\ rowsBack \in Nat /\ rows \in Int
    BY DEF TableInv, CapIsApplied, RowsAreCounted
  <2>2. count + rowsBack = Len(table)
    BY <1>3, <2>1 DEF count
  <2>3. Len(samples') \in Nat /\ Len(table) \in Nat
    BY <1>3, <1>5
  <2>4. rows' + rowsBack = Len(samples')
    <3>1. rows' \in Int /\ rows' - Len(samples') = count - Len(table) /\ count \in Int
      BY <1>3, <1>5
    <3>2. PICK a \in Int, b \in Int, p \in Nat, q \in Nat, back \in Nat :
            a = rows' /\ b = count /\ p = Len(samples') /\ q = Len(table) /\ back = rowsBack
      BY <2>1, <2>3, <3>1
    <3>3. a - p = b - q /\ b + back = q
      BY <2>2, <3>1, <3>2
    <3>4. a + back = p
      BY <3>3
    <3> QED
      BY <3>2, <3>4
  <2>5. Len(samples') <= MaxSamples + rowsBack
    BY <1>5, <2>1, <2>2
  <2> QED
    BY <1>2, <2>4, <2>5 DEF CapIsApplied, RowsAreCounted, ExcessComesBack
<1>8. counted' \in Totals /\ counted'.seconds = station'.seconds
  <2>1. PlusRows(counted, w.added) \in Totals
    BY <1>3, PlusRowsType DEF TableInv
  <2> QED
    BY <1>1, <1>2, <2>1 DEF Tells
<1>9. Flags(station)' /\ (~stored.hasSamples => stored.gapOpen)'
  BY <1>1, <1>2 DEF Tells, Flags
<1>10. station'.signature \in Readings \cup {None}
  BY <1>1, <1>2 DEF Works, Stations, TableInv
<1>11. /\ lastNow' \in Times \cup {None} /\ clockFloor' \in Times \cup {None}
       /\ rowsBack' \in 0..MaxRowsBack /\ restarts' \in 0..MaxRestarts
  BY <1>2 DEF TableInv
<1> QED
  BY <1>5, <1>6, <1>7, <1>8, <1>9, <1>10, <1>11 DEF TableInv

\* A set of rows' numbers has a largest one.
LEMMA Greatest ==
  ASSUME NEW N \in Nat, NEW T, T \subseteq 1..N, T # {}
  PROVE  Max(T) \in T
<1> DEFINE D == {N - i : i \in T}
<1>1. D \subseteq Nat /\ D # {}
  OBVIOUS
<1>2. PICK d \in D : \A e \in D : d <= e
  <2> HIDE DEF D
  <2> QED
    BY <1>1, Least
<1>3. PICK x \in T : d = N - x
  OBVIOUS
<1>4. ASSUME NEW y \in T PROVE x >= y
  <2>1. N - x <= N - y
    BY <1>2, <1>3
  <2>2. x \in Nat /\ y \in Nat
    OBVIOUS
  <2> QED
    BY <2>1, <2>2
<1>5. \E z \in T : \A y \in T : z >= y
  BY <1>4
<1> QED
  BY <1>5 DEF Max

\* The signature with which a station is restored is a reading, if it is known.
LEMMA SignatureType ==
  ASSUME stored \in Persistent, samples \in Seq(Rows)
  PROVE  Signature \in Readings \cup {None}
<1> DEFINE found == {i \in DOMAIN samples :
                       /\ IsReading(samples[i]) /\ samples[i].time = stored.highwater
                       /\ HasBattery(samples[i].value)}
<1>1. CASE found = {}
  BY <1>1 DEF Signature
<1>2. CASE found # {}
  <2>1. Len(samples) \in Nat /\ found \subseteq 1..Len(samples)
    OBVIOUS
  <2>2. Max(found) \in found
    <3> HIDE DEF found
    <3> QED
      BY <1>2, <2>1, Greatest
  <2>3. PICK i : i = Max(found)
    OBVIOUS
  <2>4. /\ i \in 1..Len(samples) /\ IsReading(samples[i]) /\ samples[i].time = stored.highwater
        /\ samples[i] \in Rows
    BY <2>1, <2>2, <2>3
  <2>5. samples[i].value \in Values /\ stored.highwater \in Times
    BY <2>4 DEF IsReading, Rows
  <2>6. stored.context \in Contexts
    BY DEF Persistent
  <2>7. Signature = [time |-> stored.highwater, context |-> stored.context,
                     value |-> samples[i].value]
    BY <1>2, <2>3 DEF Signature
  <2> QED
    BY <2>5, <2>6, <2>7 DEF Readings
<1> QED
  BY <1>1, <1>2

\* The process starts again: the station has lost its pair, and the rows are
\* pruned.
LEMMA RestartTable ==
  ASSUME HistoryInv, TableInv, NEW now \in Times, Restart(now)
  PROVE  TableInv'
<1> DEFINE m == Maintained(samples, Len(samples), now, TRUE)
<1>1. /\ station' = Loaded(stored, Signature) /\ samples' = m.samples /\ rows' = m.rows
      /\ lastMaintenance' = now /\ lastNow' = None /\ clockFloor' = None /\ rowsBack' = 0
      /\ restarts < MaxRestarts /\ restarts' = restarts + 1
      /\ stored' = stored /\ counted' = counted
  BY DEF Restart
<1> HIDE DEF m
<1>2. samples \in Seq(Rows) /\ Len(samples) \in Int /\ Len(samples) \in Nat
  BY DEF TableInv
<1>3. Kept(samples, Len(samples), m)
  BY <1>2, MaintainedStep DEF TableInv, m
<1>4. /\ samples' \in Seq(Rows) /\ PartOf(samples', samples) /\ rows' \in Int
      /\ rows' - Len(samples') = Len(samples) - Len(samples)
      /\ Len(samples) + 0 = Len(samples) => Len(samples') <= MaxSamples + 0
  <2>1. 0 \in Nat
    OBVIOUS
  <2> QED
    BY <1>1, <1>3, <2>1 DEF Kept
<1>5. /\ station'.previous = None /\ station'.restarted = stored.hasSamples
      /\ station'.hasSamples = station.hasSamples /\ station'.highwater = station.highwater
      /\ station'.seconds = station.seconds /\ station'.gapOpen = stored.gapOpen
      /\ station'.signature = Signature /\ stored.hasSamples = station.hasSamples
  BY <1>1 DEF Loaded, HistoryInv, SavedAs, PersistentFields
<1>6. Flags(station)' /\ (~stored.hasSamples => stored.gapOpen)'
  BY <1>1, <1>5 DEF TableInv, Flags
<1>7. Drawn(samples, station)'
  <2>1. Drawn(samples', station)
    BY <1>2, <1>4, DrawnPart DEF TableInv
  <2>2. Drawn(samples', station')
    BY <1>5, <2>1, DrawnSame
  <2> QED
    BY <2>2 DEF Drawn, InOrder, Shows, Behind
<1>8. CapIsApplied'
  <2>1. PICK k \in Nat, l \in Nat, r \in Int :
          k = Len(samples) /\ l = Len(samples') /\ r = rows'
    BY <1>2, <1>4
  <2>2. r - l = k - k /\ (k + 0 = k => l <= MaxSamples + 0)
    BY <1>4, <2>1
  <2>3. r + 0 = l /\ l <= MaxSamples + 0
    BY <2>2
  <2> QED
    BY <1>1, <2>1, <2>3 DEF CapIsApplied, RowsAreCounted, ExcessComesBack
<1>9. station'.signature \in Readings \cup {None}
  BY <1>2, <1>5, SignatureType DEF HistoryInv
<1>10. restarts' \in 0..MaxRestarts /\ rowsBack' \in 0..MaxRowsBack
  BY <1>1 DEF TableInv
<1>11. counted' \in Totals /\ counted'.seconds = station'.seconds
  BY <1>1, <1>5 DEF TableInv
<1> QED
  BY <1>1, <1>4, <1>6, <1>7, <1>8, <1>9, <1>10, <1>11 DEF TableInv

\* query() deletes rows.
LEMMA QueryTable ==
  ASSUME HistoryInv, TableInv, NEW now \in Times, Query(now)
  PROVE  TableInv'
<1> DEFINE m == Maintained(samples, rows, now, FALSE)
<1>1. /\ samples' = m.samples /\ rows' = m.rows /\ lastMaintenance' = m.lastMaintenance
      /\ station' = station /\ stored' = stored /\ lastNow' = lastNow
      /\ clockFloor' = clockFloor /\ counted' = counted
      /\ rowsBack' = rowsBack /\ restarts' = restarts
  BY DEF Query, history
<1> HIDE DEF m
<1>2. /\ samples \in Seq(Rows) /\ rows \in Int /\ Len(samples) \in Nat
      /\ rows + rowsBack = Len(samples) /\ rowsBack \in Nat
  BY DEF TableInv, CapIsApplied, RowsAreCounted
<1>3. Kept(samples, rows, m)
  BY <1>2, MaintainedStep DEF TableInv, m
<1>4. /\ samples' \in Seq(Rows) /\ PartOf(samples', samples)
      /\ rows' \in Int /\ lastMaintenance' \in Times
      /\ rows' - Len(samples') = rows - Len(samples)
      /\ Len(samples') <= MaxSamples + rowsBack
  BY <1>1, <1>2, <1>3 DEF Kept
<1>5. Drawn(samples, station)'
  <2>1. Drawn(samples', station)
    BY <1>2, <1>4, DrawnPart DEF TableInv
  <2> QED
    BY <1>1, <2>1 DEF Drawn, InOrder, Shows, Behind
<1>6. CapIsApplied'
  <2>0. Len(samples') \in Nat
    BY <1>4
  <2>1. PICK k \in Nat, l \in Nat, r \in Int, q \in Int, back \in Nat :
          k = Len(samples) /\ l = Len(samples') /\ r = rows' /\ q = rows /\ back = rowsBack
    BY <1>2, <1>4, <2>0
  <2>2. r - l = q - k /\ q + back = k
    BY <1>2, <1>4, <2>1
  <2>3. r + back = l
    BY <2>2
  <2> QED
    BY <1>1, <1>4, <2>1, <2>3 DEF CapIsApplied, RowsAreCounted, ExcessComesBack
<1>7. Flags(station)' /\ (~stored.hasSamples => stored.gapOpen)'
  BY <1>1 DEF TableInv, Flags
<1> QED
  BY <1>1, <1>4, <1>5, <1>6, <1>7 DEF TableInv

\* When its transaction fails, the rows come back and the count does not.
LEMMA QueryRollsBackTable ==
  ASSUME HistoryInv, TableInv, NEW now \in Times, QueryRollsBack(now)
  PROVE  TableInv'
<1> DEFINE m == Maintained(samples, rows, now, FALSE)
<1>1. /\ rowsBack' = rowsBack + Len(samples) - Len(m.samples) /\ rowsBack' <= MaxRowsBack
      /\ rows' = m.rows /\ lastMaintenance' = m.lastMaintenance
      /\ samples' = samples /\ station' = station /\ stored' = stored /\ lastNow' = lastNow
      /\ clockFloor' = clockFloor /\ counted' = counted /\ restarts' = restarts
  BY DEF QueryRollsBack
<1> HIDE DEF m
<1>2. /\ samples \in Seq(Rows) /\ rows \in Int /\ Len(samples) \in Nat
      /\ rows + rowsBack = Len(samples) /\ rowsBack \in Nat
      /\ Len(samples) <= MaxSamples + rowsBack
  BY DEF TableInv, CapIsApplied, RowsAreCounted, ExcessComesBack
<1>3. Kept(samples, rows, m)
  BY <1>2, MaintainedStep DEF TableInv, m
<1>4. /\ m.samples \in Seq(Rows) /\ Len(m.samples) \in Nat /\ Len(m.samples) <= Len(samples)
      /\ rows' \in Int /\ lastMaintenance' \in Times
      /\ rows' - Len(m.samples) = rows - Len(samples)
  BY <1>1, <1>3 DEF Kept, PartOf
<1>5. PICK k \in Nat, l \in Nat, r \in Int, q \in Int, back \in Nat :
        k = Len(samples) /\ l = Len(m.samples) /\ r = rows' /\ q = rows /\ back = rowsBack
  BY <1>2, <1>4
<1>6. r - l = q - k /\ q + back = k /\ l <= k /\ rowsBack' = back + k - l /\ k <= MaxSamples + back
  BY <1>1, <1>2, <1>4, <1>5
<1>7. r + rowsBack' = k /\ k <= MaxSamples + rowsBack' /\ rowsBack' \in Nat
  BY <1>6
<1>8. CapIsApplied'
  BY <1>1, <1>5, <1>7 DEF CapIsApplied, RowsAreCounted, ExcessComesBack
<1>9. Drawn(samples, station)' /\ Flags(station)'
  BY <1>1 DEF TableInv, Drawn, InOrder, Shows, Behind, Flags
<1>10. rowsBack' \in 0..MaxRowsBack
  BY <1>1, <1>7
<1> QED
  BY <1>1, <1>4, <1>8, <1>9, <1>10 DEF TableInv

\* The other steps leave all of it.
LEMMA OtherTable ==
  ASSUME TableInv,
         UNCHANGED <<station, rows, lastNow, clockFloor, lastMaintenance, stored, samples,
                     counted, rowsBack, restarts>>
  PROVE  TableInv'
<1>1. Drawn(samples, station)' /\ Flags(station)' /\ CapIsApplied'
  BY DEF TableInv, Drawn, InOrder, Shows, Behind, Flags, CapIsApplied, RowsAreCounted,
         ExcessComesBack
<1> QED
  BY <1>1 DEF TableInv

\* A new table is empty.
LEMMA InitTable == Init => TableInv
<1> SUFFICES ASSUME Init PROVE TableInv
  OBVIOUS
<1>1. PICK c \in Contexts : stored = Unrecorded(c) /\ station = Loaded(stored, None)
  BY DEF Init
<1>2. /\ station.previous = None /\ ~station.restarted /\ station.gapOpen /\ station.seconds = 0
      /\ station.signature = None /\ stored.gapOpen
  BY <1>1 DEF Unrecorded, Loaded
<1>3. samples = <<>> /\ Len(samples) = 0 /\ samples \in Seq(Rows)
  BY DEF Init
<1>4. Drawn(samples, station)
  BY <1>3 DEF Drawn, InOrder, Shows, Behind
<1>5. Flags(station)
  BY <1>2 DEF Flags
<1>6. CapIsApplied
  BY <1>3 DEF Init, CapIsApplied, RowsAreCounted, ExcessComesBack
<1> QED
  BY <1>2, <1>3, <1>4, <1>5, <1>6 DEF Init, TableInv, Totals

\* Every step preserves both invariants.
THEOREM TableInvariant == Spec => [](HistoryInv /\ TableInv)
<1>1. HistoryInv /\ TableInv /\ [Next]_vars => TableInv'
  <2> SUFFICES ASSUME HistoryInv, TableInv, [Next]_vars PROVE TableInv'
    OBVIOUS
  <2>1. ASSUME NEW now \in Times, NEW snap \in Inputs, Record(snap, now) PROVE TableInv'
    BY <2>1, RecordTable
  <2>2. CASE RecordFails
    BY <2>2, OtherTable DEF RecordFails
  <2>3. ASSUME NEW now \in Times, Query(now) PROVE TableInv'
    BY <2>3, QueryTable
  <2>4. ASSUME NEW now \in Times, QueryRollsBack(now) PROVE TableInv'
    BY <2>4, QueryRollsBackTable
  <2>5. ASSUME NEW now \in Times, Restart(now) PROVE TableInv'
    BY <2>5, RestartTable
  <2>6. CASE UNCHANGED vars
    BY <2>6, OtherTable DEF vars, memory, history
  <2> QED
    BY <2>1, <2>2, <2>3, <2>4, <2>5, <2>6 DEF Next
<1> QED
  BY InitTable, <1>1, HistoryInvariant, PTL DEF Spec

-----------------------------------------------------------------------------
(* The theorems. *)

\* The coverage a station claims never exceeds the time between its first and
\* last report, whatever is replayed, restarted or rolled back.
THEOREM CoverageIsBounded == Spec => []CoverageBounded
<1>1. HistoryInv => CoverageBounded
  BY DEF HistoryInv, StationOK, CoverageBounded
<1> QED
  BY <1>1, HistoryInvariant, PTL

\* After every call the totals in the table are those in memory, but for the
\* gaps: a crash changes none of them.
THEOREM ClaimsAreAlwaysStored == Spec => []ClaimsAreStored
<1>1. HistoryInv => ClaimsAreStored
  BY DEF HistoryInv, SavedAs, ClaimsAreStored
<1> QED
  BY <1>1, HistoryInvariant, PTL

\* No interval is ever integrated across a break.
THEOREM NothingIsBridged == Spec => []NoBridging
<1>1. HistoryInv => NoBridging
  BY DEF HistoryInv, NoBridging
<1> QED
  BY <1>1, HistoryInvariant, PTL

\* Every variable has its type, the rows of the table and the signature of a
\* restored station included.
THEOREM TypeCorrect == Spec => []TypeOK
<1>1. HistoryInv /\ TableInv => TypeOK
  <2> SUFFICES ASSUME HistoryInv, TableInv PROVE TypeOK
    OBVIOUS
  <2>1. Claims(station) \in Persistent
    BY DEF HistoryInv, Stations, Claims, Persistent, PersistentFields
  <2>2. station.previous \in Readings \cup {None} /\ station.restarted \in BOOLEAN
    BY DEF HistoryInv, Stations
  <2> QED
    BY <2>1, <2>2 DEF HistoryInv, TableInv, TypeOK, Totals
<1> QED
  BY <1>1, TableInvariant, PTL

\* The rows are in order, no report is among them twice, and points of the
\* chart are connected exactly where an interval was integrated.
THEOREM ChartStaysTrue == Spec => []ChartIsTrue
<1>1. TableInv => ChartIsTrue
  BY DEF TableInv, Drawn, InOrder, Shows, ChartIsTrue, RowsInOrder, ChartShowsIntervals
<1> QED
  BY <1>1, TableInvariant, PTL

\* The stored coverage is the sum of the intervals of all rows ever committed,
\* whatever was pruned since.
THEOREM LifetimeIsCovered == Spec => []LifetimeCoverage
<1>1. HistoryInv /\ TableInv => LifetimeCoverage
  BY DEF HistoryInv, SavedAs, PersistentFields, TableInv, LifetimeCoverage
<1> QED
  BY <1>1, TableInvariant, PTL

\* The count in memory is that of the table and the cap holds, but for the rows
\* that failed queries brought back.
THEOREM CapStaysApplied == Spec => []CapIsApplied
<1>1. TableInv => CapIsApplied
  BY DEF TableInv
<1> QED
  BY <1>1, TableInvariant, PTL
=============================================================================
