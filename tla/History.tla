------------------------------ MODULE History ------------------------------
(***************************************************************************)
(* The history of one station in HistoryStore (python/solix_link/          *)
(* history.py): readings, integrated intervals, gaps, and what of it       *)
(* survives restarts, failed transactions and pruning.                     *)
(*                                                                         *)
(* A lock serialises the calls, and each call is one SQLite transaction,   *)
(* so a call is one action.  Stations of a store share only the row count; *)
(* there is one here.  A station exists from the start: one that has no    *)
(* samples yet behaves like one that record() has not met.                 *)
(***************************************************************************)
EXTENDS Integers, Sequences, FiniteSets, SequencesExt

CONSTANTS
  None,
  LastTime,     \* bound: the clocks show 0..LastTime
  Contexts,     \* pairs of model and protocol
  MaxGap,       \* longest interval that is integrated (15 s)
  Freshness,    \* age at which a report is stale (30 or 90 s)
  Skew,         \* how far a report may lie in the future (5 s)
  Retention,    \* age at which rows are deleted
  MaintainEvery,\* time between deletions (60 s)
  MaxSamples,   \* rows kept
  MaxRestarts,  \* bound on restarts
  MaxRowsBack   \* bound on rows that failed queries bring back

Times == 0..LastTime

ASSUME TimesAssumption ==
  /\ LastTime \in Nat /\ MaxGap \in Nat /\ Freshness \in Nat /\ Skew \in Nat
  /\ Retention \in Nat /\ MaintainEvery \in Nat /\ MaxSamples \in Nat /\ MaxRestarts \in Nat
  /\ MaxRowsBack \in Nat

VARIABLES
  station,          \* _states[name]: the station as the process knows it
  rows,             \* _rows: the number of rows as the process counts them
  lastNow,          \* _last_now
  clockFloor,       \* _clock_floor
  resetRequired,    \* _reset_required
  lastMaintenance,  \* _last_maintenance
  stored,           \* the station's row of table stations
  samples,          \* its rows of table samples, in the order of their ids
  counted,          \* history: what all rows ever committed add up to
  chain,            \* history: time of the last reading, None after a break
  bridged,          \* history: an interval was integrated across a break
  rowsBack,         \* history: rows that failed queries brought back
  restarts          \* number of restarts so far

memory  == <<station, rows, lastNow, clockFloor, resetRequired, lastMaintenance>>
history == <<counted, chain, bridged, rowsBack>>
vars == <<memory, stored, samples, history, restarts>>

\* What is known of a report: the battery level, the power, or both.
Values == {"both", "powerOnly", "batteryOnly"}

HasPower(v) == v # "batteryOnly"
HasBattery(v) == v # "powerOnly"

\* _Reading
Readings == [time : Times, context : Contexts, value : Values]
ASSUME NoneAssumption == None \notin Int /\ None \notin Values \cup Readings

Reading(snap) == [time |-> snap.latest, context |-> snap.context, value |-> snap.value]

\* The columns of table stations that change, and _Station.
Persistent == [context : Contexts, highwater : Times \cup {None}, seconds : Nat, gaps : Nat,
               gapOpen : BOOLEAN, hasSamples : BOOLEAN, start : Times \cup {None}]
PersistentFields == {"context", "highwater", "seconds", "gaps", "gapOpen", "hasSamples", "start"}
Claims(s) == [f \in PersistentFields |-> s[f]]

Unrecorded(context) ==
  [context |-> context, highwater |-> None, seconds |-> 0, gaps |-> 0, gapOpen |-> TRUE,
   hasSamples |-> FALSE, start |-> None]

\* A station as the constructor builds it from its row and its last reading.
Loaded(row, signature) ==
  [context |-> row.context, highwater |-> row.highwater, seconds |-> row.seconds,
   gaps |-> row.gaps, gapOpen |-> row.gapOpen, hasSamples |-> row.hasSamples,
   start |-> row.start, previous |-> None, signature |-> signature,
   restarted |-> row.hasSamples]

\* A row of table samples: a reading, or a marker where coverage ends.
Marker(time) ==
  [time |-> time, value |-> None, gap |-> TRUE, delta |-> 1, start |-> None, seconds |-> 0]
IsReading(row) == row.value # None

\* Totals with those of rows.
PlusRows(totals, added) ==
  LET sum[n \in 0..Len(added)] ==
        IF n = 0 THEN totals
        ELSE [seconds |-> sum[n - 1].seconds + added[n].seconds,
              gaps |-> sum[n - 1].gaps + added[n].delta]
  IN sum[Len(added)]

\* What record() sees of the station in a poll: a report of an available
\* station, in which an invalid power is unknown; a station that is not
\* connected or not available; or none, several, or a malformed snapshot.
Reports ==
  [kind : {"report"}, latest : Times, context : Contexts, value : Values, invalid : BOOLEAN]
Inputs == {snap \in Reports : snap.invalid => snap.value = "batteryOnly"}
            \cup [kind : {"unavailable", "missing"}]

-----------------------------------------------------------------------------
(* The steps of record(): w is the transaction so far, with the station in *)
(* memory, its row in the database and the sample rows added.              *)

\* Mutants of Save: a column is forgotten in the upsert.
SaveNoHighwater(w) ==
  [w EXCEPT !.stored = [Claims(w.station) EXCEPT !.highwater = w.stored.highwater]]
SaveNoCoverage(w) ==
  [w EXCEPT !.stored = [Claims(w.station) EXCEPT !.seconds = w.stored.seconds]]

Save(w) == [w EXCEPT !.stored = Claims(w.station)]

\* Mutants of MarkerTime: where the outage was noticed, or after the report.
MarkerTimeAtPoll(s, now) == now
MarkerTimeAfter(s, now) == IF s.highwater # None THEN s.highwater + 1 ELSE now

\* Unknown coverage begins with the last report, not with this poll.
MarkerTime(s, now) == IF s.highwater # None THEN s.highwater ELSE now

Interrupted(s) == [s EXCEPT !.previous = None, !.gapOpen = TRUE, !.restarted = FALSE]

\* _break(): a gap is counted once, and marked by a row of its own unless the
\* reading that ends it has that row.
Break(w, now, marker) ==
  LET s == w.station
      counts == s.hasSamples /\ ~s.gapOpen
  IN [w EXCEPT
        !.station = [Interrupted(s) EXCEPT !.gaps = IF counts THEN @ + 1 ELSE @],
        !.added = IF counts /\ marker THEN Append(@, Marker(MarkerTime(s, now))) ELSE @]

\* The rest of _record_one() for a new reading r; cut is break_pair.
Accept(w, now, r, invalid) ==
  LET s == w.station
      cut == \/ invalid \/ r.context # s.context
             \/ s.previous # None /\ r.time - s.previous.time > MaxGap
      b == (IF cut THEN Break(w, now, FALSE) ELSE w).station
      pair == b.previous # None /\ 0 < r.time - b.previous.time
      seconds == IF pair /\ HasPower(b.previous.value) /\ HasPower(r.value)
                 THEN r.time - b.previous.time ELSE 0
      row == [time |-> r.time, value |-> r.value, gap |-> b.gapOpen, delta |-> b.gaps - s.gaps,
              start |-> IF pair THEN b.previous.time ELSE None, seconds |-> seconds]
      accepted == [b EXCEPT !.context = r.context, !.highwater = r.time, !.signature = r,
                            !.seconds = @ + seconds,
                            !.start = IF s.hasSamples THEN @ ELSE r.time,
                            !.hasSamples = TRUE,
                            !.previous = IF invalid THEN None ELSE r,
                            !.gapOpen = invalid]
  IN Save([w EXCEPT !.station = accepted, !.added = Append(@, row)])

Unavailable(snap, now, rollback) ==
  \/ rollback \/ snap.kind = "unavailable"
  \/ snap.latest > now + Skew \/ now - snap.latest >= Freshness

\* Mutant of Replayed: a report that was stored already is new again.
NeverReplayed(s, r) == FALSE

Replayed(s, r) == s.highwater # None /\ r.time <= s.highwater

Conflicting(s, r, invalid) ==
  r.time < s.highwater \/ invalid \/ r # s.signature \/ r.context # s.context

\* _record_one()
RecordOne(w, snap, now, rollback) ==
  LET v == IF w.station.restarted THEN Break(w, now, TRUE) ELSE w
      r == Reading(snap)
  IN IF Unavailable(snap, now, rollback) THEN Save(Break(v, now, TRUE))
     ELSE IF ~Replayed(v.station, r) THEN Accept(v, now, r, snap.invalid)
     ELSE IF Conflicting(v.station, r, snap.invalid) THEN Save(Break(v, now, TRUE))
     ELSE v

\* The clock went back, or did not go on as polls do.
ClockChanged(now) == lastNow # None /\ (now < lastNow \/ now - lastNow > MaxGap)
Rollback(now) == clockFloor # None /\ now < clockFloor

\* The body of record() up to its maintenance.
Polled(snap, now) ==
  LET begin == [station |-> station, stored |-> stored, added |-> <<>>]
      reset == IF ClockChanged(now) \/ resetRequired THEN Save(Break(begin, now, TRUE)) ELSE begin
  IN IF snap.kind = "missing" THEN Save(Break(reset, now, TRUE))
     ELSE RecordOne(reset, snap, now, Rollback(now))

\* The rows of a table from a time on, in their order.
RowsSince(table, time) ==
  LET kept[n \in 0..Len(table)] ==
        IF n = 0 THEN <<>>
        ELSE IF table[n].time >= time THEN Append(kept[n - 1], table[n])
        ELSE kept[n - 1]
  IN kept[Len(table)]

\* How many of n rows the cap removes.
Excess(n) == IF n > MaxSamples THEN n - MaxSamples ELSE 0

\* _maintain(): the table, the count and the time of maintenance afterwards.
\* The rows are also in the order of their times (RowsInOrder), so that the
\* oldest ones are the first.
Maintained(table, count, now, force) ==
  LET due == \/ force \/ lastMaintenance = None
             \/ now - lastMaintenance >= MaintainEvery
      kept == IF due THEN RowsSince(table, now - Retention) ELSE table
      n == count - (Len(table) - Len(kept))
      excess == IF Excess(n) < Len(kept) THEN Excess(n) ELSE Len(kept)
  IN [samples |-> SubSeq(kept, excess + 1, Len(kept)), rows |-> n - excess,
      lastMaintenance |-> IF due THEN now ELSE lastMaintenance]

-----------------------------------------------------------------------------
Init ==
  /\ stored \in {Unrecorded(c) : c \in Contexts}
  /\ station = Loaded(stored, None)
  /\ rows = 0 /\ samples = <<>>
  /\ lastNow = None /\ clockFloor = None
  /\ resetRequired = FALSE
  /\ lastMaintenance \in Times    \* the constructor's
  /\ counted = [seconds |-> 0, gaps |-> 0]
  /\ chain = None /\ bridged = FALSE /\ rowsBack = 0
  /\ restarts = 0

\* What the documentation calls a break in continuity, seen in this poll.
Discontinuous(snap, now) ==
  \/ ClockChanged(now) \/ Rollback(now) \/ resetRequired
  \/ snap.kind = "missing" \/ Unavailable(snap, now, FALSE)
  \/ snap.invalid \/ snap.context # station.context
  \/ chain # None /\ snap.latest < chain

\* The history variables after the poll, for the rows it added: at most one
\* reading, which is the last of them.
Trace(snap, now, added) ==
  LET before == IF Discontinuous(snap, now) THEN None ELSE chain
      read == added # <<>> /\ IsReading(Last(added))
  IN /\ counted' = PlusRows(counted, added)
     /\ bridged' = (bridged \/ (read /\ Last(added).start \notin {None, before}))
     /\ chain' = IF read THEN Last(added).time ELSE before

\* record()
Record(snap, now) ==
  LET w == Polled(snap, now)
      m == Maintained(samples \o w.added, rows + Len(w.added), now, FALSE)
  IN /\ station' = w.station /\ stored' = w.stored
     /\ samples' = m.samples /\ rows' = m.rows /\ lastMaintenance' = m.lastMaintenance
     /\ lastNow' = now
     /\ clockFloor' = IF clockFloor # None /\ clockFloor > now THEN clockFloor ELSE now
     /\ resetRequired' = FALSE
     /\ Trace(snap, now, w.added)
     /\ UNCHANGED <<rowsBack, restarts>>

\* Mutant of RecordFails: the failure is forgotten.
RecordFailsQuietly ==
  UNCHANGED <<memory, stored, samples, counted, bridged, rowsBack, restarts>> /\ chain' = None

\* Mutant of RecordFails: the count of the rows is not restored.
RecordFailsCounting ==
  /\ resetRequired' = TRUE
  /\ rows' = rows + 1
  /\ chain' = None
  /\ UNCHANGED <<station, lastNow, clockFloor, lastMaintenance, stored, samples,
                 counted, bridged, rowsBack, restarts>>

\* record() fails: a bad batch or time, a full store, or the database.  The
\* transaction is rolled back and the memory is as before.
RecordFails ==
  /\ resetRequired' = TRUE
  /\ chain' = None
  /\ UNCHANGED <<station, rows, lastNow, clockFloor, lastMaintenance, stored, samples,
                 counted, bridged, rowsBack, restarts>>

\* query() at a time of the clock; only its maintenance changes anything.
Query(now) ==
  LET m == Maintained(samples, rows, now, FALSE) IN
  /\ samples' = m.samples /\ rows' = m.rows /\ lastMaintenance' = m.lastMaintenance
  /\ UNCHANGED <<station, lastNow, clockFloor, resetRequired, stored, history, restarts>>

\* The transaction of query() fails: the rows come back, the count does not.
QueryRollsBack(now) ==
  LET m == Maintained(samples, rows, now, FALSE) IN
  /\ rowsBack' = rowsBack + Len(samples) - Len(m.samples)
  /\ rowsBack' <= MaxRowsBack
  /\ rows' = m.rows /\ lastMaintenance' = m.lastMaintenance
  /\ UNCHANGED <<station, lastNow, clockFloor, resetRequired, stored, samples, counted, chain,
                 bridged, restarts>>

\* The last stored reading, if it can be told from a marker by its battery.
Signature ==
  LET found == {i \in DOMAIN samples :
                  /\ IsReading(samples[i]) /\ samples[i].time = stored.highwater
                  /\ HasBattery(samples[i].value)}
  IN IF found = {} THEN None
     ELSE [time |-> stored.highwater, context |-> stored.context,
           value |-> samples[Max(found)].value]

\* The process ends, by close() or a crash in any transaction, and the store
\* is opened again.
Restart(now) ==
  LET m == Maintained(samples, Len(samples), now, TRUE) IN
  /\ restarts < MaxRestarts
  /\ restarts' = restarts + 1
  /\ station' = Loaded(stored, Signature)
  /\ samples' = m.samples /\ rows' = m.rows /\ lastMaintenance' = now
  /\ lastNow' = None /\ clockFloor' = None /\ resetRequired' = FALSE
  /\ chain' = None /\ rowsBack' = 0
  /\ UNCHANGED <<stored, counted, bridged>>

Next ==
  \/ \E now \in Times, snap \in Inputs : Record(snap, now)
  \/ RecordFails
  \/ \E now \in Times : Query(now) \/ QueryRollsBack(now) \/ Restart(now)

Spec == Init /\ [][Next]_vars
-----------------------------------------------------------------------------
(* Properties. *)

Rows == [time : Times, value : Values \cup {None}, gap : BOOLEAN, delta : {0, 1},
         start : Times \cup {None}, seconds : Nat]

TypeOK ==
  /\ stored \in Persistent
  /\ Claims(station) \in Persistent
  /\ station.previous \in Readings \cup {None}
  /\ station.signature \in Readings \cup {None}
  /\ station.restarted \in BOOLEAN
  /\ samples \in Seq(Rows)
  /\ rows \in Int
  /\ lastNow \in Times \cup {None} /\ clockFloor \in Times \cup {None}
  /\ resetRequired \in BOOLEAN
  /\ lastMaintenance \in Times
  /\ counted \in [seconds : Nat, gaps : Nat]
  /\ chain \in Times \cup {None} /\ bridged \in BOOLEAN
  /\ rowsBack \in 0..MaxRowsBack /\ restarts \in 0..MaxRestarts

\* No interval is integrated across a break: an unavailable or stale report,
\* a missing station, an older or invalid report, another model or transport,
\* a change of the clock, a failed record() or a restart (test_restart_preserves_totals..., and "What
\* energy estimates mean" in docs/persistent-history.md).
NoBridging == ~bridged

\* The coverage a station claims never exceeds the time between its first and
\* its last report, over any number of restarts, replays and clock changes:
\* no interval is counted twice (highwater and previous in _record_one).
CoverageBounded ==
  station.hasSamples => station.seconds <= station.highwater - station.start

\* The rows are in the order of their times, and no report is among them twice.
RowsInOrder ==
  \A i, j \in 1..Len(samples) : i < j =>
    /\ samples[i].time <= samples[j].time
    /\ IsReading(samples[i]) /\ IsReading(samples[j]) => samples[i].time < samples[j].time

\* A point has no gap flag exactly if the interval between it and its
\* predecessor is an integrated pair, and no marker of a gap lies inside one.
ChartShowsIntervals ==
  \A i \in 1..Len(samples) : IsReading(samples[i]) =>
    /\ samples[i].gap <=> samples[i].start = None
    /\ samples[i].start # None =>
         \A j \in 1..(i - 1) : samples[j].time <= samples[i].start /\
           (samples[j].time = samples[i].start => IsReading(samples[j]))

\* The chart drawn from the rows and the energy agree on what is continuous: a
\* cached report that is polled again, also after a restart, is not stored
\* again (highwater), no marker overtakes a report, and points are connected
\* exactly where an interval was integrated.
ChartIsTrue == RowsInOrder /\ ChartShowsIntervals

\* Except for the number of gaps, what a station claims is what is stored: a
\* crash after a record() changes none of its totals (_save_station).
ClaimsAreStored ==
  \A f \in PersistentFields \ {"gaps", "gapOpen"} : stored[f] = station[f]

\* The stored coverage is the sum of the intervals of all rows ever
\* committed, those that were pruned since included (the lifetime totals of
\* docs/persistent-history.md, "including intervals whose rows expired").
LifetimeCoverage == stored.seconds = counted.seconds

\* docs/persistent-history.md: "lifetime_totals: persisted estimates since this
\* named station's first saved report", with the number of gaps among them:
\* every gap committed in a row is in the persisted total.
LifetimeGaps == stored.gaps = counted.gaps

\* The count of rows in memory is that of the table, whatever failed, but for
\* the rows that a failed query() brought back (_rows, backed up in record()).
RowsAreCounted == rows + rowsBack = Len(samples)

\* Only rows that a failed query() brought back exceed the cap (_maintain).
ExcessComesBack == Len(samples) <= MaxSamples + rowsBack

\* The cap is applied to the rows there are, although _maintain() only knows
\* the count in memory and transactions fail after it was changed.
CapIsApplied == RowsAreCounted /\ ExcessComesBack
=============================================================================
