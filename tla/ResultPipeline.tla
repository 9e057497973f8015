--------------------------- MODULE ResultPipeline ---------------------------
(***************************************************************************)
(* What becomes of check results: each worker buffers them in memory,      *)
(* together with the hourly and daily statistics they amount to, and       *)
(* flushes the buffer with three statements, one after the other and not   *)
(* in a transaction.  One monitor, probed by any number of workers, each   *)
(* in one region; time passes in hours.                                    *)
(***************************************************************************)
EXTENDS Naturals, Sequences, FiniteSets, FiniteSetsExt

CONSTANTS
  Workers, Regions,
  RegionOf,      \* [Workers -> Regions]
  Earlier,       \* a sequence of checks that the tables hold at first
  Outcomes,      \* a sequence of [up, ms]: what the checks find
  NoLatency,     \* a check without response time, and the min and max of none
  StartHour,     \* when the workers start
  MaxHour,       \* bound: the last hour
  HoursPerDay,   \* 24, or fewer to reach a second day early
  FlushMaxRows,  \* buffered rows that trigger a flush
  MaxFaults,     \* bound: statements that fail, workers that crash
  Stoppable      \* the workers that may be stopped

ASSUME PipelineAssumption ==
  /\ NoLatency \notin Nat
  /\ RegionOf \in [Workers -> Regions]
  /\ Earlier \in Seq([up: BOOLEAN, ms: Nat \cup {NoLatency}, hour: 0..StartHour, region: Regions])
  /\ Outcomes \in Seq([up: BOOLEAN, ms: Nat \cup {NoLatency}])
  /\ MaxHour \in Nat /\ StartHour \in 0..MaxHour /\ MaxFaults \in Nat
  /\ HoursPerDay \in Nat \ {0} /\ FlushMaxRows \in Nat \ {0}
  /\ Stoppable \subseteq Workers

Results == 1..(Len(Earlier) + Len(Outcomes))
Hours == 0..MaxHour

\* The bucket of an instant: truncateToHourUtc leaves the hour, truncateToDayUtc
\* the day.
DayOf(hour) == hour \div HoursPerDay
Days == 0..DayOf(MaxHour)

VARIABLES
  hour,      \* the current hour
  checks,    \* history: every completed check, with its hour
  buffer,    \* each worker's ResultBuffer: rows, hourly and daily
  flight,    \* each worker's flush in progress: statement, writes, starter
  stage,     \* each worker's life
  raw,       \* check_results: how many rows each check has
  hourly,    \* monitor_stats_hourly
  daily,     \* monitor_stats_daily
  counted,   \* history: the checks each rollup table contains
  faults     \* how many faults have happened

tables == <<raw, hourly, daily, counted>>
vars   == <<hour, checks, buffer, flight, stage, raw, hourly, daily, counted, faults>>

-----------------------------------------------------------------------------
(* Deltas.                                                                 *)

Latency == Nat \cup {NoLatency}
Delta == [checksTotal: Nat, checksUp: Nat, latencySum: Nat, latencyCount: Nat,
          latencyMin: Latency, latencyMax: Latency]

\* A bucket without checks: a fresh MutableDelta, or no row at all.
EmptyDelta == [checksTotal |-> 0, checksUp |-> 0, latencySum |-> 0, latencyCount |-> 0,
               latencyMin |-> NoLatency, latencyMax |-> NoLatency]

Lesser(a, b) == IF a < b THEN a ELSE b
Greater(a, b) == IF a < b THEN b ELSE a

\* LEAST and GREATEST ignore NULLs.
Least(a, b) == IF a = NoLatency THEN b ELSE IF b = NoLatency THEN a ELSE Lesser(a, b)
Greatest(a, b) == IF a = NoLatency THEN b ELSE IF b = NoLatency THEN a ELSE Greater(a, b)

\* Mutation: a missing response time is summed as a sentinel, -1.
AccumulateSentinel(d, o) ==
  [d EXCEPT !.checksTotal = @ + 1,
            !.latencySum = IF o.ms = NoLatency THEN @ - 1 ELSE @ + o.ms]

\* accumulate: one outcome is added to the delta of its bucket.
accumulate(d, o) ==
  [checksTotal  |-> d.checksTotal + 1,
   checksUp     |-> d.checksUp + (IF o.up THEN 1 ELSE 0),
   latencySum   |-> d.latencySum + (IF o.ms = NoLatency THEN 0 ELSE o.ms),
   latencyCount |-> d.latencyCount + (IF o.ms = NoLatency THEN 0 ELSE 1),
   latencyMin   |-> IF o.ms = NoLatency THEN d.latencyMin
                    ELSE IF d.latencyMin = NoLatency THEN o.ms ELSE Lesser(d.latencyMin, o.ms),
   latencyMax   |-> IF o.ms = NoLatency THEN d.latencyMax
                    ELSE IF d.latencyMax = NoLatency THEN o.ms ELSE Greater(d.latencyMax, o.ms)]

\* upsertRollup on one row: ON CONFLICT DO UPDATE.
Merged(row, d) ==
  [checksTotal  |-> row.checksTotal + d.checksTotal,
   checksUp     |-> row.checksUp + d.checksUp,
   latencySum   |-> row.latencySum + d.latencySum,
   latencyCount |-> row.latencyCount + d.latencyCount,
   latencyMin   |-> Least(row.latencyMin, d.latencyMin),
   latencyMax   |-> Greatest(row.latencyMax, d.latencyMax)]
upsertRollup(table, r, deltas) ==
  [b \in DOMAIN table |-> IF b[1] = r THEN Merged(table[b], deltas[b[2]]) ELSE table[b]]

\* The reference: the statistics of a set of checks, computed at once.
Aggregate(S) ==
  LET timed == {i \in S : checks[i].ms # NoLatency}
      times == {checks[i].ms : i \in timed}
  IN [checksTotal  |-> Cardinality(S),
      checksUp     |-> Cardinality({i \in S : checks[i].up}),
      latencySum   |-> MapThenSumSet(LAMBDA i : checks[i].ms, timed),
      latencyCount |-> Cardinality(timed),
      latencyMin   |-> IF times = {} THEN NoLatency ELSE Min(times),
      latencyMax   |-> IF times = {} THEN NoLatency ELSE Max(times)]

\* The checks of S in a region that fall into an hour, or a day.
InHour(S, r, h) == {i \in S : checks[i].region = r /\ checks[i].hour = h}
InDay(S, r, d)  == {i \in S : checks[i].region = r /\ DayOf(checks[i].hour) = d}

-----------------------------------------------------------------------------
(* State.                                                                  *)

EmptyBuffer == [rows |-> {}, hourly |-> [h \in Hours |-> EmptyDelta],
                daily |-> [d \in Days |-> EmptyDelta]]
Buffer == [rows: SUBSET Results, hourly: [Hours -> Delta], daily: [Days -> Delta]]

NoFlight == [next |-> "none", writes |-> EmptyBuffer, starter |-> "timer"]
\* The three statements of a flush.
Statements == {"rows", "hourly", "daily"}
Flight == [next: {"none"} \cup Statements, writes: Buffer,
           starter: {"timer", "job", "stop"}]

Done == DOMAIN checks

TypeOK ==
  /\ hour \in Hours
  /\ \E n \in 0..Len(Outcomes) : Done = 1..(Len(Earlier) + n)
  /\ \A i \in Done : checks[i].hour \in 0..hour
  /\ buffer \in [Workers -> Buffer]
  /\ flight \in [Workers -> Flight]
  /\ stage \in [Workers -> {"running", "draining", "flushing", "closing", "exited", "dead"}]
  /\ raw \in [Results -> Nat]
  /\ hourly \in [Regions \X Hours -> Delta] /\ daily \in [Regions \X Days -> Delta]
  /\ counted \in [hourly: SUBSET Results, daily: SUBSET Results]
  /\ faults \in 0..MaxFaults

Init ==
  /\ hour = StartHour
  /\ checks = Earlier
  /\ buffer = [w \in Workers |-> EmptyBuffer]
  /\ flight = [w \in Workers |-> NoFlight]
  /\ stage = [w \in Workers |-> "running"]
  /\ raw = [i \in Results |-> IF i \in DOMAIN Earlier THEN 1 ELSE 0]
  /\ counted = [hourly |-> DOMAIN Earlier, daily |-> DOMAIN Earlier]
  /\ hourly = [b \in Regions \X Hours |-> Aggregate(InHour(counted.hourly, b[1], b[2]))]
  /\ daily = [b \in Regions \X Days |-> Aggregate(InDay(counted.daily, b[1], b[2]))]
  /\ faults = 0

Fault == faults < MaxFaults /\ faults' = faults + 1

-----------------------------------------------------------------------------
(* Checks and flushes.                                                     *)

HourPasses ==
  /\ hour < MaxHour
  /\ hour' = hour + 1
  /\ UNCHANGED <<checks, buffer, flight, stage, tables, faults>>

\* A probe ends and ResultBuffer.add takes its outcome under the time at which the
\* probe began, in this hour or at the end of the previous one.  A worker that is
\* draining still finishes the jobs it has.
Add(w, h) ==
  LET i == Len(checks) + 1  o == Outcomes[i - Len(Earlier)] IN
  /\ stage[w] \in {"running", "draining"}
  /\ i \in Results
  /\ h <= hour /\ hour <= h + 1
  /\ checks' = Append(checks, [up |-> o.up, ms |-> o.ms, hour |-> h, region |-> RegionOf[w]])
  /\ buffer' = [buffer EXCEPT
       ![w].rows = @ \cup {i},
       ![w].hourly[h] = accumulate(@, o),
       ![w].daily[DayOf(h)] = accumulate(@, o)]
  /\ UNCHANGED <<hour, flight, stage, tables, faults>>

\* Mutation: a flush that fails leaves the flag set.
FlushingAfterError(w) == flight[w].next # "none" \/ faults > 0

Flushing(w) == flight[w].next # "none"

\* Mutation: the maps of deltas are not cleared with the rows.
KeptAfterDrain(w) == [buffer[w] EXCEPT !.rows = {}]
\* What drain() leaves in the buffer.
LeftAfterDrain(w) == EmptyBuffer

\* flush(), unless one is in progress or there is nothing to flush: drain() takes
\* everything buffered.
flush(w, starter) ==
  /\ ~Flushing(w)
  /\ buffer[w].rows # {}
  /\ flight' = [flight EXCEPT ![w] = [next |-> "rows", writes |-> buffer[w],
                                      starter |-> starter]]
  /\ buffer' = [buffer EXCEPT ![w] = LeftAfterDrain(w)]
  /\ UNCHANGED <<hour, checks, tables, faults>>

\* The periodic flush.
TimerFlush(w) ==
  /\ stage[w] = "running"
  /\ flush(w, "timer")
  /\ UNCHANGED stage

\* A job that ends with a full buffer flushes it before it is acknowledged.
JobFlush(w) ==
  /\ stage[w] \in {"running", "draining"}
  /\ Cardinality(buffer[w].rows) >= FlushMaxRows
  /\ flush(w, "job")
  /\ UNCHANGED stage

\* The statement that follows, until the flush is over.
AfterStatement(next) ==
  CASE next = "rows" -> "hourly" [] next = "hourly" -> "daily" [] next = "daily" -> "none"

\* The effect of a flush's next statement: insertResults, upsertHourly, upsertDaily.
Written(f, r) ==
  /\ raw' = IF f.next = "rows"
            THEN [i \in Results |-> IF i \in f.writes.rows THEN raw[i] + 1 ELSE raw[i]]
            ELSE raw
  /\ hourly' = IF f.next = "hourly" THEN upsertRollup(hourly, r, f.writes.hourly) ELSE hourly
  /\ daily' = IF f.next = "daily" THEN upsertRollup(daily, r, f.writes.daily) ELSE daily
  /\ counted' = IF f.next \in {"hourly", "daily"}
                THEN [counted EXCEPT ![f.next] = @ \cup f.writes.rows]
                ELSE counted

\* A flush that is over clears the flag; stop() goes on if it waited for it.
Over(w) ==
  /\ flight' = [flight EXCEPT ![w] = NoFlight]
  /\ stage' = IF stage[w] = "flushing" THEN [stage EXCEPT ![w] = "closing"] ELSE stage

\* One statement of a flush succeeds.  When the pool is being closed, the next one
\* is refused a connection and the flush fails.
Statement(w) ==
  LET next == AfterStatement(flight[w].next) IN
  /\ flight[w].next \in Statements
  /\ Written(flight[w], RegionOf[w])
  /\ IF next = "none" \/ stage[w] = "closing"
     THEN Over(w)
     ELSE flight' = [flight EXCEPT ![w].next = next] /\ UNCHANGED stage
  /\ UNCHANGED <<hour, checks, buffer, faults>>

\* flush() ends with an error.
FailedFlush(w) == Over(w)

\* A statement fails, and the flush with it: what it had drained is logged and
\* dropped.  The database may have executed the statement nevertheless.
StatementFails(w) ==
  /\ Fault
  /\ flight[w].next \in Statements
  /\ FailedFlush(w)
  /\ Written(flight[w], RegionOf[w]) \/ UNCHANGED tables
  /\ UNCHANGED <<hour, checks, buffer>>

-----------------------------------------------------------------------------
(* The end of a worker.                                                    *)

\* stop(): the consumer finishes its cycle, the timers are cleared.
Stop(w) ==
  /\ w \in Stoppable
  /\ stage[w] = "running"
  /\ stage' = [stage EXCEPT ![w] = "draining"]
  /\ UNCHANGED <<hour, checks, buffer, flight, tables, faults>>

\* The consume loop has ended (no job still waits for its own flush), and stop()
\* flushes what is left; this does nothing while another flush is in progress.
LastFlush(w) ==
  /\ stage[w] = "draining"
  /\ ~(Flushing(w) /\ flight[w].starter = "job")
  /\ \/ /\ flush(w, "stop")
        /\ stage' = [stage EXCEPT ![w] = "flushing"]
     \/ /\ Flushing(w) \/ buffer[w].rows = {}
        /\ stage' = [stage EXCEPT ![w] = "closing"]
        /\ UNCHANGED <<hour, checks, buffer, flight, tables, faults>>

\* db.close() has returned: every connection is idle.  process.exit().
Exit(w) ==
  /\ stage[w] = "closing"
  /\ ~Flushing(w)
  /\ stage' = [stage EXCEPT ![w] = "exited"]
  /\ UNCHANGED <<hour, checks, buffer, flight, tables, faults>>

\* The process dies with what it has in memory.
Crash(w) ==
  /\ Fault
  /\ stage[w] \notin {"exited", "dead"}
  /\ stage' = [stage EXCEPT ![w] = "dead"]
  /\ buffer' = [buffer EXCEPT ![w] = EmptyBuffer]
  /\ flight' = [flight EXCEPT ![w] = NoFlight]
  /\ UNCHANGED <<hour, checks, tables>>

-----------------------------------------------------------------------------
WorkerStep(w) ==
  \/ \E h \in Hours : Add(w, h)
  \/ TimerFlush(w)
  \/ JobFlush(w)
  \/ Statement(w)
  \/ StatementFails(w)
  \/ Stop(w)
  \/ LastFlush(w)
  \/ Exit(w)
  \/ Crash(w)

Next == HourPasses \/ \E w \in Workers : WorkerStep(w)

Spec == Init /\ [][Next]_vars

\* The flush timer fires while the worker runs; statements return; shutdown goes on.
Fairness ==
  \A w \in Workers : /\ WF_vars(TimerFlush(w) \/ JobFlush(w))
                     /\ WF_vars(Statement(w) \/ StatementFails(w))
                     /\ WF_vars(LastFlush(w))
                     /\ WF_vars(Exit(w))

FairSpec == Spec /\ Fairness

-----------------------------------------------------------------------------
\* The rollup tables hold exactly the statistics of the checks flushed into them,
\* however the checks were spread over workers, buffers and flushes, and whatever
\* failed: no check is counted twice, none is counted in part, and minima and
\* maxima survive the merges (upsertRollup, ResultBuffer.accumulate and drain).  A
\* check is in the daily statistics only if it is in the hourly ones, and there only
\* if its row was inserted, once: a flush that fails or is cut short loses
\* statistics, it never invents any.
RollupsExact ==
  /\ \A b \in DOMAIN hourly : hourly[b] = Aggregate(InHour(counted.hourly, b[1], b[2]))
  /\ \A b \in DOMAIN daily : daily[b] = Aggregate(InDay(counted.daily, b[1], b[2]))
  /\ counted.daily \subseteq counted.hourly
  /\ \A i \in counted.hourly : raw[i] = 1
  /\ \A i \in Results : raw[i] <= 1

\* Every buffer with results is drained, by a flush, at shutdown or with its worker:
\* no error leaves the flushing flag set for ever.
ResultsLeaveBuffer ==
  \A w \in Workers : buffer[w].rows # {} ~> (buffer[w].rows = {} \/ stage[w] = "exited")
=============================================================================
