---------------------------- MODULE StatsQueries ----------------------------
(***************************************************************************)
(* What the dashboard reads from the tables that the workers fill: the     *)
(* summary of a window, the series of its buckets, the bars and the recent *)
(* checks.  Each is one SELECT, so it sees the tables of one instant.       *)
(***************************************************************************)
EXTENDS ResultPipeline

CONSTANTS
  WindowDays,   \* of the longer windows: 7 or 30
  BarHours,     \* how far the bars go back: 72
  Bars,         \* how many of them are shown: 30
  RecentLimit,  \* how many checks the list of recent ones asks for
  NoValue       \* null

ASSUME StatsAssumption ==
  /\ WindowDays \in Nat \ {0} /\ BarHours \in Nat /\ Bars \in Nat
  /\ RecentLimit \in Nat \ {0} /\ NoValue \notin Nat

-----------------------------------------------------------------------------
(* Windows.  now() is an instant within the current hour, and a bucket is  *)
(* known by its start: the one the window begins in is left out.            *)

\* resolveWindow: the first hour, or day, that is inside the window.
FirstHour(hours) == IF hour < hours THEN 0 ELSE (hour - hours) + 1

\* Mutation: the day in which the window begins is counted in full.
FirstDayWhole(days) == IF DayOf(hour) < days THEN 0 ELSE DayOf(hour) - days

FirstDay(days) == IF DayOf(hour) < days THEN 0 ELSE (DayOf(hour) - days) + 1

\* There is a row for a bucket once something was counted in it.
Rows(table, from) == {b \in DOMAIN table : b[2] >= from /\ table[b].checksTotal > 0}
Buckets(table, from) == {b[2] : b \in Rows(table, from)}

-----------------------------------------------------------------------------
(* Aggregates.                                                             *)

\* min and max of a column ignore NULLs.
Lowest(values) == IF values \subseteq {NoLatency} THEN NoLatency ELSE Min(values \ {NoLatency})
Highest(values) == IF values \subseteq {NoLatency} THEN NoLatency ELSE Max(values \ {NoLatency})

\* The aggregates of a SELECT over rows, across regions.
Sum(table, rows) ==
  [checksTotal  |-> MapThenSumSet(LAMBDA b : table[b].checksTotal, rows),
   checksUp     |-> MapThenSumSet(LAMBDA b : table[b].checksUp, rows),
   latencySum   |-> MapThenSumSet(LAMBDA b : table[b].latencySum, rows),
   latencyCount |-> MapThenSumSet(LAMBDA b : table[b].latencyCount, rows),
   latencyMin   |-> Lowest({table[b].latencyMin : b \in rows}),
   latencyMax   |-> Highest({table[b].latencyMax : b \in rows})]

ratio(up, total) == IF total > 0 THEN <<up, total>> ELSE NoValue

\* Math.round(sum / count)
avg(sum, count) == IF count > 0 THEN (2 * sum + count) \div (2 * count) ELSE NoValue

Summary(d) ==
  [checksTotal |-> d.checksTotal, uptime |-> ratio(d.checksUp, d.checksTotal),
   avgLatencyMs |-> avg(d.latencySum, d.latencyCount),
   minLatencyMs |-> d.latencyMin, maxLatencyMs |-> d.latencyMax]

-----------------------------------------------------------------------------
(* The queries.                                                            *)

monitorSummary(from) == Summary(Sum(hourly, Rows(hourly, from)))

\* One point per bucket that has rows.
series(table, from) ==
  [b \in Buckets(table, from) |-> Summary(Sum(table, {k \in Rows(table, from) : k[2] = b}))]

\* The newest ratios, by bucket.
bars ==
  LET all == Buckets(hourly, FirstHour(BarHours))
      shown == {b \in all : Cardinality({c \in all : c > b}) < Bars}
  IN [b \in shown |-> series(hourly, FirstHour(BarHours))[b].uptime]

\* The uptime next to the bars, and the figures of the workspace's panel: the monitor
\* is the only one of its workspace.
uptime24h == LET s == Sum(hourly, Rows(hourly, FirstHour(HoursPerDay))) IN ratio(s.checksUp, s.checksTotal)

workspaceInsights ==
  LET s == Sum(hourly, Rows(hourly, FirstHour(HoursPerDay))) IN
  [uptime |-> ratio(s.checksUp, s.checksTotal), avgLatencyMs |-> avg(s.latencySum, s.latencyCount)]

\* The newest checks of the table.  The order of checks of one instant is not
\* determined, so there is more than one such list.
recentChecks ==
  LET stored == {i \in Done : raw[i] > 0} IN
  {S \in SUBSET stored :
     /\ Cardinality(S) = Lesser(RecentLimit, Cardinality(stored))
     /\ \A i \in S, j \in stored \ S : checks[i].hour >= checks[j].hour}

-----------------------------------------------------------------------------
(* Properties.                                                             *)

TotalOf(points) == MapThenSumSet(LAMBDA b : points[b].checksTotal, DOMAIN points)

\* A chart never shows a check that the summary of the same window leaves out: the
\* hourly chart shows the same checks, and the daily one no more, although it reads
\* another table, written by another statement, in buckets of another size.  The bars
\* of the list are the newest points of the hourly chart; the uptime beside them and
\* the panel of the workspace say what the summary of the day says.  The list of
\* recent checks, read from the third table, is not behind the chart: as many checks
\* as the newest points count are on it, if there is room.  The rounded average of a
\* point lies between its minimum and its maximum, and there is one exactly when some
\* check of the bucket had a response time.
ChartWithinSummary ==
  /\ TotalOf(series(hourly, FirstHour(HoursPerDay))) =
       monitorSummary(FirstHour(HoursPerDay)).checksTotal
  /\ TotalOf(series(daily, FirstDay(WindowDays))) <=
       monitorSummary(FirstHour(WindowDays * HoursPerDay)).checksTotal
  /\ LET chart == series(hourly, FirstHour(HoursPerDay)) IN
       \A b \in DOMAIN chart : \A c \in DOMAIN bars :
         /\ b > c => b \in DOMAIN bars
         /\ b = c => bars[c] = chart[b].uptime
  /\ LET day == monitorSummary(FirstHour(HoursPerDay)) IN
       /\ uptime24h = day.uptime
       /\ workspaceInsights = [uptime |-> day.uptime, avgLatencyMs |-> day.avgLatencyMs]
  /\ \A h \in Buckets(hourly, 0), S \in recentChecks :
       Cardinality({i \in S : checks[i].hour >= h}) >=
         Lesser(RecentLimit, TotalOf(series(hourly, h)))
  /\ \A table \in {hourly, daily} : LET points == series(table, 0) IN
       \A b \in DOMAIN points : LET p == points[b] IN
         IF p.avgLatencyMs = NoValue THEN p.minLatencyMs = NoLatency /\ p.maxLatencyMs = NoLatency
         ELSE p.minLatencyMs <= p.avgLatencyMs /\ p.avgLatencyMs <= p.maxLatencyMs
=============================================================================
