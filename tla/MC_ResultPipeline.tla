-------------------------- MODULE MC_ResultPipeline --------------------------
(***************************************************************************)
(* Small instances of ResultPipeline and of the queries over its tables.   *)
(***************************************************************************)
EXTENDS StatsQueries, TLC

CONSTANTS w1, w2, ra, rb

OneWorker == {w1}
TwoWorkers == {w1, w2}
TwoRegions == {ra, rb}
InRegionA == [w \in Workers |-> ra]

SlowFail == [up |-> FALSE, ms |-> 7]
Fail == [up |-> FALSE, ms |-> NoLatency]
Quick == [up |-> TRUE, ms |-> 3]
ThreeOutcomes == <<SlowFail, Fail, Quick>>

\* Two checks of the other region.
InRegionB == <<[up |-> TRUE, ms |-> 4, hour |-> 0, region |-> rb],
               [up |-> FALSE, ms |-> 9, hour |-> 1, region |-> rb]>>
=============================================================================
