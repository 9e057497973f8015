------------------------- MODULE HealthStateMachine -------------------------
(***************************************************************************)
(* The retry state machine of packages/core: how one region's health folds *)
(* the outcome of a check.  It is pure: no state, no time.  Counters are   *)
(* plain naturals here; their SMALLINT column is the business of           *)
(* StatusEvaluation.                                                       *)
(***************************************************************************)
EXTENDS Naturals

\* The statuses of monitor.ts, all of which a monitor can show.
MonitorStatus == {"pending", "up", "down", "paused"}

\* A region (an assignment row) is never "paused": only pending, up or down.
RegionStatus == {"pending", "up", "down"}

\* Rolling counters persisted per region.
MonitorHealth == [status: RegionStatus, failures: Nat, successes: Nat]

\* How many consecutive results are required to change state.
RetryPolicy == [failureThreshold: Nat, recoveryThreshold: Nat]

\* The health of a freshly created assignment.
initialHealth == [status |-> "pending", failures |-> 0, successes |-> 0]

\* Math.max(1, n): thresholds below 1 count as 1.
AtLeastOne(n) == IF n < 1 THEN 1 ELSE n

\* Mutations: a success forgives one failure only, or none.
LeakyFailures(current, up) == IF up THEN current.failures - 1 ELSE current.failures + 1
StickyFailures(current, up) == IF up THEN current.failures ELSE current.failures + 1

\* The counters after one more outcome: a result extends its own streak and
\* ends the other one.
NextFailures(current, up) == IF up THEN 0 ELSE current.failures + 1
NextSuccesses(current, up) == IF up THEN current.successes + 1 ELSE 0

\* Mutations: a streak that has to pass its threshold; a streak that counts only
\* at the very result that reaches it.
CompletesLate(current, up, policy) ==
  \/ up /\ current.status # "up" /\ current.successes + 1 > AtLeastOne(policy.recoveryThreshold)
  \/ ~up /\ current.status # "down" /\ current.failures + 1 > AtLeastOne(policy.failureThreshold)
CompletesExactly(current, up, policy) ==
  \/ up /\ current.status # "up" /\ current.successes + 1 = AtLeastOne(policy.recoveryThreshold)
  \/ ~up /\ current.status # "down" /\ current.failures + 1 = AtLeastOne(policy.failureThreshold)

\* Does this outcome complete a streak that changes the region's status?
CompletesStreak(current, up, policy) ==
  \/ /\ up
     /\ current.status # "up"
     /\ NextSuccesses(current, up) >= AtLeastOne(policy.recoveryThreshold)
  \/ /\ ~up
     /\ current.status # "down"
     /\ NextFailures(current, up) >= AtLeastOne(policy.failureThreshold)

\* Fold one outcome into the current health.
evaluateHealth(current, up, policy) ==
  [status    |-> IF CompletesStreak(current, up, policy)
                 THEN IF up THEN "up" ELSE "down"
                 ELSE current.status,
   failures  |-> NextFailures(current, up),
   successes |-> NextSuccesses(current, up)]

=============================================================================
