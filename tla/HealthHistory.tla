--------------------------- MODULE HealthHistory ---------------------------
(***************************************************************************)
(* One region under one fixed policy, fed an arbitrary history of check    *)
(* outcomes.  The history is kept, so that the incremental fold of         *)
(* HealthStateMachine can be compared with a definition that looks at the  *)
(* whole history at once.                                                  *)
(***************************************************************************)
EXTENDS HealthStateMachine, Sequences

CONSTANTS Policies,    \* the retry policies tried
          MaxHistory   \* bound: the longest history explored

ASSUME HistoryAssumption == Policies \subseteq RetryPolicy /\ MaxHistory \in Nat

VARIABLES policy,      \* the monitor's policy, fixed
          history,     \* every outcome so far, oldest first
          health       \* the region's persisted health

historyVars == <<policy, history, health>>

HistoryTypeOK ==
  /\ policy \in Policies
  /\ history \in Seq(BOOLEAN)
  /\ health \in MonitorHealth

HistoryInit ==
  /\ policy \in Policies
  /\ history = <<>>
  /\ health = initialHealth

\* One check of the region completes.
Check(up) ==
  /\ Len(history) < MaxHistory
  /\ history' = Append(history, up)
  /\ health' = evaluateHealth(health, up, policy)
  /\ UNCHANGED policy

HistoryNext == \E up \in BOOLEAN : Check(up)

HistorySpec == HistoryInit /\ [][HistoryNext]_historyVars

-----------------------------------------------------------------------------
(* The reference definition: read the answer off the whole history.        *)

\* The n outcomes ending at position i of history h are all `up`.
Streak(h, i, n, up) == n <= i /\ \A j \in (i - n + 1)..i : h[j] = up

\* The threshold a streak of this kind has to reach under policy p.
Threshold(p, up) == AtLeastOne(IF up THEN p.recoveryThreshold
                                     ELSE p.failureThreshold)

\* A streak long enough to decide the status ends at position i of h.
Decides(p, h, i, up) == Streak(h, i, Threshold(p, up), up)

\* Some streak of this kind decided the status, and none of the other kind
\* has decided it since.
DecidedLast(p, h, up) ==
  \E i \in 1..Len(h) :
    /\ Decides(p, h, i, up)
    /\ \A k \in (i + 1)..Len(h), other \in BOOLEAN \ {up} : ~Decides(p, h, k, other)

\* Each counter kept in the row is exactly the length of the current run of its
\* outcome, however long the history: evaluateHealth neither loses a result of
\* the run nor counts one from before it.
CountersMatchHistory ==
  /\ Streak(history, Len(history), health.failures, FALSE)
  /\ ~Streak(history, Len(history), health.failures + 1, FALSE)
  /\ Streak(history, Len(history), health.successes, TRUE)
  /\ ~Streak(history, Len(history), health.successes + 1, TRUE)

\* The anti-false-positive promise of state-machine.ts:6-8, as a statement on
\* the whole history: a region is down exactly when the last streak that reached
\* its threshold was one of failures, up when it was one of successes, and
\* pending when no streak ever did.
StatusMatchesHistory ==
  /\ health.status = "up" <=> DecidedLast(policy, history, TRUE)
  /\ health.status = "down" <=> DecidedLast(policy, history, FALSE)
=============================================================================
