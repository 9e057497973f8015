--------------------------- MODULE Outcomes_proofs ---------------------------
(***************************************************************************)
(* What becomes of a check, proved for every target, every history and    *)
(* every number of workers: its probe reaches the verdict that the answer  *)
(* deserves, the health of its region is the one that the whole history    *)
(* defines, the rollup tables hold exactly the statistics of the checks    *)
(* that were flushed into them, and what the dashboard shows of these      *)
(* tables agrees with itself.                                              *)
(***************************************************************************)
EXTENDS Probes, StatsQueries, FiniteSetTheorems, WellFoundedInduction, TLAPS

-----------------------------------------------------------------------------
(* The health of a region.                                                 *)

\* The counters alone say how long the current run is, and the status is
\* settled: no counter stands at its threshold without the status showing it.
\* The status can only be compared with the history once this is known.
Settled ==
  /\ health.successes >= Threshold(policy, TRUE) => health.status = "up"
  /\ health.failures >= Threshold(policy, FALSE) => health.status = "down"

HistoryInv == HistoryTypeOK /\ CountersMatchHistory /\ StatusMatchesHistory /\ Settled

\* A threshold is a positive number, whatever the policy says.
LEMMA ThresholdPositive ==
  ASSUME HistoryTypeOK, NEW up \in BOOLEAN
  PROVE  Threshold(policy, up) \in Nat /\ Threshold(policy, up) >= 1 /\ ~(0 >= Threshold(policy, up))
BY HistoryAssumption DEF HistoryTypeOK, Threshold, AtLeastOne, RetryPolicy

\* A streak that ends inside a history is the same in every extension of it.
LEMMA StreakOfPrefix ==
  ASSUME NEW h \in Seq(BOOLEAN), NEW x \in BOOLEAN, NEW i \in 0..Len(h),
         NEW n \in Nat, NEW up \in BOOLEAN
  PROVE  Streak(Append(h, x), i, n, up) <=> Streak(h, i, n, up)
<1>1. \A j \in 1..Len(h) : Append(h, x)[j] = h[j]
  OBVIOUS
<1>2. n <= i => (i - n + 1)..i \subseteq 1..Len(h)
  OBVIOUS
<1> QED BY <1>1, <1>2 DEF Streak

\* A streak that ends at the new outcome is one of that outcome, one longer
\* than a streak that ended just before it.
LEMMA StreakAtEnd ==
  ASSUME NEW h \in Seq(BOOLEAN), NEW x \in BOOLEAN, NEW n \in Nat, NEW up \in BOOLEAN
  PROVE  Streak(Append(h, x), Len(h) + 1, n + 1, up) <=>
           x = up /\ Streak(h, Len(h), n, up)
<1> DEFINE g == Append(h, x)
           L == Len(h)
<1>1. \A j \in 1..L : g[j] = h[j]
  OBVIOUS
<1>2. g[L + 1] = x /\ L \in Nat
  OBVIOUS
<1>3. (L + 1) - (n + 1) + 1 = L - n + 1
  BY <1>2
<1>4. n <= L => (L - n + 1)..(L + 1) = ((L - n + 1)..L) \cup {L + 1}
  BY <1>2
<1>5. n <= L => (L - n + 1)..L \subseteq 1..L
  BY <1>2
<1> HIDE DEF g, L
<1>6. n + 1 <= L + 1 <=> n <= L
  BY <1>2
<1>7. Streak(g, L + 1, n + 1, up) <=> n <= L /\ \A j \in (L - n + 1)..(L + 1) : g[j] = up
  BY <1>3, <1>6 DEF Streak
<1> QED BY <1>1, <1>2, <1>4, <1>5, <1>7 DEF Streak, g, L

\* The history stays a sequence of outcomes and the health a record of
\* counters (Check of evaluateHealth).
LEMMA HistoryTypeCorrect == HistorySpec => []HistoryTypeOK
<1>1. HistoryInit => HistoryTypeOK
  BY DEF HistoryInit, HistoryTypeOK, initialHealth, MonitorHealth, RegionStatus
<1>2. HistoryTypeOK /\ [HistoryNext]_historyVars => HistoryTypeOK'
  <2> SUFFICES ASSUME HistoryTypeOK, [HistoryNext]_historyVars PROVE HistoryTypeOK'
    OBVIOUS
  <2>1. ASSUME NEW up \in BOOLEAN, Check(up) PROVE HistoryTypeOK'
    BY <2>1 DEF Check, HistoryTypeOK, MonitorHealth, evaluateHealth, NextFailures,
                NextSuccesses, RegionStatus
  <2>2. CASE UNCHANGED historyVars
    BY <2>2 DEF historyVars, HistoryTypeOK
  <2> QED BY <2>1, <2>2 DEF HistoryNext
<1> QED BY <1>1, <1>2, PTL DEF HistorySpec

\* One check: the run of its outcome grows by one, the other run is empty.
LEMMA CheckKeepsCounters ==
  ASSUME HistoryTypeOK, CountersMatchHistory, NEW up \in BOOLEAN, Check(up)
  PROVE  CountersMatchHistory'
<1> DEFINE L == Len(history)
<1>1. /\ history \in Seq(BOOLEAN) /\ history' = Append(history, up)
      /\ Len(history') = L + 1 /\ L \in Nat
  BY DEF HistoryTypeOK, Check
<1>2. health.failures \in Nat /\ health.successes \in Nat
  BY DEF HistoryTypeOK, MonitorHealth
<1>3. ASSUME NEW b \in BOOLEAN
      PROVE  Streak(history', L + 1, 0, b)
  BY <1>1 DEF Streak
<1>4. ASSUME NEW b \in BOOLEAN, b # up
      PROVE  ~Streak(history', L + 1, 1, b)
  BY <1>1, <1>4, StreakAtEnd, 0 + 1 = 1
<1>5. CASE up
  <2>1. health'.failures = 0 /\ health'.successes = health.successes + 1
    BY <1>5 DEF Check, evaluateHealth, NextFailures, NextSuccesses
  <2>2. /\ Streak(history', L + 1, health.successes + 1, TRUE)
        /\ ~Streak(history', L + 1, health.successes + 1 + 1, TRUE)
    <3>1. up = TRUE /\ TRUE \in BOOLEAN
      BY <1>5
    <3>2. ASSUME NEW n \in Nat
          PROVE  Streak(history', L + 1, n + 1, TRUE) <=> Streak(history, L, n, TRUE)
      <4>1. Streak(Append(history, TRUE), L + 1, n + 1, TRUE)
              <=> TRUE = TRUE /\ Streak(history, L, n, TRUE)
        BY <1>1, StreakAtEnd
      <4> QED BY <4>1, <3>1, <1>1
    <3>3. health.successes + 1 \in Nat
      BY <1>2
    <3> QED BY <1>2, <3>2, <3>3 DEF CountersMatchHistory
  <2> QED BY <1>1, <1>3, <1>4, <1>5, <2>1, <2>2, 0 + 1 = 1 DEF CountersMatchHistory
<1>6. CASE ~up
  <2>1. health'.successes = 0 /\ health'.failures = health.failures + 1
    BY <1>6 DEF Check, evaluateHealth, NextFailures, NextSuccesses
  <2>2. /\ Streak(history', L + 1, health.failures + 1, FALSE)
        /\ ~Streak(history', L + 1, health.failures + 1 + 1, FALSE)
    <3>1. up = FALSE /\ FALSE \in BOOLEAN
      BY <1>6
    <3>2. ASSUME NEW n \in Nat
          PROVE  Streak(history', L + 1, n + 1, FALSE) <=> Streak(history, L, n, FALSE)
      <4>1. Streak(Append(history, FALSE), L + 1, n + 1, FALSE)
              <=> FALSE = FALSE /\ Streak(history, L, n, FALSE)
        BY <1>1, StreakAtEnd
      <4> QED BY <4>1, <3>1, <1>1
    <3>3. health.failures + 1 \in Nat
      BY <1>2
    <3> QED BY <1>2, <3>2, <3>3 DEF CountersMatchHistory
  <2> QED BY <1>1, <1>3, <1>4, <1>6, <2>1, <2>2, 0 + 1 = 1 DEF CountersMatchHistory
<1> QED BY <1>5, <1>6

\* A shorter streak ends wherever a longer one does.
LEMMA ShorterStreak ==
  ASSUME NEW h, NEW i \in Nat, NEW n \in Nat, NEW m \in Nat, n <= m,
         NEW up, Streak(h, i, m, up)
  PROVE  Streak(h, i, n, up)
BY DEF Streak

\* What one more outcome does to the deciding streaks: the new position decides
\* for the new outcome when the run has reached the threshold, and never for the
\* other one; earlier positions decide as before.
LEMMA DecisionsAfterCheck ==
  ASSUME HistoryTypeOK, CountersMatchHistory, NEW up \in BOOLEAN, Check(up)
  PROVE  /\ policy' = policy
         /\ \A i \in 1..Len(history), b \in BOOLEAN :
              Decides(policy, history', i, b) <=> Decides(policy, history, i, b)
         /\ \A other \in BOOLEAN \ {up} : ~Decides(policy, history', Len(history) + 1, other)
         /\ Decides(policy, history', Len(history) + 1, up) <=>
              (IF up THEN health'.successes ELSE health'.failures) >= Threshold(policy, up)
<1> DEFINE L == Len(history)
           count == IF up THEN health'.successes ELSE health'.failures
<1>1. /\ history \in Seq(BOOLEAN) /\ history' = Append(history, up)
      /\ Len(history') = L + 1 /\ L \in Nat
  BY DEF HistoryTypeOK, Check
<1>2. policy' = policy
  BY DEF Check
<1>3. \A b \in BOOLEAN : Threshold(policy, b) \in Nat /\ Threshold(policy, b) >= 1
  BY ThresholdPositive
<1>4. \A i \in 1..L, b \in BOOLEAN : Decides(policy, history', i, b) <=> Decides(policy, history, i, b)
  <2> SUFFICES ASSUME NEW i \in 1..L, NEW b \in BOOLEAN
               PROVE  Streak(history', i, Threshold(policy, b), b) <=> Streak(history, i, Threshold(policy, b), b)
    BY <1>2 DEF Decides
  <2>1. i \in 0..Len(history)
    BY <1>1
  <2> QED BY <1>1, <1>3, <2>1, StreakOfPrefix
<1>5. ASSUME NEW other \in BOOLEAN \ {up}
      PROVE  ~Decides(policy, history', L + 1, other)
  <2>1. Threshold(policy, other) - 1 \in Nat
        /\ (Threshold(policy, other) - 1) + 1 = Threshold(policy, other)
    BY <1>3
  <2>2. Streak(Append(history, up), Len(history) + 1, (Threshold(policy, other) - 1) + 1, other) <=>
          up = other /\ Streak(history, Len(history), Threshold(policy, other) - 1, other)
    BY <1>1, <2>1, StreakAtEnd
  <2> QED BY <1>1, <2>1, <2>2 DEF Decides
<1>6. Decides(policy, history', L + 1, up) <=> count >= Threshold(policy, up)
  <2>1. CountersMatchHistory' /\ HistoryTypeOK'
    <3>1. CountersMatchHistory'
      BY CheckKeepsCounters
    <3>2. HistoryTypeOK'
      BY DEF Check, HistoryTypeOK, MonitorHealth, evaluateHealth, NextFailures,
             NextSuccesses, RegionStatus
    <3> QED BY <3>1, <3>2
  <2>2. /\ count \in Nat
        /\ Streak(history', L + 1, count, up)
        /\ ~Streak(history', L + 1, count + 1, up)
    <3>1. CASE up
      <4>1. up = TRUE
        BY <3>1
      <4> QED BY <1>1, <2>1, <4>1 DEF CountersMatchHistory, HistoryTypeOK, MonitorHealth
    <3>2. CASE ~up
      <4>1. up = FALSE
        BY <3>2
      <4> QED BY <1>1, <2>1, <4>1 DEF CountersMatchHistory, HistoryTypeOK, MonitorHealth
    <3> QED BY <3>1, <3>2
  <2> HIDE DEF count
  <2>3. ASSUME count >= Threshold(policy, up)
        PROVE  Streak(history', L + 1, Threshold(policy, up), up)
    BY <1>1, <1>3, <2>2, <2>3, ShorterStreak
  <2>4. ASSUME ~(count >= Threshold(policy, up)), Streak(history', L + 1, Threshold(policy, up), up)
        PROVE  FALSE
    <3>1. count + 1 <= Threshold(policy, up) /\ count + 1 \in Nat /\ L + 1 \in Nat
      BY <1>1, <1>3, <2>2, <2>4
    <3> QED BY <1>3, <2>2, <2>4, <3>1, ShorterStreak
  <2>5. Decides(policy, history', L + 1, up) <=> Streak(history', L + 1, Threshold(policy, up), up)
    BY <1>2 DEF Decides
  <2> QED BY <2>3, <2>4, <2>5
<1> QED BY <1>2, <1>4, <1>5, <1>6

\* A position that decides becomes the last word; otherwise nothing changes.
LEMMA LastDecisionAfterCheck ==
  ASSUME HistoryTypeOK, CountersMatchHistory, NEW up \in BOOLEAN, Check(up)
  PROVE  /\ Decides(policy, history', Len(history) + 1, up) =>
              /\ DecidedLast(policy, history', up)
              /\ \A other \in BOOLEAN \ {up} : ~DecidedLast(policy, history', other)
         /\ ~Decides(policy, history', Len(history) + 1, up) =>
              \A b \in BOOLEAN : DecidedLast(policy, history', b) <=> DecidedLast(policy, history, b)
<1> DEFINE L == Len(history)
           D(i, b) == Decides(policy, history', i, b)
           C(i, b) == Decides(policy, history, i, b)
<1>1. Len(history') = L + 1 /\ L \in Nat
  BY DEF HistoryTypeOK, Check
<1>2. \A i \in 1..L, b \in BOOLEAN : D(i, b) <=> C(i, b)
  BY DecisionsAfterCheck
<1>3. \A other \in BOOLEAN \ {up} : ~D(L + 1, other)
  BY DecisionsAfterCheck
<1>4. \A b \in BOOLEAN : DecidedLast(policy, history', b) <=>
        \E i \in 1..(L + 1) : D(i, b) /\ \A k \in (i + 1)..(L + 1), other \in BOOLEAN \ {b} : ~D(k, other)
  BY <1>1 DEF DecidedLast
<1>5. \A b \in BOOLEAN : DecidedLast(policy, history, b) <=>
        \E i \in 1..L : C(i, b) /\ \A k \in (i + 1)..L, other \in BOOLEAN \ {b} : ~C(k, other)
  BY DEF DecidedLast
<1> HIDE DEF D, C, L
<1>6. ASSUME D(L + 1, up)
      PROVE  DecidedLast(policy, history', up)
  <2>1. L + 1 \in 1..(L + 1) /\ (L + 1 + 1)..(L + 1) = {}
    BY <1>1
  <2> QED BY <1>4, <1>6, <2>1
<1>7. ASSUME D(L + 1, up), NEW other \in BOOLEAN \ {up}
      PROVE  ~DecidedLast(policy, history', other)
  <2>1. ASSUME NEW i \in 1..(L + 1), D(i, other),
               \A k \in (i + 1)..(L + 1), b \in BOOLEAN \ {other} : ~D(k, b)
        PROVE  FALSE
    <3>1. i # L + 1
      BY <1>3, <2>1
    <3>2. L + 1 \in (i + 1)..(L + 1)
      BY <1>1, <3>1
    <3>3. up \in BOOLEAN \ {other}
      OBVIOUS
    <3> QED BY <1>7, <2>1, <3>2, <3>3
  <2> QED BY <1>4, <2>1
<1>8. ASSUME ~D(L + 1, up), NEW b \in BOOLEAN
      PROVE  DecidedLast(policy, history', b) <=> DecidedLast(policy, history, b)
  <2>1. \A c \in BOOLEAN : ~D(L + 1, c)
    BY <1>3, <1>8
  <2>3. \A i \in 1..(L + 1) : i = L + 1 \/ i \in 1..L
    BY <1>1
  <2>4. \A i \in 1..L : i \in 1..(L + 1)
    BY <1>1
  <2>5. \A i \in 1..L : \A k \in (i + 1)..(L + 1) : k = L + 1 \/ k \in (i + 1)..L
    BY <1>1
  <2>6. \A i \in 1..L : \A k \in (i + 1)..L : k \in 1..L /\ k \in (i + 1)..(L + 1)
    BY <1>1
  <2>7. ASSUME NEW i \in 1..L
        PROVE  (\A k \in (i + 1)..(L + 1), other \in BOOLEAN \ {b} : ~D(k, other))
                 <=> (\A k \in (i + 1)..L, other \in BOOLEAN \ {b} : ~C(k, other))
    <3>1. ASSUME NEW k \in (i + 1)..(L + 1), NEW other \in BOOLEAN \ {b},
                 \A j \in (i + 1)..L, o \in BOOLEAN \ {b} : ~C(j, o)
          PROVE  ~D(k, other)
      BY <1>2, <2>1, <2>5, <2>6, <3>1
    <3>2. ASSUME NEW k \in (i + 1)..L, NEW other \in BOOLEAN \ {b},
                 \A j \in (i + 1)..(L + 1), o \in BOOLEAN \ {b} : ~D(j, o)
          PROVE  ~C(k, other)
      BY <1>2, <2>6, <3>2
    <3> QED BY <3>1, <3>2
  <2> QED BY <1>2, <1>4, <1>5, <2>1, <2>3, <2>4, <2>7
<1>9. \A b \in BOOLEAN : D(L + 1, b) <=> Decides(policy, history', Len(history) + 1, b)
  BY DEF D, L
<1> QED BY <1>6, <1>7, <1>8, <1>9

\* One check keeps the status the one the history defines.
LEMMA CheckKeepsStatus ==
  ASSUME HistoryInv, NEW up \in BOOLEAN, Check(up)
  PROVE  StatusMatchesHistory' /\ Settled'
<1> DEFINE count == IF up THEN health'.successes ELSE health'.failures
           decided == Decides(policy, history', Len(history) + 1, up)
<1> USE DEF HistoryInv
<1>1. decided <=> count >= Threshold(policy, up)
  BY DecisionsAfterCheck
<1>2. /\ policy' = policy
      /\ ~(0 >= Threshold(policy, TRUE)) /\ ~(0 >= Threshold(policy, FALSE))
  <2>1. policy' = policy
    BY DEF Check
  <2> QED BY <2>1, ThresholdPositive
<1>3. /\ decided => /\ DecidedLast(policy, history', up)
                      /\ \A other \in BOOLEAN \ {up} : ~DecidedLast(policy, history', other)
      /\ ~decided => \A b \in BOOLEAN : DecidedLast(policy, history', b) <=> DecidedLast(policy, history, b)
  BY LastDecisionAfterCheck
<1> HIDE DEF decided
<1>4. CASE up
  <2>1. /\ health'.successes = health.successes + 1 /\ health'.failures = 0
        /\ health'.status = IF health.status # "up" /\ count >= Threshold(policy, TRUE)
                            THEN "up" ELSE health.status
    BY <1>4 DEF Check, evaluateHealth, NextFailures, NextSuccesses, CompletesStreak, Threshold
  <2>2. Settled'
    <3>1. count = health'.successes
      BY <1>4
    <3>2. ~(health'.failures >= Threshold(policy', FALSE))
      BY <1>2, <2>1
    <3>3. health'.status = "up" \/ ~(health'.successes >= Threshold(policy', TRUE))
      BY <1>2, <2>1, <3>1
    <3> QED BY <3>2, <3>3 DEF Settled
  <2>3. up = TRUE /\ FALSE \in BOOLEAN \ {up}
    BY <1>4
  <2>4. CASE decided
    <3>1. health'.status = "up" /\ "up" # "down"
      BY <1>1, <2>1, <2>3, <2>4
    <3>2. DecidedLast(policy', history', TRUE) /\ ~DecidedLast(policy', history', FALSE)
      BY <1>2, <1>3, <2>3, <2>4
    <3> QED BY <2>2, <3>1, <3>2 DEF StatusMatchesHistory
  <2>5. CASE ~decided
    <3>1. health'.status = health.status
      BY <1>1, <2>1, <2>3, <2>5
    <3>2. \A b \in BOOLEAN : DecidedLast(policy', history', b) <=> DecidedLast(policy, history, b)
      BY <1>2, <1>3, <2>5
    <3>3. TRUE \in BOOLEAN /\ FALSE \in BOOLEAN
      OBVIOUS
    <3> QED BY <2>2, <3>1, <3>2, <3>3 DEF StatusMatchesHistory
  <2> QED BY <2>4, <2>5
<1>5. CASE ~up
  <2>1. /\ health'.failures = health.failures + 1 /\ health'.successes = 0
        /\ health'.status = IF health.status # "down" /\ count >= Threshold(policy, FALSE)
                            THEN "down" ELSE health.status
    BY <1>5 DEF Check, evaluateHealth, NextFailures, NextSuccesses, CompletesStreak, Threshold
  <2>2. Settled'
    <3>1. count = health'.failures
      BY <1>5
    <3>2. ~(health'.successes >= Threshold(policy', TRUE))
      BY <1>2, <2>1
    <3>3. health'.status = "down" \/ ~(health'.failures >= Threshold(policy', FALSE))
      BY <1>2, <2>1, <3>1
    <3> QED BY <3>2, <3>3 DEF Settled
  <2>3. up = FALSE /\ TRUE \in BOOLEAN \ {up}
    BY <1>5
  <2>4. CASE decided
    <3>1. health'.status = "down" /\ "down" # "up"
      BY <1>1, <2>1, <2>3, <2>4
    <3>2. DecidedLast(policy', history', FALSE) /\ ~DecidedLast(policy', history', TRUE)
      BY <1>2, <1>3, <2>3, <2>4
    <3> QED BY <2>2, <3>1, <3>2 DEF StatusMatchesHistory
  <2>5. CASE ~decided
    <3>1. health'.status = health.status
      BY <1>1, <2>1, <2>3, <2>5
    <3>2. \A b \in BOOLEAN : DecidedLast(policy', history', b) <=> DecidedLast(policy, history, b)
      BY <1>2, <1>3, <2>5
    <3>3. TRUE \in BOOLEAN /\ FALSE \in BOOLEAN
      OBVIOUS
    <3> QED BY <2>2, <3>1, <3>2, <3>3 DEF StatusMatchesHistory
  <2> QED BY <2>4, <2>5
<1> QED BY <1>4, <1>5

\* The strengthened invariant of one region's history.
LEMMA HistoryInvariant == HistorySpec => []HistoryInv
<1>1. HistoryInit => HistoryInv
  <2> SUFFICES ASSUME HistoryInit PROVE HistoryInv
    OBVIOUS
  <2>1. HistoryTypeOK
    BY DEF HistoryInit, HistoryTypeOK, initialHealth, MonitorHealth, RegionStatus
  <2>2. history = <<>> /\ Len(history) = 0 /\ health = initialHealth
    BY DEF HistoryInit
  <2>3. CountersMatchHistory
    BY <2>2 DEF CountersMatchHistory, Streak, initialHealth
  <2>4. \A b \in BOOLEAN : ~DecidedLast(policy, history, b)
    BY <2>2 DEF DecidedLast
  <2>5. StatusMatchesHistory
    BY <2>2, <2>4 DEF StatusMatchesHistory, initialHealth
  <2>6. Settled
    <3>1. health.successes = 0 /\ health.failures = 0
      BY <2>2 DEF initialHealth
    <3>2. ~(0 >= Threshold(policy, TRUE)) /\ ~(0 >= Threshold(policy, FALSE))
      BY <2>1, ThresholdPositive
    <3> QED BY <3>1, <3>2 DEF Settled
  <2> QED BY <2>1, <2>3, <2>5, <2>6 DEF HistoryInv
<1>2. HistoryInv /\ [HistoryNext]_historyVars => HistoryInv'
  <2> SUFFICES ASSUME HistoryInv, [HistoryNext]_historyVars PROVE HistoryInv'
    OBVIOUS
  <2>1. ASSUME NEW up \in BOOLEAN, Check(up) PROVE HistoryInv'
    <3>1. HistoryTypeOK'
      BY <2>1 DEF HistoryInv, Check, HistoryTypeOK, MonitorHealth, evaluateHealth, NextFailures,
                  NextSuccesses, RegionStatus
    <3> QED BY <2>1, <3>1, CheckKeepsCounters, CheckKeepsStatus DEF HistoryInv
  <2>2. CASE UNCHANGED historyVars
    <3>1. policy' = policy /\ history' = history /\ health' = health
      BY <2>2 DEF historyVars
    <3>2. HistoryTypeOK' /\ CountersMatchHistory'
      BY <3>1 DEF HistoryInv, HistoryTypeOK, CountersMatchHistory
    <3>3. StatusMatchesHistory' /\ Settled'
      BY <3>1 DEF HistoryInv, StatusMatchesHistory, Settled
    <3> QED BY <3>2, <3>3 DEF HistoryInv
  <2> QED BY <2>1, <2>2 DEF HistoryNext
<1> QED BY <1>1, <1>2, PTL DEF HistorySpec

\* The two counters of a row are the exact lengths of its current runs, for every
\* policy and a history of any length (evaluateHealth of state-machine.ts).
THEOREM CountersCorrect == HistorySpec => []CountersMatchHistory
<1>1. HistoryInv => CountersMatchHistory
  BY DEF HistoryInv
<1> QED BY <1>1, HistoryInvariant, PTL

\* A region is down exactly when the last streak that reached its threshold was
\* one of failures, up when it was one of successes: for every policy and a
\* history of any length (evaluateHealth of state-machine.ts).
THEOREM StatusCorrect == HistorySpec => []StatusMatchesHistory
<1>1. HistoryInv => StatusMatchesHistory
  BY DEF HistoryInv
<1> QED BY <1>1, HistoryInvariant, PTL

-----------------------------------------------------------------------------
(* Sums.  MapThenSumSet takes the elements of a finite set one after the    *)
(* other; a sum depends neither on the order nor on what the function is   *)
(* outside the set.                                                        *)

Pick(S) == CHOOSE x \in S : TRUE
Total(v, S) == MapThenSumSet(LAMBDA x : v[x], S)
Iter(v, S) == CHOOSE iter : iter = [s \in SUBSET S |-> IF s = {} THEN 0 ELSE v[Pick(s)] + iter[s \ {Pick(s)}]]

\* MapThenSumSet is the fold written out.
LEMMA TotalIsIter == ASSUME NEW v, NEW S PROVE Total(v, S) = Iter(v, S)[S]
BY DEF Total, MapThenSumSet, MapThenFoldSet, Iter, Pick

LEMMA PickIn == ASSUME NEW S, S # {} PROVE Pick(S) \in S
BY DEF Pick

\* The sum of a column.
LEMMA SumOfColumn == ASSUME NEW t, NEW S, NEW f
  PROVE MapThenSumSet(LAMBDA b : t[b][f], S) = Total([b \in S |-> t[b][f]], S)
<1> DEFINE v == [b \in S |-> t[b][f]]
           F(iter) == [s \in SUBSET S |-> IF s = {} THEN 0 ELSE t[Pick(s)][f] + iter[s \ {Pick(s)}]]
           G(iter) == [s \in SUBSET S |-> IF s = {} THEN 0 ELSE v[Pick(s)] + iter[s \ {Pick(s)}]]
<1>1. \A iter : F(iter) = G(iter)
  <2> TAKE iter
  <2>1. \A s \in SUBSET S : s # {} => v[Pick(s)] = t[Pick(s)][f]
    BY PickIn
  <2> HIDE DEF v
  <2> QED BY <2>1
<1>2. MapThenSumSet(LAMBDA b : t[b][f], S) = (CHOOSE iter : iter = F(iter))[S]
  BY DEF MapThenSumSet, MapThenFoldSet, Pick
<1>3. (CHOOSE iter : iter = F(iter)) = (CHOOSE iter : iter = G(iter))
  <2> HIDE DEF F, G
  <2> QED BY <1>1
<1>4. Total(v, S) = (CHOOSE iter : iter = G(iter))[S]
  BY TotalIsIter DEF Iter
<1> QED BY <1>2, <1>3, <1>4

\* A set of naturals that counts from one number up to another.
LEMMA Counts ==
  ASSUME NEW to \in Nat, NEW T, 0 \in T, \A n \in 0..to : n \in T /\ n < to => n + 1 \in T
  PROVE  to \in T
<1> SUFFICES ASSUME to \notin T PROVE FALSE
  OBVIOUS
<1> DEFINE B == 0..to \ T
<1>1. PICK m \in B : \A n \in B : <<n, m>> \notin OpToRel(<, Nat)
  <2>1. B \subseteq Nat /\ B # {}
    OBVIOUS
  <2> HIDE DEF B
  <2> QED BY <2>1, NatLessThanWellFounded, WFMin
<1>2. m \in 0..to /\ m \notin T
  BY <1>1
<1>3. m - 1 \in 0..to /\ m - 1 < to /\ m - 1 < m /\ m - 1 + 1 = m
  BY <1>2
<1>4. <<m - 1, m>> \in OpToRel(<, Nat)
  BY <1>2, <1>3 DEF OpToRel
<1>5. m - 1 \in T
  BY <1>1, <1>3, <1>4
<1>6. m - 1 + 1 \in T
  BY <1>3, <1>5
<1> QED BY <1>2, <1>3, <1>6

\* The fold of a finite set is what its recursive equation says: there is a function that
\* satisfies it for the subsets of up to n elements, for every n.
LEMMA IterStep ==
  ASSUME NEW v, NEW S, IsFiniteSet(S)
  PROVE  \A s \in SUBSET S :
            Iter(v, S)[s] = IF s = {} THEN 0 ELSE v[Pick(s)] + Iter(v, S)[s \ {Pick(s)}]
<1> DEFINE Step(g, s) == IF s = {} THEN 0 ELSE v[Pick(s)] + g[s \ {Pick(s)}]
           D(n) == {s \in SUBSET S : Cardinality(s) <= n}
           T == {n \in Nat : \E g : g = [s \in D(n) |-> Step(g, s)]}
<1>1. \A s \in SUBSET S : IsFiniteSet(s) /\ Cardinality(s) \in Nat /\ Cardinality(s) <= Cardinality(S)
  BY FS_Subset, FS_CardinalityType
<1>2. 0 \in T
  <2> DEFINE g == [s \in D(0) |-> 0]
  <2>1. \A s \in D(0) : s = {}
    BY <1>1, FS_EmptySet
  <2>2. g = [s \in D(0) |-> Step(g, s)]
    <3> HIDE DEF D
    <3> QED BY <2>1
  <2> HIDE DEF g, D, Step
  <2> QED BY <2>2
<1>3. ASSUME NEW n \in Nat, n \in T
      PROVE  n + 1 \in T
  <2>1. PICK g : g = [s \in D(n) |-> Step(g, s)]
    BY <1>3
  <2> DEFINE h == [s \in D(n + 1) |-> IF s \in D(n) THEN g[s] ELSE Step(g, s)]
  <2>2. D(n) \subseteq D(n + 1)
    BY <1>1
  <2>3. ASSUME NEW s \in D(n + 1)
        PROVE  h[s] = Step(h, s)
    <3>1. s # {} => s \ {Pick(s)} \in D(n)
      <4> SUFFICES ASSUME s # {} PROVE s \ {Pick(s)} \in D(n)
        OBVIOUS
      <4>1. Pick(s) \in s /\ IsFiniteSet(s) /\ s \in SUBSET S /\ Cardinality(s) <= n + 1
        BY <1>1, PickIn
      <4>2. Cardinality(s \ {Pick(s)}) = Cardinality(s) - 1
        BY <4>1, FS_RemoveElement
      <4>3. Cardinality(s) \in Nat
        BY <1>1, <4>1
      <4> QED BY <4>1, <4>2, <4>3
    <3>2. \A u \in D(n) : h[u] = g[u]
      BY <2>2
    <3>3. Step(h, s) = Step(g, s)
      <4> HIDE DEF h, D
      <4> QED BY <3>1, <3>2
    <3>4. h[s] = IF s \in D(n) THEN g[s] ELSE Step(g, s)
      OBVIOUS
    <3> HIDE DEF h, D, Step
    <3>5. s \in D(n) => g[s] = Step(g, s)
      BY <2>1
    <3> QED BY <3>3, <3>4, <3>5
  <2>4. h = [s \in D(n + 1) |-> Step(h, s)]
    <3>1. h = [s \in D(n + 1) |-> h[s]]
      OBVIOUS
    <3> HIDE DEF h, D, Step
    <3> QED BY <3>1, <2>3
  <2> HIDE DEF h, D, Step
  <2> QED BY <2>4, <1>3
<1>4. Cardinality(S) \in T
  <2>1. Cardinality(S) \in Nat
    BY FS_CardinalityType
  <2>2. \A n \in 0..Cardinality(S) : n \in T /\ n < Cardinality(S) => n + 1 \in T
    BY <1>3
  <2> HIDE DEF T
  <2> QED BY <1>2, <2>1, <2>2, Counts
<1>5. D(Cardinality(S)) = SUBSET S
  BY <1>1
<1>6. \E g : g = [s \in SUBSET S |-> Step(g, s)]
  <2> HIDE DEF Step, D
  <2> QED BY <1>4, <1>5
<1>7. Iter(v, S) = CHOOSE iter : iter = [s \in SUBSET S |-> Step(iter, s)]
  BY DEF Iter
<1>8. Iter(v, S) = [s \in SUBSET S |-> Step(Iter(v, S), s)]
  <2> HIDE DEF Step
  <2> QED BY <1>6, <1>7
<1>9. \A s \in SUBSET S : Iter(v, S)[s] = Step(Iter(v, S), s)
  <2> DEFINE f == Iter(v, S)
  <2>1. f = [s \in SUBSET S |-> Step(f, s)]
    BY <1>8
  <2> HIDE DEF Step, f
  <2>2. \A s \in SUBSET S : f[s] = Step(f, s)
    BY <2>1
  <2> QED BY <2>2 DEF f
<1> QED BY <1>9

\* Induction on a finite set: a property that each part of S has when all that lack one more
\* element have it.
LEMMA Parts ==
  ASSUME NEW S, IsFiniteSet(S), NEW T, \A s \in SUBSET S : (\A x \in s : s \ {x} \in T) => s \in T
  PROVE  \A s \in SUBSET S : s \in T
<1> SUFFICES ASSUME NEW r \in SUBSET S, r \notin T PROVE FALSE
  OBVIOUS
<1> DEFINE B == (SUBSET S) \ T
<1>1. IsWellFoundedOn(StrictSubsetOrdering(S), FiniteSubsetsOf(S))
  BY FS_StrictSubsetOrderingWellFounded
<1>2. FiniteSubsetsOf(S) = SUBSET S
  BY FS_FiniteSubsetsOfFinite
<1>3. PICK s \in B : \A u \in B : <<u, s>> \notin StrictSubsetOrdering(S)
  <2>1. B \subseteq FiniteSubsetsOf(S) /\ B # {}
    BY <1>2
  <2> HIDE DEF B
  <2> QED BY <1>1, <2>1, WFMin
<1>4. PICK x \in s : s \ {x} \notin T
  <2>1. s \in SUBSET S /\ s \notin T
    <3>1. s \in B
      BY <1>3
    <3> QED BY <3>1
  <2> HIDE DEF B
  <2> QED BY <2>1, Zenon
<1>5. <<s \ {x}, s>> \in StrictSubsetOrdering(S)
  BY <1>3 DEF StrictSubsetOrdering
<1> QED BY <1>3, <1>4, <1>5

\* Two folds agree where their summands do, whatever sets they belong to.
LEMMA IterAgrees ==
  ASSUME NEW v, NEW u, NEW S, NEW R, IsFiniteSet(S), IsFiniteSet(R), R \subseteq S,
         \A x \in R : v[x] = u[x]
  PROVE  \A s \in SUBSET R : Iter(v, S)[s] = Iter(u, R)[s]
<1>a. \A s \in SUBSET S :
        Iter(v, S)[s] = IF s = {} THEN 0 ELSE v[Pick(s)] + Iter(v, S)[s \ {Pick(s)}]
  BY ONLY IterStep, IsFiniteSet(S), Zenon
<1>b. \A s \in SUBSET R :
        Iter(u, R)[s] = IF s = {} THEN 0 ELSE u[Pick(s)] + Iter(u, R)[s \ {Pick(s)}]
  BY ONLY IterStep, IsFiniteSet(R), Zenon
<1> DEFINE f == Iter(v, S)
           g == Iter(u, R)
           T == {s \in SUBSET R : f[s] = g[s]}
<1>1. \A s \in SUBSET S : f[s] = IF s = {} THEN 0 ELSE v[Pick(s)] + f[s \ {Pick(s)}]
  BY <1>a, Zenon
<1>2. \A s \in SUBSET R : g[s] = IF s = {} THEN 0 ELSE u[Pick(s)] + g[s \ {Pick(s)}]
  BY <1>b, Zenon
<1> HIDE DEF f, g
<1>3. ASSUME NEW s \in SUBSET R, \A x \in s : s \ {x} \in T
      PROVE  s \in T
  <2>1. CASE s = {}
    BY <1>1, <1>2, <2>1
  <2>2. CASE s # {}
    <3>1. Pick(s) \in s /\ s \in SUBSET S
      BY <2>2, PickIn
    <3>2. f[s \ {Pick(s)}] = g[s \ {Pick(s)}] /\ v[Pick(s)] = u[Pick(s)]
      BY <1>3, <3>1
    <3>3. f[s] = v[Pick(s)] + f[s \ {Pick(s)}]
      BY <1>1, <2>2, <3>1
    <3>4. g[s] = u[Pick(s)] + g[s \ {Pick(s)}]
      BY <1>2, <2>2, <3>1
    <3> QED BY <3>2, <3>3, <3>4
  <2> QED BY <2>1, <2>2
<1>4. \A s \in SUBSET R : s \in T
  <2> HIDE DEF T
  <2> QED BY <1>3, Parts
<1> QED BY <1>4 DEF f, g

\* A sum looks at nothing but the elements of its set.
LEMMA TotalAgrees ==
  ASSUME NEW v, NEW u, NEW S, IsFiniteSet(S), \A x \in S : v[x] = u[x]
  PROVE  Total(v, S) = Total(u, S)
<1>1. Iter(v, S)[S] = Iter(u, S)[S]
  BY IterAgrees
<1> QED BY <1>1, TotalIsIter

\* The sum over nothing.
LEMMA TotalNone == ASSUME NEW v PROVE Total(v, {}) = 0
<1>1. IsFiniteSet({})
  BY FS_EmptySet
<1>2. {} \in SUBSET {}
  OBVIOUS
<1>3. Iter(v, {})[{}] = 0
  BY <1>1, <1>2, IterStep
<1> QED BY <1>3, TotalIsIter

LEMMA TotalPick ==
  ASSUME NEW v, NEW S, IsFiniteSet(S), S # {}
  PROVE  Total(v, S) = v[Pick(S)] + Total(v, S \ {Pick(S)})
<1> DEFINE R == S \ {Pick(S)}
<1>1. S \in SUBSET S
  OBVIOUS
<1>2. Iter(v, S)[S] = v[Pick(S)] + Iter(v, S)[R]
  BY <1>1, IterStep
<1>3. Iter(v, S)[R] = Iter(v, R)[R]
  <2>1. IsFiniteSet(R) /\ R \subseteq S /\ R \in SUBSET R
    BY FS_Subset
  <2> HIDE DEF R
  <2> QED BY <2>1, IterAgrees
<1>4. Total(v, S) = Iter(v, S)[S] /\ Total(v, R) = Iter(v, R)[R]
  BY TotalIsIter
<1> QED BY <1>2, <1>3, <1>4

LEMMA TotalType ==
  ASSUME NEW v, NEW S, IsFiniteSet(S), \A x \in S : v[x] \in Nat
  PROVE  Total(v, S) \in Nat
<1> DEFINE T == {s \in SUBSET S : Total(v, s) \in Nat}
<1>1. ASSUME NEW s \in SUBSET S, \A x \in s : s \ {x} \in T
      PROVE  s \in T
  <2>1. CASE s = {}
    BY <2>1, TotalNone
  <2>2. CASE s # {}
    <3>1. Pick(s) \in s /\ IsFiniteSet(s)
      BY <2>2, PickIn, FS_Subset
    <3>2. Total(v, s) = v[Pick(s)] + Total(v, s \ {Pick(s)})
      BY <2>2, <3>1, TotalPick
    <3>3. v[Pick(s)] \in Nat /\ Total(v, s \ {Pick(s)}) \in Nat
      BY <1>1, <3>1
    <3> QED BY <3>2, <3>3
  <2> QED BY <2>1, <2>2
<1>2. \A s \in SUBSET S : s \in T
  <2> HIDE DEF T
  <2> QED BY <1>1, Parts
<1> QED BY <1>2

\* The order in which the elements are taken does not matter.
LEMMA TotalWithout ==
  ASSUME NEW v, NEW S, IsFiniteSet(S), \A x \in S : v[x] \in Nat, NEW e \in S
  PROVE  Total(v, S) = v[e] + Total(v, S \ {e})
<1> DEFINE T == {s \in SUBSET S : \A x \in s : Total(v, s) = v[x] + Total(v, s \ {x})}
<1>1. \A s \in SUBSET S : IsFiniteSet(s) /\ Total(v, s) \in Nat
  BY FS_Subset, TotalType
<1>2. ASSUME NEW s \in SUBSET S, \A x \in s : s \ {x} \in T
      PROVE  s \in T
  <2> SUFFICES ASSUME NEW x \in s
               PROVE  Total(v, s) = v[x] + Total(v, s \ {x})
    OBVIOUS
  <2> DEFINE p == Pick(s)
  <2>1. p \in s /\ s # {}
    BY PickIn
  <2>2. Total(v, s) = v[p] + Total(v, s \ {p})
    BY <1>1, <2>1, TotalPick
  <2> HIDE DEF p
  <2>3. CASE x = p
    BY <2>2, <2>3
  <2>4. CASE x # p
    <3>1. Total(v, s \ {p}) = v[x] + Total(v, (s \ {p}) \ {x})
      BY <1>2, <2>1, <2>4
    <3>2. Total(v, s \ {x}) = v[p] + Total(v, (s \ {x}) \ {p})
      BY <1>2, <2>1, <2>4
    <3>3. (s \ {p}) \ {x} = (s \ {x}) \ {p}
      OBVIOUS
    <3>4. v[x] \in Nat /\ v[p] \in Nat /\ Total(v, (s \ {p}) \ {x}) \in Nat
      BY <1>1, <2>1
    <3> QED BY <2>2, <3>1, <3>2, <3>3, <3>4
  <2> QED BY <2>3, <2>4
<1>3. \A s \in SUBSET S : s \in T
  <2> HIDE DEF T
  <2> QED BY <1>2, Parts
<1> QED BY <1>3

\* Two sets without a common element.
LEMMA TotalUnion ==
  ASSUME NEW v, NEW R, NEW S, IsFiniteSet(R), IsFiniteSet(S), R \cap S = {},
         \A x \in R \cup S : v[x] \in Nat
  PROVE  Total(v, R \cup S) = Total(v, R) + Total(v, S)
<1> DEFINE T == {s \in SUBSET S : Total(v, R \cup s) = Total(v, R) + Total(v, s)}
<1>1. /\ Total(v, R) \in Nat
      /\ \A s \in SUBSET S : /\ IsFiniteSet(s) /\ Total(v, s) \in Nat
                             /\ IsFiniteSet(R \cup s) /\ Total(v, R \cup s) \in Nat
  BY FS_Subset, FS_Union, TotalType
<1>2. ASSUME NEW s \in SUBSET S, \A x \in s : s \ {x} \in T
      PROVE  s \in T
  <2>1. CASE s = {}
    <3>1. R \cup s = R /\ Total(v, s) = 0
      BY <2>1, TotalNone
    <3> QED BY <1>1, <3>1
  <2>2. CASE s # {}
    <3>1. PICK x \in s : TRUE
      BY <2>2
    <3>2. Total(v, s) = v[x] + Total(v, s \ {x})
      <4>1. IsFiniteSet(s) /\ \A y \in s : v[y] \in Nat
        BY <1>1
      <4> QED BY <3>1, <4>1, TotalWithout
    <3>3. Total(v, R \cup s) = v[x] + Total(v, (R \cup s) \ {x})
      <4> DEFINE Q == R \cup s
      <4>1. IsFiniteSet(Q) /\ x \in Q /\ \A y \in Q : v[y] \in Nat
        BY <1>1, <3>1
      <4> HIDE DEF Q
      <4>2. Total(v, Q) = v[x] + Total(v, Q \ {x})
        BY <4>1, TotalWithout
      <4> QED BY <4>2 DEF Q
    <3>4. (R \cup s) \ {x} = R \cup (s \ {x})
      BY <3>1
    <3>5. Total(v, R \cup (s \ {x})) = Total(v, R) + Total(v, s \ {x})
      BY <1>2, <3>1
    <3>6. v[x] \in Nat /\ Total(v, s \ {x}) \in Nat
      BY <1>1, <3>1
    <3> QED BY <1>1, <3>2, <3>3, <3>4, <3>5, <3>6
  <2> QED BY <2>1, <2>2
<1>3. \A s \in SUBSET S : s \in T
  <2> HIDE DEF T
  <2> QED BY <1>2, Parts
<1> QED BY <1>3

-----------------------------------------------------------------------------
(* Response times.                                                         *)

\* A finite set of numbers has a smallest and a largest.
LEMMA SmallestIn ==
  ASSUME NEW S \in SUBSET Nat, S # {}
  PROVE  Min(S) \in S /\ \A y \in S : Min(S) <= y
<1>1. PICK m \in S : \A n \in S : <<n, m>> \notin OpToRel(<, Nat)
  BY NatLessThanWellFounded, WFMin
<1>2. \A n \in S : m <= n
  <2> TAKE n \in S
  <2>1. n \in Nat /\ m \in Nat
    OBVIOUS
  <2>2. n < m => <<n, m>> \in OpToRel(<, Nat)
    BY <2>1 DEF OpToRel
  <2>3. ~(n < m)
    BY <1>1, <2>2
  <2> QED BY <2>1, <2>3
<1>3. \E x \in S : \A y \in S : x =< y
  BY <1>2
<1> QED BY <1>3 DEF Min

LEMMA LargestIn ==
  ASSUME NEW S \in SUBSET Nat, IsFiniteSet(S), S # {}
  PROVE  Max(S) \in S /\ \A y \in S : y <= Max(S)
<1> DEFINE T == {s \in SUBSET S : s = {} \/ \E m \in s : \A y \in s : m >= y}
<1>1. ASSUME NEW s \in SUBSET S, \A x \in s : s \ {x} \in T
      PROVE  s \in T
  <2> SUFFICES ASSUME NEW x \in s PROVE \E m \in s : \A y \in s : m >= y
    OBVIOUS
  <2>1. s \ {x} = {} \/ \E m \in s \ {x} : \A y \in s \ {x} : m >= y
    BY <1>1
  <2>2. CASE s \ {x} = {}
    <3>1. \A y \in s : x >= y
      BY <2>2
    <3> QED BY <3>1
  <2>3. CASE \E m \in s \ {x} : \A y \in s \ {x} : m >= y
    <3>1. PICK m \in s \ {x} : \A y \in s \ {x} : m >= y
      BY <2>3
    <3>2. CASE m >= x
      <4>1. \A y \in s : m >= y
        BY <3>1, <3>2
      <4> QED BY <4>1
    <3>3. CASE ~(m >= x)
      <4>1. \A y \in s : x >= y
        <5> TAKE y \in s
        <5>1. x \in Nat /\ y \in Nat /\ m \in Nat
          OBVIOUS
        <5>2. y = x \/ m >= y
          BY <3>1
        <5> QED BY <3>3, <5>1, <5>2
      <4> QED BY <4>1
    <3> QED BY <3>2, <3>3
  <2> QED BY <2>1, <2>2, <2>3
<1>2. \A s \in SUBSET S : s \in T
  <2> HIDE DEF T
  <2> QED BY <1>1, Parts
<1>3. \E m \in S : \A y \in S : m >= y
  BY <1>2
<1>4. Max(S) \in S /\ \A y \in S : Max(S) >= y
  BY <1>3 DEF Max
<1> QED BY <1>4

\* The smallest and the largest, if there is one.
LowTime(T) == IF T = {} THEN NoLatency ELSE Min(T)
HighTime(T) == IF T = {} THEN NoLatency ELSE Max(T)

LEMMA TimesType ==
  ASSUME NEW T \in SUBSET Nat, IsFiniteSet(T)
  PROVE  LowTime(T) \in Latency /\ HighTime(T) \in Latency
BY SmallestIn, LargestIn DEF LowTime, HighTime, Latency

\* LEAST and GREATEST merge the extremes of two sets.
LEMMA LowTimeOfUnion ==
  ASSUME NEW R \in SUBSET Nat, NEW T \in SUBSET Nat
  PROVE  LowTime(R \cup T) = Least(LowTime(R), LowTime(T))
<1>1. CASE R = {}
  <2>1. R \cup T = T
    BY <1>1
  <2> QED BY <1>1, <2>1 DEF LowTime, Least
<1>2. CASE T = {}
  <2>1. R \cup T = R
    BY <1>2
  <2> QED BY <1>2, <2>1 DEF LowTime, Least
<1>3. CASE R # {} /\ T # {}
  <2> DEFINE a == Min(R)
             b == Min(T)
             c == Min(R \cup T)
  <2>1. a \in R /\ \A y \in R : a <= y
    BY <1>3, SmallestIn
  <2>2. b \in T /\ \A y \in T : b <= y
    BY <1>3, SmallestIn
  <2>3. c \in R \cup T /\ \A y \in R \cup T : c <= y
    <3>1. R \cup T \in SUBSET Nat /\ R \cup T # {}
      BY <1>3
    <3> QED BY <3>1, SmallestIn
  <2>4. LowTime(R) = a /\ LowTime(T) = b /\ LowTime(R \cup T) = c
    BY <1>3 DEF LowTime
  <2> HIDE DEF a, b, c
  <2>5. a \in Nat /\ b \in Nat /\ c \in Nat /\ c <= a /\ c <= b /\ (a <= c \/ b <= c)
    BY <2>1, <2>2, <2>3
  <2>6. c = Lesser(a, b)
    BY <2>5 DEF Lesser
  <2>7. a # NoLatency /\ b # NoLatency
    BY <2>5, PipelineAssumption
  <2> QED BY <2>4, <2>6, <2>7 DEF Least
<1> QED BY <1>1, <1>2, <1>3

LEMMA HighTimeOfUnion ==
  ASSUME NEW R \in SUBSET Nat, NEW T \in SUBSET Nat, IsFiniteSet(R), IsFiniteSet(T)
  PROVE  HighTime(R \cup T) = Greatest(HighTime(R), HighTime(T))
<1>1. CASE R = {}
  <2>1. R \cup T = T
    BY <1>1
  <2> QED BY <1>1, <2>1 DEF HighTime, Greatest
<1>2. CASE T = {}
  <2>1. R \cup T = R
    BY <1>2
  <2> QED BY <1>2, <2>1 DEF HighTime, Greatest
<1>3. CASE R # {} /\ T # {}
  <2> DEFINE a == Max(R)
             b == Max(T)
             c == Max(R \cup T)
  <2>1. a \in R /\ \A y \in R : y <= a
    BY <1>3, LargestIn
  <2>2. b \in T /\ \A y \in T : y <= b
    BY <1>3, LargestIn
  <2>3. c \in R \cup T /\ \A y \in R \cup T : y <= c
    <3>1. R \cup T \in SUBSET Nat /\ R \cup T # {} /\ IsFiniteSet(R \cup T)
      BY <1>3, FS_Union
    <3> QED BY <3>1, LargestIn
  <2>4. HighTime(R) = a /\ HighTime(T) = b /\ HighTime(R \cup T) = c
    BY <1>3 DEF HighTime
  <2> HIDE DEF a, b, c
  <2>5. a \in Nat /\ b \in Nat /\ c \in Nat /\ a <= c /\ b <= c /\ (c <= a \/ c <= b)
    BY <2>1, <2>2, <2>3
  <2>6. c = Greater(a, b)
    BY <2>5 DEF Greater
  <2>7. a # NoLatency /\ b # NoLatency
    BY <2>5, PipelineAssumption
  <2> QED BY <2>4, <2>6, <2>7 DEF Greatest
<1> QED BY <1>1, <1>2, <1>3

-----------------------------------------------------------------------------
(* The statistics of a set of checks.                                      *)

WithTime(c, S) == {i \in S : c[i].ms # NoLatency}
Times(c, S) == {c[i].ms : i \in WithTime(c, S)}
Good(c, S) == {i \in S : c[i].up}

\* Aggregate, of a history c that is given.
Statistics(c, S) ==
  [checksTotal  |-> Cardinality(S),
   checksUp     |-> Cardinality(Good(c, S)),
   latencySum   |-> Total([i \in WithTime(c, S) |-> c[i].ms], WithTime(c, S)),
   latencyCount |-> Cardinality(WithTime(c, S)),
   latencyMin   |-> LowTime(Times(c, S)),
   latencyMax   |-> HighTime(Times(c, S))]

\* Aggregate is this, of the checks so far.
LEMMA AggregateIs == ASSUME NEW S PROVE Aggregate(S) = Statistics(checks, S)
<1>1. MapThenSumSet(LAMBDA i : checks[i].ms, WithTime(checks, S))
        = Total([i \in WithTime(checks, S) |-> checks[i].ms], WithTime(checks, S))
  BY SumOfColumn
<1> DEFINE timed == {i \in S : checks[i].ms # NoLatency}
           times == {checks[i].ms : i \in timed}
<1>2. Aggregate(S) =
     [checksTotal  |-> Cardinality(S),
      checksUp     |-> Cardinality({i \in S : checks[i].up}),
      latencySum   |-> MapThenSumSet(LAMBDA i : checks[i].ms, timed),
      latencyCount |-> Cardinality(timed),
      latencyMin   |-> IF times = {} THEN NoLatency ELSE Min(times),
      latencyMax   |-> IF times = {} THEN NoLatency ELSE Max(times)]
  BY DEF Aggregate
<1>3. timed = WithTime(checks, S) /\ times = Times(checks, S)
  BY DEF WithTime, Times
<1>4. MapThenSumSet(LAMBDA i : checks[i].ms, timed)
        = Total([i \in WithTime(checks, S) |-> checks[i].ms], WithTime(checks, S))
  BY <1>1 DEF WithTime
<1> HIDE DEF timed, times
<1> QED BY <1>2, <1>3, <1>4 DEF Statistics, LowTime, HighTime, Good

\* A history of checks, as far as a set of them is concerned.
Recorded(c, S) == \A i \in S : c[i].up \in BOOLEAN /\ c[i].ms \in Latency

LEMMA PartsAreFinite ==
  ASSUME NEW c, NEW S, IsFiniteSet(S), Recorded(c, S)
  PROVE  /\ IsFiniteSet(WithTime(c, S)) /\ IsFiniteSet(Good(c, S)) /\ IsFiniteSet(Times(c, S))
         /\ Times(c, S) \in SUBSET Nat
         /\ \A i \in WithTime(c, S) : [j \in WithTime(c, S) |-> c[j].ms][i] \in Nat
<1>1. IsFiniteSet(WithTime(c, S)) /\ IsFiniteSet(Good(c, S))
  <2>1. WithTime(c, S) \in SUBSET S /\ Good(c, S) \in SUBSET S
    BY DEF WithTime, Good
  <2> QED BY <2>1, FS_Subset
<1>2. [i \in WithTime(c, S) |-> c[i].ms] \in Surjection(WithTime(c, S), Times(c, S))
  BY DEF Surjection, Times
<1>3. IsFiniteSet(Times(c, S))
  BY <1>1, <1>2, FS_Surjection
<1>4. \A i \in WithTime(c, S) : c[i].ms \in Nat
  BY DEF WithTime, Recorded, Latency
<1> QED BY <1>1, <1>3, <1>4 DEF Times

LEMMA StatisticsType ==
  ASSUME NEW c, NEW S, IsFiniteSet(S), Recorded(c, S)
  PROVE  Statistics(c, S) \in Delta
<1> DEFINE v == [i \in WithTime(c, S) |-> c[i].ms]
<1>1. /\ IsFiniteSet(WithTime(c, S)) /\ IsFiniteSet(Good(c, S)) /\ IsFiniteSet(Times(c, S))
      /\ Times(c, S) \in SUBSET Nat
      /\ \A i \in WithTime(c, S) : v[i] \in Nat
  BY PartsAreFinite
<1> HIDE DEF v
<1>2. Total(v, WithTime(c, S)) \in Nat
  BY <1>1, TotalType
<1>3. LowTime(Times(c, S)) \in Latency /\ HighTime(Times(c, S)) \in Latency
  BY <1>1, TimesType
<1>4. Cardinality(S) \in Nat /\ Cardinality(WithTime(c, S)) \in Nat /\ Cardinality(Good(c, S)) \in Nat
  BY <1>1, FS_CardinalityType
<1> QED BY <1>2, <1>3, <1>4 DEF Statistics, Delta, v

\* A bucket without checks.
LEMMA StatisticsOfNone == ASSUME NEW c PROVE Statistics(c, {}) = EmptyDelta
<1>1. WithTime(c, {}) = {} /\ Good(c, {}) = {} /\ Times(c, {}) = {}
  BY DEF WithTime, Good, Times
<1>2. Total([i \in {} |-> c[i].ms], {}) = 0
  BY TotalNone
<1>3. Cardinality({}) = 0
  BY FS_EmptySet
<1> QED BY <1>1, <1>2, <1>3 DEF Statistics, EmptyDelta, LowTime, HighTime

\* The statistics of a set look at no other check.
LEMMA StatisticsAgree ==
  ASSUME NEW c, NEW e, NEW S, \A i \in S : c[i] = e[i]
  PROVE  Statistics(c, S) = Statistics(e, S)
<1>1. WithTime(c, S) = WithTime(e, S) /\ Good(c, S) = Good(e, S)
  BY DEF WithTime, Good
<1>2. Times(c, S) = Times(e, S)
  BY <1>1 DEF Times, WithTime
<1>3. [i \in WithTime(c, S) |-> c[i].ms] = [i \in WithTime(e, S) |-> e[i].ms]
  BY <1>1 DEF WithTime
<1> QED BY <1>1, <1>2, <1>3 DEF Statistics

\* upsertRollup: two sets without a common check.
LEMMA StatisticsOfUnion ==
  ASSUME NEW c, NEW R, NEW S, IsFiniteSet(R), IsFiniteSet(S), R \cap S = {}, Recorded(c, R \cup S)
  PROVE  Statistics(c, R \cup S) = Merged(Statistics(c, R), Statistics(c, S))
<1> DEFINE v(X) == [i \in WithTime(c, X) |-> c[i].ms]
           Q == R \cup S
<1>1. WithTime(c, Q) = WithTime(c, R) \cup WithTime(c, S) /\ WithTime(c, R) \cap WithTime(c, S) = {}
  BY DEF WithTime
<1>2. Good(c, Q) = Good(c, R) \cup Good(c, S) /\ Good(c, R) \cap Good(c, S) = {}
  BY DEF Good
<1>3. Times(c, Q) = Times(c, R) \cup Times(c, S)
  BY DEF Times, WithTime
<1>4. IsFiniteSet(Q) /\ Recorded(c, R) /\ Recorded(c, S)
  BY FS_Union DEF Recorded
<1>5. \A X \in {R, S, Q} :
        /\ IsFiniteSet(WithTime(c, X)) /\ IsFiniteSet(Good(c, X)) /\ IsFiniteSet(Times(c, X))
        /\ Times(c, X) \in SUBSET Nat
        /\ \A i \in WithTime(c, X) : v(X)[i] \in Nat
  <2> TAKE X \in {R, S, Q}
  <2>1. IsFiniteSet(X) /\ Recorded(c, X)
    BY <1>4
  <2> QED BY <2>1, PartsAreFinite
<1>6. Total(v(Q), WithTime(c, Q)) = Total(v(R), WithTime(c, R)) + Total(v(S), WithTime(c, S))
  <2> DEFINE w == v(Q)
  <2>1. \A x \in WithTime(c, R) \cup WithTime(c, S) : w[x] \in Nat
    BY <1>1, <1>5
  <2>2. \A x \in WithTime(c, R) : w[x] = v(R)[x]
    BY <1>1
  <2>3. \A x \in WithTime(c, S) : w[x] = v(S)[x]
    BY <1>1
  <2> HIDE DEF v, Q, w
  <2>4. Total(w, WithTime(c, R) \cup WithTime(c, S)) = Total(w, WithTime(c, R)) + Total(w, WithTime(c, S))
    BY <1>1, <1>5, <2>1, TotalUnion
  <2>5. Total(w, WithTime(c, R)) = Total(v(R), WithTime(c, R))
    BY <1>5, <2>2, TotalAgrees
  <2>6. Total(w, WithTime(c, S)) = Total(v(S), WithTime(c, S))
    BY <1>5, <2>3, TotalAgrees
  <2> QED BY <1>1, <2>4, <2>5, <2>6 DEF w
<1>7. \A A, B : IsFiniteSet(A) /\ IsFiniteSet(B) /\ A \cap B = {}
                  => Cardinality(A \cup B) = Cardinality(A) + Cardinality(B)
  <2> TAKE A, B
  <2> HAVE IsFiniteSet(A) /\ IsFiniteSet(B) /\ A \cap B = {}
  <2>1. Cardinality(A \cup B) = Cardinality(A) + Cardinality(B) - Cardinality(A \cap B)
    BY FS_Union
  <2>2. Cardinality(A \cap B) = 0 /\ Cardinality(A) \in Nat /\ Cardinality(B) \in Nat
    BY FS_EmptySet, FS_CardinalityType
  <2> QED BY <2>1, <2>2
<1>8. LowTime(Times(c, Q)) = Least(LowTime(Times(c, R)), LowTime(Times(c, S)))
  BY <1>3, <1>5, LowTimeOfUnion
<1>9. HighTime(Times(c, Q)) = Greatest(HighTime(Times(c, R)), HighTime(Times(c, S)))
  BY <1>3, <1>5, HighTimeOfUnion
<1>10. Cardinality(Q) = Cardinality(R) + Cardinality(S)
  BY <1>7
<1>11. Cardinality(WithTime(c, Q)) = Cardinality(WithTime(c, R)) + Cardinality(WithTime(c, S))
  BY <1>1, <1>5, <1>7
<1>12. Cardinality(Good(c, Q)) = Cardinality(Good(c, R)) + Cardinality(Good(c, S))
  BY <1>2, <1>5, <1>7
<1>13. \A X : /\ Statistics(c, X).checksTotal = Cardinality(X)
              /\ Statistics(c, X).checksUp = Cardinality(Good(c, X))
              /\ Statistics(c, X).latencySum = Total(v(X), WithTime(c, X))
              /\ Statistics(c, X).latencyCount = Cardinality(WithTime(c, X))
              /\ Statistics(c, X).latencyMin = LowTime(Times(c, X))
              /\ Statistics(c, X).latencyMax = HighTime(Times(c, X))
  BY DEF Statistics
<1>14. Statistics(c, Q) =
     [checksTotal  |-> Cardinality(Q),
      checksUp     |-> Cardinality(Good(c, Q)),
      latencySum   |-> Total(v(Q), WithTime(c, Q)),
      latencyCount |-> Cardinality(WithTime(c, Q)),
      latencyMin   |-> LowTime(Times(c, Q)),
      latencyMax   |-> HighTime(Times(c, Q))]
  BY DEF Statistics
<1>15. R \cup S = Q
  OBVIOUS
<1> HIDE DEF v, Q
<1>16. Statistics(c, Q) = Merged(Statistics(c, R), Statistics(c, S))
  BY <1>6, <1>8, <1>9, <1>10, <1>11, <1>12, <1>13, <1>14 DEF Merged
<1> QED BY <1>15, <1>16

\* One check more.
LEMMA StatisticsOfOneMore ==
  ASSUME NEW c, NEW S, IsFiniteSet(S), NEW i, i \notin S, Recorded(c, S \cup {i}),
         NEW o, o.up = c[i].up, o.ms = c[i].ms
  PROVE  Statistics(c, S \cup {i}) = accumulate(Statistics(c, S), o)
<1> DEFINE one == Statistics(c, {i})
           d == Statistics(c, S)
           v == [j \in {i} |-> c[j].ms]
<1>1. Statistics(c, S \cup {i}) = Merged(d, one)
  <2>1. IsFiniteSet({i}) /\ S \cap {i} = {}
    BY FS_Singleton
  <2> QED BY <2>1, StatisticsOfUnion
<1>2. d \in Delta
  BY StatisticsType DEF Recorded
<1>3. o.up \in BOOLEAN /\ o.ms \in Latency
  BY DEF Recorded
<1>4. Cardinality({i}) = 1 /\ Cardinality({}) = 0
  BY FS_Singleton, FS_EmptySet
<1>5. Good(c, {i}) = IF o.up THEN {i} ELSE {}
  BY DEF Good
<1>6. one.checksTotal = 1 /\ one.checksUp = IF o.up THEN 1 ELSE 0
  BY <1>3, <1>4, <1>5 DEF Statistics
<1>7. CASE o.ms = NoLatency
  <2>1. WithTime(c, {i}) = {} /\ Times(c, {i}) = {}
    BY <1>7 DEF WithTime, Times
  <2>2. Total([j \in {} |-> c[j].ms], {}) = 0
    BY TotalNone
  <2>3. /\ one.latencySum = 0 /\ one.latencyCount = 0
        /\ one.latencyMin = NoLatency /\ one.latencyMax = NoLatency
    BY <1>4, <2>1, <2>2 DEF Statistics, LowTime, HighTime
  <2> HIDE DEF one, d
  <2>4. Merged(d, one) = accumulate(d, o)
    BY <1>2, <1>6, <1>7, <2>3 DEF Merged, accumulate, Delta, Latency, Least, Greatest
  <2> QED BY <1>1, <2>4 DEF d
<1>8. CASE o.ms # NoLatency
  <2>1. WithTime(c, {i}) = {i} /\ Times(c, {i}) = {o.ms} /\ o.ms \in Nat
    BY <1>3, <1>8 DEF WithTime, Times, Latency
  <2>2. Total(v, {i}) = o.ms
    <3>1. IsFiniteSet({i}) /\ \A x \in {i} : v[x] \in Nat
      BY <2>1, FS_Singleton
    <3>2. v[i] = o.ms /\ {i} \ {i} = {} /\ i \in {i}
      OBVIOUS
    <3> HIDE DEF v
    <3>3. Total(v, {i}) = v[i] + Total(v, {i} \ {i})
      BY <3>1, <3>2, TotalWithout
    <3>4. Total(v, {i} \ {i}) = 0
      BY <3>2, TotalNone
    <3> QED BY <2>1, <3>2, <3>3, <3>4
  <2>3. one.latencySum = o.ms /\ one.latencyCount = 1
    BY <1>4, <2>1, <2>2 DEF Statistics
  <2>4. LowTime({o.ms}) = o.ms /\ HighTime({o.ms}) = o.ms
    <3>1. {o.ms} \in SUBSET Nat /\ {o.ms} # {} /\ IsFiniteSet({o.ms})
      BY <2>1, FS_Singleton
    <3>2. Min({o.ms}) \in {o.ms} /\ Max({o.ms}) \in {o.ms}
      BY <3>1, SmallestIn, LargestIn
    <3> QED BY <3>2 DEF LowTime, HighTime
  <2>5. one.latencyMin = o.ms /\ one.latencyMax = o.ms
    BY <2>1, <2>4 DEF Statistics
  <2> HIDE DEF one, d, v
  <2>6. Merged(d, one) = accumulate(d, o)
    <3>1. /\ Least(d.latencyMin, one.latencyMin) = accumulate(d, o).latencyMin
          /\ Greatest(d.latencyMax, one.latencyMax) = accumulate(d, o).latencyMax
      BY <1>2, <1>8, <2>5 DEF accumulate, Delta, Latency, Least, Greatest
    <3>2. accumulate(d, o) = [checksTotal  |-> d.checksTotal + 1,
             checksUp     |-> d.checksUp + (IF o.up THEN 1 ELSE 0),
             latencySum   |-> d.latencySum + o.ms,
             latencyCount |-> d.latencyCount + 1,
             latencyMin   |-> accumulate(d, o).latencyMin,
             latencyMax   |-> accumulate(d, o).latencyMax]
      BY <1>8 DEF accumulate
    <3> QED BY <1>6, <2>3, <3>1, <3>2 DEF Merged
  <2> QED BY <1>1, <2>6 DEF d
<1> QED BY <1>7, <1>8

-----------------------------------------------------------------------------
(* The invariant.                                                          *)

Checked == [up: BOOLEAN, ms: Latency, hour: Hours, region: Regions]

AtHour(c, S, r, h) == {i \in S : c[i].region = r /\ c[i].hour = h}
AtDay(c, S, r, d)  == {i \in S : c[i].region = r /\ DayOf(c[i].hour) = d}

\* What is buffered, or drained, are the statistics of its rows, and these are checks
\* of the worker's region.
Faithful(c, B, r) ==
  /\ B.rows \subseteq DOMAIN c
  /\ \A i \in B.rows : c[i].region = r
  /\ \A h \in Hours : B.hourly[h] = Statistics(c, AtHour(c, B.rows, r, h))
  /\ \A d \in Days : B.daily[d] = Statistics(c, AtDay(c, B.rows, r, d))

BuffersFaithful ==
  \A w \in Workers : /\ Faithful(checks, buffer[w], RegionOf[w])
                     /\ Faithful(checks, flight[w].writes, RegionOf[w])

TablesFaithful ==
  /\ \A r \in Regions, h \in Hours :
       hourly[<<r, h>>] = Statistics(checks, AtHour(checks, counted.hourly, r, h))
  /\ \A r \in Regions, d \in Days :
       daily[<<r, d>>] = Statistics(checks, AtDay(checks, counted.daily, r, d))

\* No check is in two places.
RowsApart ==
  \A v, w \in Workers :
    /\ buffer[v].rows \cap flight[w].writes.rows = {}
    /\ v # w => /\ buffer[v].rows \cap buffer[w].rows = {}
                /\ flight[v].writes.rows \cap flight[w].writes.rows = {}

\* How far the statements of a flush have come.
Reached(f, inserted, in) ==
  \A i \in f.writes.rows :
    /\ f.next = "rows" => inserted[i] = 0
    /\ f.next = "hourly" => inserted[i] = 1 /\ i \notin in.hourly
    /\ f.next = "daily" => inserted[i] = 1 /\ i \in in.hourly /\ i \notin in.daily

InOrder ==
  /\ \A i \in Results : raw[i] <= 1 /\ (i \notin Done => raw[i] = 0)
  /\ counted.daily \subseteq counted.hourly
  /\ \A i \in counted.hourly : raw[i] = 1
  /\ \A w \in Workers : (\A i \in buffer[w].rows : raw[i] = 0) /\ Reached(flight[w], raw, counted)

ChecksRecorded ==
  /\ checks \in Seq(Checked)
  /\ Len(checks) \in Len(Earlier)..(Len(Earlier) + Len(Outcomes))

\* What the invariant says beside the types.
ExactInv == ChecksRecorded /\ BuffersFaithful /\ TablesFaithful /\ RowsApart /\ InOrder

\* Every hour that is reached lies in a day that has statistics.
LEMMA DayOfHour == ASSUME NEW h \in Hours PROVE DayOf(h) \in Days
<1>1. h \in Nat /\ MaxHour \in Nat /\ HoursPerDay \in Nat \ {0} /\ h <= MaxHour
  BY PipelineAssumption DEF Hours
<1>2. h \div HoursPerDay \in Nat /\ h \div HoursPerDay <= MaxHour \div HoursPerDay
  BY <1>1
<1>3. MaxHour \div HoursPerDay \in Nat
  BY <1>1
<1> QED BY <1>2, <1>3 DEF DayOf, Days

LEMMA ResultsFinite == IsFiniteSet(Results) /\ \A S \in SUBSET Results : IsFiniteSet(S)
<1>1. Len(Earlier) \in Nat /\ Len(Outcomes) \in Nat
  BY PipelineAssumption
<1>2. IsFiniteSet(Results)
  BY <1>1, FS_Interval DEF Results
<1> QED BY <1>2, FS_Subset

\* Deltas, buffers and histories keep their types.
LEMMA EmptyDeltaType == EmptyDelta \in Delta
BY DEF EmptyDelta, Delta, Latency

LEMMA accumulateType ==
  ASSUME NEW d \in Delta, NEW o, o.up \in BOOLEAN, o.ms \in Latency
  PROVE  accumulate(d, o) \in Delta
<1>1. /\ d.checksTotal \in Nat /\ d.checksUp \in Nat /\ d.latencySum \in Nat /\ d.latencyCount \in Nat
      /\ d.latencyMin \in Latency /\ d.latencyMax \in Latency
  BY DEF Delta
<1>2. CASE o.ms = NoLatency
  BY <1>1, <1>2 DEF accumulate, Delta
<1>3. CASE o.ms # NoLatency
  <2>1. o.ms \in Nat
    BY <1>3 DEF Latency
  <2> QED BY <1>1, <1>3, <2>1 DEF accumulate, Delta, Latency, Lesser, Greater
<1> QED BY <1>2, <1>3

LEMMA MergedType ==
  ASSUME NEW d \in Delta, NEW e \in Delta
  PROVE  Merged(d, e) \in Delta
BY DEF Merged, Delta, Latency, Least, Greatest, Lesser, Greater

LEMMA EmptyBufferType == EmptyBuffer \in Buffer
BY EmptyDeltaType DEF EmptyBuffer, Buffer

LEMMA NoneHere == ASSUME NEW c, NEW r, NEW k PROVE AtHour(c, {}, r, k) = {} /\ AtDay(c, {}, r, k) = {}
BY DEF AtHour, AtDay

\* An empty buffer is faithful to any history.
LEMMA EmptyBufferFaithful == ASSUME NEW c, NEW r PROVE Faithful(c, EmptyBuffer, r)
<1>1. /\ EmptyBuffer.rows = {}
      /\ \A h \in Hours : EmptyBuffer.hourly[h] = EmptyDelta
      /\ \A d \in Days : EmptyBuffer.daily[d] = EmptyDelta
  BY DEF EmptyBuffer
<1> QED BY <1>1, NoneHere, StatisticsOfNone DEF Faithful

\* The statistics of checks stay what they are when another one is recorded.
LEMMA HistoryGrows ==
  ASSUME NEW c, NEW e, NEW S, S \subseteq DOMAIN c, \A i \in DOMAIN c : e[i] = c[i], NEW r, NEW k
  PROVE  /\ Statistics(e, AtHour(e, S, r, k)) = Statistics(c, AtHour(c, S, r, k))
         /\ Statistics(e, AtDay(e, S, r, k)) = Statistics(c, AtDay(c, S, r, k))
<1>1. AtHour(e, S, r, k) = AtHour(c, S, r, k) /\ AtDay(e, S, r, k) = AtDay(c, S, r, k)
  BY DEF AtHour, AtDay
<1>2. /\ \A i \in AtHour(c, S, r, k) : e[i] = c[i]
      /\ \A i \in AtDay(c, S, r, k) : e[i] = c[i]
  BY DEF AtHour, AtDay
<1> QED BY <1>1, <1>2, StatisticsAgree

LEMMA FaithfulLater ==
  ASSUME NEW c, NEW e, DOMAIN c \subseteq DOMAIN e, \A i \in DOMAIN c : e[i] = c[i],
         NEW B, NEW r, Faithful(c, B, r)
  PROVE  Faithful(e, B, r)
<1>1. B.rows \subseteq DOMAIN c
  BY DEF Faithful
<1>2. /\ \A k \in Hours : Statistics(e, AtHour(e, B.rows, r, k)) = Statistics(c, AtHour(c, B.rows, r, k))
      /\ \A k \in Days : Statistics(e, AtDay(e, B.rows, r, k)) = Statistics(c, AtDay(c, B.rows, r, k))
  BY <1>1, HistoryGrows
<1>3. B.rows \subseteq DOMAIN e /\ \A i \in B.rows : e[i].region = r
  BY <1>1 DEF Faithful
<1> QED BY <1>2, <1>3 DEF Faithful

\* A history whose checks are all well formed.
LEMMA PartRecorded ==
  ASSUME NEW c, NEW S, S \subseteq DOMAIN c, \A i \in DOMAIN c : c[i] \in Checked
  PROVE  Recorded(c, S)
BY DEF Recorded, Checked

LEMMA PartsFinite ==
  ASSUME NEW c, NEW S, IsFiniteSet(S), NEW r, NEW k
  PROVE  IsFiniteSet(AtHour(c, S, r, k)) /\ IsFiniteSet(AtDay(c, S, r, k))
<1>1. AtHour(c, S, r, k) \in SUBSET S /\ AtDay(c, S, r, k) \in SUBSET S
  BY DEF AtHour, AtDay
<1> QED BY <1>1, FS_Subset

\* ResultBuffer.add keeps a buffer faithful.
LEMMA AddFaithful ==
  ASSUME NEW c, \A j \in DOMAIN c : c[j] \in Checked,
         NEW B \in Buffer, NEW r, Faithful(c, B, r),
         NEW i \in DOMAIN c, i \notin B.rows, c[i].region = r,
         NEW o, o.up = c[i].up, o.ms = c[i].ms,
         NEW h \in Hours, c[i].hour = h,
         NEW N \in Buffer, N.rows = B.rows \cup {i},
         N.hourly = [B.hourly EXCEPT ![h] = accumulate(B.hourly[h], o)],
         N.daily = [B.daily EXCEPT ![DayOf(h)] = accumulate(B.daily[DayOf(h)], o)]
  PROVE  Faithful(c, N, r)
<1>1. B.rows \subseteq DOMAIN c /\ IsFiniteSet(B.rows) /\ DayOf(h) \in Days
  BY ResultsFinite, DayOfHour DEF Faithful, Buffer
<1>2. /\ B.hourly \in [Hours -> Delta] /\ B.daily \in [Days -> Delta]
      /\ \A k \in Hours : B.hourly[k] = Statistics(c, AtHour(c, B.rows, r, k))
      /\ \A k \in Days : B.daily[k] = Statistics(c, AtDay(c, B.rows, r, k))
      /\ \A j \in B.rows : c[j].region = r
  BY DEF Faithful, Buffer
<1>3. ASSUME NEW k \in Hours
      PROVE  N.hourly[k] = Statistics(c, AtHour(c, N.rows, r, k))
  <2>1. CASE k = h
    <3> DEFINE S == AtHour(c, B.rows, r, h)
    <3>1. AtHour(c, N.rows, r, h) = S \cup {i} /\ i \notin S /\ S \cup {i} \subseteq DOMAIN c
      BY <1>1 DEF AtHour
    <3>2. IsFiniteSet(S) /\ Recorded(c, S \cup {i})
      BY <1>1, <3>1, PartsFinite, PartRecorded
    <3> HIDE DEF S
    <3>3. Statistics(c, S \cup {i}) = accumulate(Statistics(c, S), o)
      BY <3>1, <3>2, StatisticsOfOneMore
    <3>4. N.hourly[h] = accumulate(Statistics(c, S), o)
      BY <1>2 DEF S
    <3> QED BY <2>1, <3>1, <3>3, <3>4
  <2>2. CASE k # h
    <3>1. AtHour(c, N.rows, r, k) = AtHour(c, B.rows, r, k)
      BY <2>2 DEF AtHour
    <3>2. N.hourly[k] = B.hourly[k]
      BY <1>2, <2>2
    <3> QED BY <1>2, <3>1, <3>2
  <2> QED BY <2>1, <2>2
<1>4. ASSUME NEW k \in Days
      PROVE  N.daily[k] = Statistics(c, AtDay(c, N.rows, r, k))
  <2>1. CASE k = DayOf(h)
    <3> DEFINE S == AtDay(c, B.rows, r, k)
    <3>1. AtDay(c, N.rows, r, k) = S \cup {i} /\ i \notin S /\ S \cup {i} \subseteq DOMAIN c
      BY <1>1, <2>1 DEF AtDay
    <3>2. IsFiniteSet(S) /\ Recorded(c, S \cup {i})
      BY <1>1, <3>1, PartsFinite, PartRecorded
    <3> HIDE DEF S
    <3>3. Statistics(c, S \cup {i}) = accumulate(Statistics(c, S), o)
      BY <3>1, <3>2, StatisticsOfOneMore
    <3>4. N.daily[k] = accumulate(B.daily[k], o)
      BY <1>1, <1>2, <2>1
    <3>5. B.daily[k] = Statistics(c, S)
      BY <1>2 DEF S
    <3> QED BY <3>1, <3>3, <3>4, <3>5
  <2>2. CASE k # DayOf(h)
    <3>1. AtDay(c, N.rows, r, k) = AtDay(c, B.rows, r, k)
      BY <2>2 DEF AtDay
    <3>2. N.daily[k] = B.daily[k]
      BY <1>2, <2>2
    <3> QED BY <1>2, <3>1, <3>2
  <2> QED BY <2>1, <2>2
<1>5. N.rows \subseteq DOMAIN c /\ \A j \in N.rows : c[j].region = r
  BY <1>1, <1>2
<1> QED BY <1>3, <1>4, <1>5 DEF Faithful

\* Checks of one region that a table does not have yet, put into it: the cells of the
\* region get their statistics, those of the others stay.
LEMMA MergeHourFaithful ==
  ASSUME NEW c, \A j \in DOMAIN c : c[j] \in Checked,
         NEW S, IsFiniteSet(S), S \subseteq DOMAIN c,
         NEW R, IsFiniteSet(R), R \subseteq DOMAIN c, R \cap S = {}, NEW r, NEW k
  PROVE  Statistics(c, AtHour(c, S \cup R, r, k)) =
           Merged(Statistics(c, AtHour(c, S, r, k)), Statistics(c, AtHour(c, R, r, k)))
<1> DEFINE A == AtHour(c, S, r, k)
           B == AtHour(c, R, r, k)
<1>1. AtHour(c, S \cup R, r, k) = A \cup B
  BY DEF AtHour
<1>2. A \cap B = {} /\ A \cup B \subseteq DOMAIN c
  BY DEF AtHour
<1>3. IsFiniteSet(A) /\ IsFiniteSet(B)
  BY PartsFinite
<1>4. Recorded(c, A \cup B)
  BY <1>2, PartRecorded
<1> HIDE DEF A, B
<1>5. Statistics(c, A \cup B) = Merged(Statistics(c, A), Statistics(c, B))
  BY <1>2, <1>3, <1>4, StatisticsOfUnion
<1> QED BY <1>1, <1>5 DEF A, B

LEMMA MergeDayFaithful ==
  ASSUME NEW c, \A j \in DOMAIN c : c[j] \in Checked,
         NEW S, IsFiniteSet(S), S \subseteq DOMAIN c,
         NEW R, IsFiniteSet(R), R \subseteq DOMAIN c, R \cap S = {}, NEW r, NEW k
  PROVE  Statistics(c, AtDay(c, S \cup R, r, k)) =
           Merged(Statistics(c, AtDay(c, S, r, k)), Statistics(c, AtDay(c, R, r, k)))
<1> DEFINE A == AtDay(c, S, r, k)
           B == AtDay(c, R, r, k)
<1>1. AtDay(c, S \cup R, r, k) = A \cup B
  BY DEF AtDay
<1>2. A \cap B = {} /\ A \cup B \subseteq DOMAIN c
  BY DEF AtDay
<1>3. IsFiniteSet(A) /\ IsFiniteSet(B)
  BY PartsFinite
<1>4. Recorded(c, A \cup B)
  BY <1>2, PartRecorded
<1> HIDE DEF A, B
<1>5. Statistics(c, A \cup B) = Merged(Statistics(c, A), Statistics(c, B))
  BY <1>2, <1>3, <1>4, StatisticsOfUnion
<1> QED BY <1>1, <1>5 DEF A, B

\* What the tables hold at first is consistent.
LEMMA InitInv == Init => TypeOK /\ ExactInv
<1> SUFFICES ASSUME Init PROVE TypeOK /\ ExactInv
  OBVIOUS
<1> DEFINE Known == [up: BOOLEAN, ms: Nat \cup {NoLatency}, hour: 0..StartHour, region: Regions]
<1>a. Len(Earlier) \in Nat /\ Len(Outcomes) \in Nat /\ DOMAIN Earlier = 1..Len(Earlier)
  BY PipelineAssumption
<1>b. Earlier \in Seq(Known) /\ \A i \in DOMAIN Earlier : Earlier[i] \in Known
  <2>1. Earlier \in Seq(Known)
    BY PipelineAssumption
  <2> HIDE DEF Known
  <2> QED BY <2>1
<1>c. StartHour \in Nat /\ MaxHour \in Nat /\ StartHour <= MaxHour
  BY PipelineAssumption
<1>d. Known \subseteq Checked /\ \A i \in DOMAIN Earlier : Earlier[i] \in Checked
  <2>1. Known \subseteq Checked
    BY <1>c DEF Checked, Latency, Hours
  <2> HIDE DEF Known
  <2> QED BY <1>b, <2>1
<1>1. ChecksRecorded
  <2>1. Earlier \in Seq(Checked)
    <3> HIDE DEF Known
    <3> QED BY <1>b, <1>d
  <2> QED BY <1>a, <2>1 DEF ChecksRecorded, Init
<1>2. Done \subseteq Results /\ Done = DOMAIN Earlier /\ counted.hourly = Done /\ counted.daily = Done
  BY <1>a DEF Done, Results, Init
<1>3. \A S \in SUBSET Done : IsFiniteSet(S) /\ Statistics(checks, S) \in Delta
  <2> TAKE S \in SUBSET Done
  <2>1. IsFiniteSet(S)
    BY <1>2, ResultsFinite
  <2>2. \A i \in DOMAIN checks : checks[i] \in Checked
    BY <1>d DEF Init
  <2>3. Recorded(checks, S)
    BY <2>2, PartRecorded DEF Done
  <2> QED BY <2>1, <2>3, StatisticsType
<1>4. TablesFaithful
  <2>1. ASSUME NEW r \in Regions, NEW h \in Hours
        PROVE  hourly[<<r, h>>] = Statistics(checks, AtHour(checks, counted.hourly, r, h))
    <3>1. hourly[<<r, h>>] = Aggregate(InHour(counted.hourly, r, h))
      BY DEF Init
    <3>2. InHour(counted.hourly, r, h) = AtHour(checks, counted.hourly, r, h)
      BY DEF InHour, AtHour
    <3> QED BY <3>1, <3>2, AggregateIs
  <2>2. ASSUME NEW r \in Regions, NEW d \in Days
        PROVE  daily[<<r, d>>] = Statistics(checks, AtDay(checks, counted.daily, r, d))
    <3>1. daily[<<r, d>>] = Aggregate(InDay(counted.daily, r, d))
      BY DEF Init
    <3>2. InDay(counted.daily, r, d) = AtDay(checks, counted.daily, r, d)
      BY DEF InDay, AtDay
    <3> QED BY <3>1, <3>2, AggregateIs
  <2> QED BY <2>1, <2>2 DEF TablesFaithful
<1>5. BuffersFaithful
  BY EmptyBufferFaithful DEF BuffersFaithful, Init, NoFlight
<1>6. \A w \in Workers : buffer[w].rows = {} /\ flight[w].writes.rows = {}
  BY DEF Init, NoFlight, EmptyBuffer
<1>7. RowsApart
  BY <1>6 DEF RowsApart
<1>8. \A i \in Results : raw[i] = IF i \in Done THEN 1 ELSE 0
  BY <1>2 DEF Init
<1>9. InOrder
  BY <1>2, <1>6, <1>8 DEF InOrder, Reached
<1>10. TypeOK
  <2>1. hour \in Hours
    BY <1>c DEF Init, Hours
  <2>2. \E n \in 0..Len(Outcomes) : Done = 1..(Len(Earlier) + n)
    <3>1. 0 \in 0..Len(Outcomes) /\ Done = 1..(Len(Earlier) + 0)
      BY <1>a, <1>2
    <3> QED BY <3>1
  <2>3. \A i \in Done : checks[i].hour \in 0..hour
    BY <1>b, <1>2 DEF Init
  <2>4. buffer \in [Workers -> Buffer]
    BY EmptyBufferType DEF Init
  <2>5. flight \in [Workers -> Flight]
    BY EmptyBufferType DEF Init, Flight, NoFlight
  <2>6. hourly \in [Regions \X Hours -> Delta]
    <3>1. ASSUME NEW r \in Regions, NEW h \in Hours PROVE hourly[<<r, h>>] \in Delta
      <4>1. AtHour(checks, counted.hourly, r, h) \in SUBSET Done
        BY <1>2 DEF AtHour
      <4> QED BY <1>3, <1>4, <4>1 DEF TablesFaithful
    <3>2. hourly = [b \in Regions \X Hours |-> hourly[b]]
      BY DEF Init
    <3> QED BY <3>1, <3>2
  <2>7. daily \in [Regions \X Days -> Delta]
    <3>1. ASSUME NEW r \in Regions, NEW d \in Days PROVE daily[<<r, d>>] \in Delta
      <4>1. AtDay(checks, counted.daily, r, d) \in SUBSET Done
        BY <1>2 DEF AtDay
      <4> QED BY <1>3, <1>4, <4>1 DEF TablesFaithful
    <3>2. daily = [b \in Regions \X Days |-> daily[b]]
      BY DEF Init
    <3> QED BY <3>1, <3>2
  <2>8. raw \in [Results -> Nat] /\ stage \in [Workers -> {"running", "draining", "flushing", "closing", "exited", "dead"}]
    BY DEF Init
  <2>9. counted \in [hourly: SUBSET Results, daily: SUBSET Results] /\ faults \in 0..MaxFaults
    BY <1>2, PipelineAssumption DEF Init
  <2> QED BY <2>1, <2>2, <2>3, <2>4, <2>5, <2>6, <2>7, <2>8, <2>9 DEF TypeOK
<1> QED BY <1>1, <1>4, <1>5, <1>7, <1>9, <1>10 DEF ExactInv

\* Steps that change neither checks, buffers nor tables.
LEMMA StandingKeepsExact ==
  ASSUME ExactInv, UNCHANGED <<checks, buffer, flight, raw, hourly, daily, counted>>
  PROVE  ExactInv'
<1>1. ChecksRecorded'
  BY DEF ExactInv, ChecksRecorded
<1>2. BuffersFaithful'
  BY DEF ExactInv, BuffersFaithful
<1>3. TablesFaithful'
  BY DEF ExactInv, TablesFaithful
<1>4. RowsApart' /\ InOrder'
  BY DEF ExactInv, RowsApart, InOrder, Done
<1> QED BY <1>1, <1>2, <1>3, <1>4 DEF ExactInv

\* Everything the tables and buffers name has been checked.
LEMMA RowsDone ==
  ASSUME TypeOK, ExactInv
  PROVE  /\ Done \subseteq Results /\ \A i \in Done : checks[i] \in Checked
         /\ counted.hourly \subseteq Done /\ counted.daily \subseteq Done
         /\ \A w \in Workers : buffer[w].rows \subseteq Done /\ flight[w].writes.rows \subseteq Done
<1>1. Len(Earlier) \in Nat /\ Len(Outcomes) \in Nat
  BY PipelineAssumption
<1>2. Done \subseteq Results
  BY <1>1 DEF ExactInv, ChecksRecorded, Done, Results
<1>3. \A i \in Done : checks[i] \in Checked
  BY DEF ExactInv, ChecksRecorded, Done
<1>4. counted.hourly \subseteq Done /\ counted.daily \subseteq Done
  <2>1. counted.hourly \subseteq Results
    BY DEF TypeOK
  <2> QED BY <2>1 DEF ExactInv, InOrder
<1>5. \A w \in Workers : buffer[w].rows \subseteq Done /\ flight[w].writes.rows \subseteq Done
  BY DEF ExactInv, BuffersFaithful, Faithful, Done
<1> QED BY <1>2, <1>3, <1>4, <1>5

\* The check that Add records is new, and well formed.
LEMMA NewCheck ==
  ASSUME TypeOK, ExactInv, NEW w \in Workers, NEW h \in Hours, Add(w, h)
  PROVE  LET i == Len(checks) + 1
             o == Outcomes[i - Len(Earlier)]
         IN  /\ i \notin Done /\ i \in Results /\ Done' = Done \cup {i}
             /\ o.up \in BOOLEAN /\ o.ms \in Latency
             /\ checks' \in Seq(Checked) /\ Len(checks') = i
             /\ \A j \in Done : checks'[j] = checks[j]
             /\ checks'[i] = [up |-> o.up, ms |-> o.ms, hour |-> h, region |-> RegionOf[w]]
<1> DEFINE i == Len(checks) + 1
           o == Outcomes[i - Len(Earlier)]
           x == [up |-> o.up, ms |-> o.ms, hour |-> h, region |-> RegionOf[w]]
           Outcome == [up: BOOLEAN, ms: Nat \cup {NoLatency}]
<1>1. /\ Len(Earlier) \in Nat /\ Len(Outcomes) \in Nat /\ DOMAIN Outcomes = 1..Len(Outcomes)
      /\ Len(checks) \in Nat /\ Len(Earlier) <= Len(checks) /\ Done = 1..Len(checks)
  BY PipelineAssumption DEF ExactInv, ChecksRecorded, Done
<1>2. i \in Results /\ checks' = Append(checks, x)
  BY DEF Add
<1>3. i - Len(Earlier) \in DOMAIN Outcomes
  BY <1>1, <1>2 DEF Results
<1>4. o \in Outcome
  <2>1. Outcomes \in Seq(Outcome)
    BY PipelineAssumption
  <2> HIDE DEF Outcome
  <2> QED BY <1>3, <2>1
<1>5. o.up \in BOOLEAN /\ o.ms \in Latency
  BY <1>4 DEF Latency
<1> HIDE DEF o
<1>6. x \in Checked
  BY <1>5, PipelineAssumption DEF Checked
<1>7. checks \in Seq(Checked)
  BY DEF ExactInv, ChecksRecorded
<1>8. x = [up |-> o.up, ms |-> o.ms, hour |-> h, region |-> RegionOf[w]]
  OBVIOUS
<1> HIDE DEF x
<1>9. checks' \in Seq(Checked) /\ Len(checks') = i
  BY <1>2, <1>6, <1>7
<1>10. (\A j \in Done : checks'[j] = checks[j]) /\ checks'[i] = x
  BY <1>1, <1>2, <1>6, <1>7
<1>11. Done' = 1..i /\ 1..i = Done \cup {i} /\ i \notin Done
  BY <1>1, <1>9 DEF Done
<1> QED BY <1>2, <1>5, <1>8, <1>9, <1>10, <1>11 DEF o

\* ResultBuffer.add: types and statistics.
LEMMA AddKeepsTypes ==
  ASSUME TypeOK, ExactInv, NEW w \in Workers, NEW h \in Hours, Add(w, h)
  PROVE  TypeOK'
<1> DEFINE i == Len(checks) + 1
           o == Outcomes[i - Len(Earlier)]
<1>1. /\ i \notin Done /\ i \in Results /\ Done' = Done \cup {i}
      /\ o.up \in BOOLEAN /\ o.ms \in Latency
      /\ checks' \in Seq(Checked) /\ Len(checks') = i
      /\ \A j \in Done : checks'[j] = checks[j]
      /\ checks'[i] = [up |-> o.up, ms |-> o.ms, hour |-> h, region |-> RegionOf[w]]
  BY NewCheck
<1>2. \E n \in 0..Len(Outcomes) : Done' = 1..(Len(Earlier) + n)
  <2>1. Len(Earlier) \in Nat /\ Len(Outcomes) \in Nat /\ Len(checks) \in Nat /\ Len(Earlier) <= Len(checks)
    BY PipelineAssumption DEF ExactInv, ChecksRecorded
  <2>2. i - Len(Earlier) \in 0..Len(Outcomes) /\ Len(Earlier) + (i - Len(Earlier)) = i
    BY <1>1, <2>1 DEF Results
  <2>3. Done' = 1..i
    BY <1>1 DEF Done
  <2> QED BY <2>2, <2>3
<1>3. \A j \in Done' : checks'[j].hour \in 0..hour'
  <2>1. h \in 0..hour /\ hour' = hour
    BY DEF Add, TypeOK, Hours
  <2>2. \A j \in Done : checks[j].hour \in 0..hour
    BY DEF TypeOK
  <2>3. checks'[i].hour = h
    BY <1>1
  <2> HIDE DEF i
  <2> QED BY <1>1, <2>1, <2>2, <2>3
<1> DEFINE N == [buffer[w] EXCEPT !.rows = @ \cup {i}, !.hourly[h] = accumulate(@, o), !.daily[DayOf(h)] = accumulate(@, o)]
<1>4. buffer' \in [Workers -> Buffer]
  <2>1. buffer[w] \in Buffer /\ DayOf(h) \in Days
    BY DayOfHour DEF TypeOK
  <2>2. \A d \in Delta : accumulate(d, o) \in Delta
    BY <1>1, accumulateType
  <2>3. N \in Buffer
    <3> HIDE DEF i, o
    <3> QED BY <1>1, <2>1, <2>2 DEF Buffer
  <2>4. buffer' = [buffer EXCEPT ![w] = N]
    BY DEF Add
  <2> HIDE DEF N
  <2> QED BY <2>3, <2>4 DEF TypeOK
<1>5. UNCHANGED <<hour, flight, stage, raw, hourly, daily, counted, faults>>
  BY DEF Add, tables
<1> QED BY <1>2, <1>3, <1>4, <1>5 DEF TypeOK

LEMMA AddKeepsExact ==
  ASSUME TypeOK, ExactInv, NEW w \in Workers, NEW h \in Hours, Add(w, h)
  PROVE  ExactInv'
<1> DEFINE i == Len(checks) + 1
           o == Outcomes[i - Len(Earlier)]
<1>1. /\ i \notin Done /\ i \in Results /\ Done' = Done \cup {i}
      /\ o.up \in BOOLEAN /\ o.ms \in Latency
      /\ checks' \in Seq(Checked) /\ Len(checks') = i
      /\ \A j \in Done : checks'[j] = checks[j]
      /\ checks'[i] = [up |-> o.up, ms |-> o.ms, hour |-> h, region |-> RegionOf[w]]
  BY NewCheck
<1>2. UNCHANGED <<flight, raw, hourly, daily, counted>>
  BY DEF Add, tables
<1>3. /\ counted.hourly \subseteq Done /\ counted.daily \subseteq Done
      /\ \A v \in Workers : buffer[v].rows \subseteq Done /\ flight[v].writes.rows \subseteq Done
  BY RowsDone
<1> DEFINE N == [buffer[w] EXCEPT !.rows = @ \cup {i}, !.hourly[h] = accumulate(@, o), !.daily[DayOf(h)] = accumulate(@, o)]
<1>4. buffer' = [buffer EXCEPT ![w] = N]
  BY DEF Add
<1>5. /\ N.rows = buffer[w].rows \cup {i}
      /\ N.hourly = [buffer[w].hourly EXCEPT ![h] = accumulate(buffer[w].hourly[h], o)]
      /\ N.daily = [buffer[w].daily EXCEPT ![DayOf(h)] = accumulate(buffer[w].daily[DayOf(h)], o)]
  BY DEF TypeOK, Buffer
<1>6. buffer \in [Workers -> Buffer] /\ buffer' \in [Workers -> Buffer]
  BY AddKeepsTypes DEF TypeOK
<1>7. \A v \in Workers : buffer'[v] = IF v = w THEN N ELSE buffer[v]
  <2> HIDE DEF N
  <2> QED BY <1>4, <1>6
<1>8. N \in Buffer
  <2> HIDE DEF N
  <2> QED BY <1>6, <1>7
<1> HIDE DEF N
<1>9. Done \subseteq DOMAIN checks' /\ \A j \in DOMAIN checks' : checks'[j] \in Checked
  BY <1>1 DEF Done
<1>10. \A v \in Workers : /\ Faithful(checks', buffer[v], RegionOf[v])
                         /\ Faithful(checks', flight[v].writes, RegionOf[v])
  <2> TAKE v \in Workers
  <2>1. Faithful(checks, buffer[v], RegionOf[v]) /\ Faithful(checks, flight[v].writes, RegionOf[v])
    BY DEF ExactInv, BuffersFaithful
  <2> QED BY <1>1, <1>9, <2>1, FaithfulLater DEF Done
<1>11. Faithful(checks', N, RegionOf[w])
  <2>1. i \in DOMAIN checks' /\ i \notin buffer[w].rows
    BY <1>1, <1>3 DEF Done
  <2>2. /\ o.up = checks'[i].up /\ o.ms = checks'[i].ms
        /\ checks'[i].region = RegionOf[w] /\ checks'[i].hour = h
    BY <1>1
  <2>3. buffer[w] \in Buffer /\ Faithful(checks', buffer[w], RegionOf[w])
    BY <1>6, <1>10
  <2> HIDE DEF i, o
  <2> QED BY <1>5, <1>8, <1>9, <2>1, <2>2, <2>3, AddFaithful
<1>12. BuffersFaithful'
  BY <1>2, <1>7, <1>10, <1>11 DEF BuffersFaithful
<1>13. TablesFaithful'
  <2>1. ASSUME NEW r \in Regions, NEW k \in Hours
        PROVE  hourly'[<<r, k>>] = Statistics(checks', AtHour(checks', counted'.hourly, r, k))
    <3>1. counted.hourly \subseteq DOMAIN checks /\ \A j \in DOMAIN checks : checks'[j] = checks[j]
      BY <1>1, <1>3 DEF Done
    <3>2. Statistics(checks', AtHour(checks', counted.hourly, r, k)) = Statistics(checks, AtHour(checks, counted.hourly, r, k))
      BY <3>1, HistoryGrows
    <3> QED BY <1>2, <3>2 DEF ExactInv, TablesFaithful
  <2>2. ASSUME NEW r \in Regions, NEW k \in Days
        PROVE  daily'[<<r, k>>] = Statistics(checks', AtDay(checks', counted'.daily, r, k))
    <3>1. counted.daily \subseteq DOMAIN checks /\ \A j \in DOMAIN checks : checks'[j] = checks[j]
      BY <1>1, <1>3 DEF Done
    <3>2. Statistics(checks', AtDay(checks', counted.daily, r, k)) = Statistics(checks, AtDay(checks, counted.daily, r, k))
      BY <3>1, HistoryGrows
    <3> QED BY <1>2, <3>2 DEF ExactInv, TablesFaithful
  <2> QED BY <2>1, <2>2 DEF TablesFaithful
<1>14. \A v \in Workers : buffer'[v].rows = IF v = w THEN buffer[v].rows \cup {i} ELSE buffer[v].rows
  BY <1>5, <1>7
<1>15. RowsApart'
  <2>1. \A v \in Workers : i \notin buffer[v].rows /\ i \notin flight[v].writes.rows
    BY <1>1, <1>3
  <2> HIDE DEF i
  <2>2. ASSUME NEW v \in Workers, NEW u \in Workers
        PROVE  /\ buffer'[v].rows \cap flight'[u].writes.rows = {}
               /\ v # u => /\ buffer'[v].rows \cap buffer'[u].rows = {}
                           /\ flight'[v].writes.rows \cap flight'[u].writes.rows = {}
    <3>1. /\ buffer[v].rows \cap flight[u].writes.rows = {}
          /\ v # u => /\ buffer[v].rows \cap buffer[u].rows = {}
                      /\ flight[v].writes.rows \cap flight[u].writes.rows = {}
      BY DEF ExactInv, RowsApart
    <3>2. flight' = flight
      BY <1>2
    <3> QED BY <1>14, <2>1, <3>1, <3>2
  <2> QED BY <2>2 DEF RowsApart
<1>16. InOrder'
  <2>1. raw[i] = 0
    BY <1>1 DEF ExactInv, InOrder
  <2> HIDE DEF i
  <2> QED BY <1>1, <1>2, <1>14, <2>1 DEF ExactInv, InOrder
<1>17. ChecksRecorded'
  <2>1. Len(Earlier) \in Nat /\ Len(Outcomes) \in Nat
    BY PipelineAssumption
  <2> QED BY <1>1, <2>1 DEF ExactInv, ChecksRecorded, Results
<1> QED BY <1>12, <1>13, <1>15, <1>16, <1>17 DEF ExactInv

\* drain() moves what a worker has buffered into its flush.
LEMMA flushKeepsExact ==
  ASSUME TypeOK, ExactInv, NEW w \in Workers, NEW starter \in {"timer", "job", "stop"}, flush(w, starter)
  PROVE  ExactInv' /\ buffer' \in [Workers -> Buffer] /\ flight' \in [Workers -> Flight]
<1> DEFINE F == [next |-> "rows", writes |-> buffer[w], starter |-> starter]
<1>1. /\ buffer \in [Workers -> Buffer] /\ flight \in [Workers -> Flight]
      /\ buffer' = [buffer EXCEPT ![w] = EmptyBuffer] /\ flight' = [flight EXCEPT ![w] = F]
      /\ UNCHANGED <<checks, raw, hourly, daily, counted>>
  BY DEF flush, TypeOK, tables, LeftAfterDrain
<1>2. F \in Flight
  BY <1>1 DEF Flight, Statements
<1>3. F.next = "rows" /\ F.writes = buffer[w] /\ EmptyBuffer.rows = {}
  BY DEF EmptyBuffer
<1> HIDE DEF F
<1>4. \A v \in Workers : /\ buffer'[v] = IF v = w THEN EmptyBuffer ELSE buffer[v]
                         /\ flight'[v] = IF v = w THEN F ELSE flight[v]
  BY <1>1
<1>5. buffer' \in [Workers -> Buffer] /\ flight' \in [Workers -> Flight]
  BY <1>1, <1>2, EmptyBufferType
<1>6. BuffersFaithful'
  BY <1>1, <1>3, <1>4, EmptyBufferFaithful DEF ExactInv, BuffersFaithful
<1>7. RowsApart'
  <2>1. ASSUME NEW v \in Workers, NEW u \in Workers
        PROVE  /\ buffer'[v].rows \cap flight'[u].writes.rows = {}
               /\ v # u => /\ buffer'[v].rows \cap buffer'[u].rows = {}
                           /\ flight'[v].writes.rows \cap flight'[u].writes.rows = {}
    <3>1. /\ buffer[v].rows \cap flight[u].writes.rows = {} /\ buffer[u].rows \cap flight[v].writes.rows = {}
          /\ v # u => /\ buffer[v].rows \cap buffer[u].rows = {}
                      /\ flight[v].writes.rows \cap flight[u].writes.rows = {}
      BY DEF ExactInv, RowsApart
    <3> QED BY <1>3, <1>4, <3>1
  <2> QED BY <2>1 DEF RowsApart
<1>8. InOrder'
  <2>1. \A i \in buffer[w].rows : raw[i] = 0
    BY DEF ExactInv, InOrder
  <2>2. Reached(F, raw, counted)
    BY <1>3, <2>1 DEF Reached
  <2>3. \A v \in Workers : Reached(flight'[v], raw, counted)
    BY <1>4, <2>2 DEF ExactInv, InOrder
  <2>4. \A v \in Workers : \A i \in buffer'[v].rows : raw[i] = 0
    BY <1>3, <1>4 DEF ExactInv, InOrder
  <2> QED BY <1>1, <2>3, <2>4 DEF ExactInv, InOrder, Done
<1>9. ChecksRecorded' /\ TablesFaithful'
  BY <1>1 DEF ExactInv, ChecksRecorded, TablesFaithful
<1> QED BY <1>5, <1>6, <1>7, <1>8, <1>9 DEF ExactInv

\* What a worker holds may be lost.
LEMMA LosingKeepsExact ==
  ASSUME TypeOK, ExactInv, NEW w \in Workers,
         buffer' = buffer \/ buffer' = [buffer EXCEPT ![w] = EmptyBuffer],
         flight' = [flight EXCEPT ![w] = NoFlight],
         UNCHANGED <<checks, raw, hourly, daily, counted>>
  PROVE  ExactInv' /\ buffer' \in [Workers -> Buffer] /\ flight' \in [Workers -> Flight]
<1>1. buffer \in [Workers -> Buffer] /\ flight \in [Workers -> Flight]
  BY DEF TypeOK
<1>2. /\ NoFlight.next = "none" /\ NoFlight.writes = EmptyBuffer /\ EmptyBuffer.rows = {}
      /\ NoFlight \in Flight
  BY EmptyBufferType DEF NoFlight, EmptyBuffer, Flight
<1>3. \A v \in Workers : /\ buffer'[v] \in {EmptyBuffer, buffer[v]}
                         /\ flight'[v] = IF v = w THEN NoFlight ELSE flight[v]
  BY <1>1
<1>4. buffer' \in [Workers -> Buffer] /\ flight' \in [Workers -> Flight]
  BY <1>1, <1>2, EmptyBufferType
<1>5. BuffersFaithful'
  BY <1>2, <1>3, EmptyBufferFaithful DEF ExactInv, BuffersFaithful
<1>6. RowsApart'
  <2>1. ASSUME NEW v \in Workers, NEW u \in Workers
        PROVE  /\ buffer'[v].rows \cap flight'[u].writes.rows = {}
               /\ v # u => /\ buffer'[v].rows \cap buffer'[u].rows = {}
                           /\ flight'[v].writes.rows \cap flight'[u].writes.rows = {}
    <3>1. /\ buffer[v].rows \cap flight[u].writes.rows = {}
          /\ v # u => /\ buffer[v].rows \cap buffer[u].rows = {}
                      /\ flight[v].writes.rows \cap flight[u].writes.rows = {}
      BY DEF ExactInv, RowsApart
    <3>2. \A q \in {v, u} : /\ buffer'[q].rows \subseteq buffer[q].rows
                            /\ flight'[q].writes.rows \subseteq flight[q].writes.rows
      BY <1>2, <1>3
    <3> QED BY <3>1, <3>2
  <2> QED BY <2>1 DEF RowsApart
<1>7. InOrder'
  <2>1. \A v \in Workers : Reached(flight'[v], raw, counted)
    <3>1. Reached(NoFlight, raw, counted)
      BY <1>2 DEF Reached
    <3> QED BY <1>3, <3>1 DEF ExactInv, InOrder
  <2>2. \A v \in Workers : \A i \in buffer'[v].rows : raw[i] = 0
    BY <1>2, <1>3 DEF ExactInv, InOrder
  <2> QED BY <2>1, <2>2 DEF ExactInv, InOrder, Done
<1>8. ChecksRecorded' /\ TablesFaithful'
  BY DEF ExactInv, ChecksRecorded, TablesFaithful
<1> QED BY <1>4, <1>5, <1>6, <1>7, <1>8 DEF ExactInv

\* A statement leaves the tables well formed.
LEMMA WrittenKeepsTypes ==
  ASSUME TypeOK, NEW w \in Workers, flight[w].next \in Statements, Written(flight[w], RegionOf[w])
  PROVE  /\ raw' \in [Results -> Nat] /\ hourly' \in [Regions \X Hours -> Delta]
         /\ daily' \in [Regions \X Days -> Delta]
         /\ counted' \in [hourly: SUBSET Results, daily: SUBSET Results]
<1> DEFINE f == flight[w]
           r == RegionOf[w]
<1>1. f \in Flight /\ f.writes \in Buffer
  BY DEF TypeOK, Flight
<1>2. /\ f.writes.rows \in SUBSET Results /\ f.writes.hourly \in [Hours -> Delta]
      /\ f.writes.daily \in [Days -> Delta]
  BY <1>1 DEF Buffer
<1> HIDE DEF f, r
<1>3. /\ raw \in [Results -> Nat] /\ hourly \in [Regions \X Hours -> Delta]
      /\ daily \in [Regions \X Days -> Delta]
      /\ counted \in [hourly: SUBSET Results, daily: SUBSET Results]
  BY DEF TypeOK
<1>4. Written(f, r)
  BY DEF f, r
<1>5. raw' \in [Results -> Nat]
  BY <1>3, <1>4 DEF Written
<1>6. upsertRollup(hourly, r, f.writes.hourly) \in [Regions \X Hours -> Delta]
  BY <1>2, <1>3, MergedType DEF upsertRollup
<1>7. upsertRollup(daily, r, f.writes.daily) \in [Regions \X Days -> Delta]
  BY <1>2, <1>3, MergedType DEF upsertRollup
<1>8. hourly' \in [Regions \X Hours -> Delta] /\ daily' \in [Regions \X Days -> Delta]
  BY <1>3, <1>4, <1>6, <1>7 DEF Written
<1>9. counted' \in [hourly: SUBSET Results, daily: SUBSET Results]
  <2>1. CASE f.next = "hourly"
    BY <1>2, <1>3, <1>4, <2>1 DEF Written
  <2>2. CASE f.next = "daily"
    BY <1>2, <1>3, <1>4, <2>2 DEF Written
  <2>3. CASE f.next \notin {"hourly", "daily"}
    BY <1>3, <1>4, <2>3 DEF Written
  <2> QED BY <2>1, <2>2, <2>3
<1> QED BY <1>5, <1>8, <1>9

\* What the invariant says of the tables when a statement has been executed and the
\* flush it belongs to has not moved on yet.
Executed(w) ==
  /\ \A i \in Results : raw'[i] <= 1 /\ (i \notin Done => raw'[i] = 0)
  /\ counted'.daily \subseteq counted'.hourly
  /\ \A i \in counted'.hourly : raw'[i] = 1
  /\ \A v \in Workers : \A i \in buffer[v].rows : raw'[i] = 0
  /\ \A v \in Workers \ {w} : Reached(flight[v], raw', counted')
  /\ Reached([flight[w] EXCEPT !.next = AfterStatement(flight[w].next)], raw', counted')

\* What a flush writes is in no other place.
LEMMA RowsKept ==
  ASSUME TypeOK, ExactInv, NEW w \in Workers
  PROVE  /\ \A v \in Workers \ {w} : flight[v].writes.rows \cap flight[w].writes.rows = {}
         /\ \A v \in Workers : buffer[v].rows \cap flight[w].writes.rows = {}
         /\ \A v \in Workers : buffer[v].rows \subseteq Results /\ flight[v].writes.rows \subseteq Results
         /\ counted.hourly \subseteq Results
         /\ flight[w].writes.rows \subseteq Done
         /\ Faithful(checks, flight[w].writes, RegionOf[w])
BY RowsDone DEF ExactInv, RowsApart, BuffersFaithful, TypeOK, Flight, Buffer

LEMMA NextOf ==
  ASSUME TypeOK, NEW w \in Workers, NEW k
  PROVE  LET g == [flight[w] EXCEPT !.next = k] IN g.next = k /\ g.writes = flight[w].writes
BY DEF TypeOK, Flight

\* insertResults
LEMMA RowsExecuted ==
  ASSUME TypeOK, ExactInv, NEW w \in Workers, flight[w].next = "rows",
         Written(flight[w], RegionOf[w]), checks' = checks
  PROVE  Executed(w) /\ TablesFaithful'
<1> DEFINE R == flight[w].writes.rows
           g == [flight[w] EXCEPT !.next = AfterStatement(flight[w].next)]
<1>1. /\ raw' = [i \in Results |-> IF i \in R THEN raw[i] + 1 ELSE raw[i]]
      /\ UNCHANGED <<hourly, daily, counted>>
  BY DEF Written
<1>2. g.next = "hourly" /\ g.writes.rows = R
  BY NextOf DEF AfterStatement
<1>3. /\ \A v \in Workers \ {w} : flight[v].writes.rows \cap R = {}
      /\ \A v \in Workers : buffer[v].rows \cap R = {}
      /\ \A v \in Workers : buffer[v].rows \subseteq Results /\ flight[v].writes.rows \subseteq Results
      /\ counted.hourly \subseteq Results /\ R \subseteq Done
  BY RowsKept
<1>4. (\A i \in R : raw[i] = 0) /\ raw \in [Results -> Nat]
  BY DEF ExactInv, InOrder, Reached, TypeOK
<1> HIDE DEF R, g
<1>5. /\ \A i \in Results : raw[i] <= 1 /\ (i \notin Done => raw[i] = 0)
      /\ counted.daily \subseteq counted.hourly
      /\ \A i \in counted.hourly : raw[i] = 1
      /\ \A v \in Workers : (\A i \in buffer[v].rows : raw[i] = 0) /\ Reached(flight[v], raw, counted)
  BY DEF ExactInv, InOrder
<1>6. \A i \in Results : raw'[i] <= 1 /\ (i \notin Done => raw'[i] = 0)
  BY <1>1, <1>3, <1>4, <1>5
<1>7. \A i \in counted'.hourly : raw'[i] = 1
  <2>1. \A i \in counted.hourly : i \notin R
    BY <1>4, <1>5
  <2> QED BY <1>1, <1>3, <1>5, <2>1
<1>8. \A v \in Workers : \A i \in buffer[v].rows : raw'[i] = 0
  BY <1>1, <1>3, <1>5
<1>9. ASSUME NEW v \in Workers \ {w} PROVE Reached(flight[v], raw', counted')
  <2>1. \A i \in flight[v].writes.rows : raw'[i] = raw[i]
    BY <1>1, <1>3
  <2> QED BY <1>1, <1>5, <2>1 DEF Reached
<1>10. Reached(g, raw', counted')
  <2>1. R \subseteq Results
    BY <1>3 DEF R
  <2>2. \A i \in R : raw'[i] = 1 /\ i \notin counted.hourly
    BY <1>1, <1>4, <1>5, <2>1
  <2> QED BY <1>1, <1>2, <2>2 DEF Reached
<1>11. TablesFaithful'
  BY <1>1 DEF ExactInv, TablesFaithful
<1> QED BY <1>1, <1>5, <1>6, <1>7, <1>8, <1>9, <1>10, <1>11 DEF Executed, g

\* upsertHourly
LEMMA HourlyExecuted ==
  ASSUME TypeOK, ExactInv, NEW w \in Workers, flight[w].next = "hourly",
         Written(flight[w], RegionOf[w]), checks' = checks
  PROVE  Executed(w) /\ TablesFaithful'
<1> DEFINE R == flight[w].writes.rows
           q == RegionOf[w]
           new == flight[w].writes.hourly
           g == [flight[w] EXCEPT !.next = AfterStatement(flight[w].next)]
<1>1. /\ raw' = raw /\ daily' = daily /\ hourly' = upsertRollup(hourly, q, new)
      /\ counted'.hourly = counted.hourly \cup R /\ counted'.daily = counted.daily
  BY DEF Written, TypeOK
<1>2. g.next = "daily" /\ g.writes.rows = R
  BY NextOf DEF AfterStatement
<1>3. /\ \A v \in Workers \ {w} : flight[v].writes.rows \cap R = {}
      /\ R \subseteq Done /\ Faithful(checks, flight[w].writes, q)
  BY RowsKept
<1>4. \A i \in R : raw[i] = 1 /\ i \notin counted.hourly
  BY DEF ExactInv, InOrder, Reached
<1>5. \A h \in Hours : new[h] = Statistics(checks, AtHour(checks, R, q, h))
  BY <1>3 DEF Faithful
<1>6. \A j \in R : checks[j].region = q
  BY <1>3 DEF Faithful
<1> HIDE DEF R, g, q, new
<1>7. /\ \A i \in Results : raw[i] <= 1 /\ (i \notin Done => raw[i] = 0)
      /\ counted.daily \subseteq counted.hourly
      /\ \A i \in counted.hourly : raw[i] = 1
      /\ \A v \in Workers : (\A i \in buffer[v].rows : raw[i] = 0) /\ Reached(flight[v], raw, counted)
  BY DEF ExactInv, InOrder
<1>8. ASSUME NEW v \in Workers \ {w} PROVE Reached(flight[v], raw', counted')
  <2>1. \A i \in flight[v].writes.rows : i \in counted'.hourly <=> i \in counted.hourly
    BY <1>1, <1>3
  <2> QED BY <1>1, <1>7, <2>1 DEF Reached
<1>9. Reached(g, raw', counted')
  <2>1. \A i \in R : raw'[i] = 1 /\ i \in counted'.hourly /\ i \notin counted'.daily
    BY <1>1, <1>4, <1>7
  <2> QED BY <1>2, <2>1 DEF Reached
<1>10. Executed(w)
  BY <1>1, <1>4, <1>7, <1>8, <1>9 DEF Executed, g
<1>11. ASSUME NEW r \in Regions, NEW h \in Hours
       PROVE  hourly'[<<r, h>>] = Statistics(checks', AtHour(checks', counted'.hourly, r, h))
  <2> DEFINE S == counted.hourly
  <2>1. /\ hourly \in [Regions \X Hours -> Delta]
        /\ hourly[<<r, h>>] = Statistics(checks, AtHour(checks, S, r, h))
    BY DEF ExactInv, TablesFaithful, TypeOK
  <2>2. hourly'[<<r, h>>] = IF r = q THEN Merged(hourly[<<r, h>>], new[h]) ELSE hourly[<<r, h>>]
    BY <1>1, <2>1 DEF upsertRollup
  <2>3. /\ \A j \in DOMAIN checks : checks[j] \in Checked
        /\ S \subseteq DOMAIN checks /\ R \subseteq DOMAIN checks
        /\ IsFiniteSet(S) /\ IsFiniteSet(R) /\ R \cap S = {}
    BY <1>3, <1>4, RowsDone, ResultsFinite DEF Done
  <2> HIDE DEF S
  <2>4. CASE r = q
    <3>1. Statistics(checks, AtHour(checks, S \cup R, r, h))
            = Merged(Statistics(checks, AtHour(checks, S, r, h)), Statistics(checks, AtHour(checks, R, r, h)))
      BY <2>3, MergeHourFaithful
    <3> QED BY <1>1, <1>5, <2>1, <2>2, <2>4, <3>1 DEF S
  <2>5. CASE r # q
    <3>1. AtHour(checks, S \cup R, r, h) = AtHour(checks, S, r, h)
      BY <1>6, <2>5 DEF AtHour
    <3> QED BY <1>1, <2>1, <2>2, <2>5, <3>1 DEF S
  <2> QED BY <2>4, <2>5
<1>12. TablesFaithful'
  BY <1>1, <1>11 DEF ExactInv, TablesFaithful
<1> QED BY <1>10, <1>12

\* upsertDaily
LEMMA DailyExecuted ==
  ASSUME TypeOK, ExactInv, NEW w \in Workers, flight[w].next = "daily",
         Written(flight[w], RegionOf[w]), checks' = checks
  PROVE  Executed(w) /\ TablesFaithful'
<1> DEFINE R == flight[w].writes.rows
           q == RegionOf[w]
           new == flight[w].writes.daily
           g == [flight[w] EXCEPT !.next = AfterStatement(flight[w].next)]
<1>1. /\ raw' = raw /\ hourly' = hourly /\ daily' = upsertRollup(daily, q, new)
      /\ counted'.hourly = counted.hourly /\ counted'.daily = counted.daily \cup R
  BY DEF Written, TypeOK
<1>2. g.next = "none" /\ g.writes.rows = R
  BY NextOf DEF AfterStatement
<1>3. /\ \A v \in Workers \ {w} : flight[v].writes.rows \cap R = {}
      /\ R \subseteq Done /\ Faithful(checks, flight[w].writes, q)
  BY RowsKept
<1>4. \A i \in R : raw[i] = 1 /\ i \in counted.hourly /\ i \notin counted.daily
  BY DEF ExactInv, InOrder, Reached
<1>5. \A h \in Days : new[h] = Statistics(checks, AtDay(checks, R, q, h))
  BY <1>3 DEF Faithful
<1>6. \A j \in R : checks[j].region = q
  BY <1>3 DEF Faithful
<1> HIDE DEF R, g, q, new
<1>7. /\ \A i \in Results : raw[i] <= 1 /\ (i \notin Done => raw[i] = 0)
      /\ counted.daily \subseteq counted.hourly
      /\ \A i \in counted.hourly : raw[i] = 1
      /\ \A v \in Workers : (\A i \in buffer[v].rows : raw[i] = 0) /\ Reached(flight[v], raw, counted)
  BY DEF ExactInv, InOrder
<1>8. ASSUME NEW v \in Workers \ {w} PROVE Reached(flight[v], raw', counted')
  <2>1. \A i \in flight[v].writes.rows : i \in counted'.daily <=> i \in counted.daily
    BY <1>1, <1>3
  <2> QED BY <1>1, <1>7, <2>1 DEF Reached
<1>9. Reached(g, raw', counted')
  BY <1>2 DEF Reached
<1>10. Executed(w)
  <2>1. counted'.daily \subseteq counted'.hourly
    BY <1>1, <1>4, <1>7
  <2> QED BY <1>1, <1>7, <1>8, <1>9, <2>1 DEF Executed, g
<1>11. ASSUME NEW r \in Regions, NEW h \in Days
       PROVE  daily'[<<r, h>>] = Statistics(checks', AtDay(checks', counted'.daily, r, h))
  <2> DEFINE S == counted.daily
  <2>1. /\ daily \in [Regions \X Days -> Delta]
        /\ daily[<<r, h>>] = Statistics(checks, AtDay(checks, S, r, h))
    BY DEF ExactInv, TablesFaithful, TypeOK
  <2>2. daily'[<<r, h>>] = IF r = q THEN Merged(daily[<<r, h>>], new[h]) ELSE daily[<<r, h>>]
    BY <1>1, <2>1 DEF upsertRollup
  <2>3. /\ \A j \in DOMAIN checks : checks[j] \in Checked
        /\ S \subseteq DOMAIN checks /\ R \subseteq DOMAIN checks
        /\ IsFiniteSet(S) /\ IsFiniteSet(R) /\ R \cap S = {}
    BY <1>3, <1>4, RowsDone, ResultsFinite DEF Done
  <2> HIDE DEF S
  <2>4. CASE r = q
    <3>1. Statistics(checks, AtDay(checks, S \cup R, r, h))
            = Merged(Statistics(checks, AtDay(checks, S, r, h)), Statistics(checks, AtDay(checks, R, r, h)))
      BY <2>3, MergeDayFaithful
    <3> QED BY <1>1, <1>5, <2>1, <2>2, <2>4, <3>1 DEF S
  <2>5. CASE r # q
    <3>1. AtDay(checks, S \cup R, r, h) = AtDay(checks, S, r, h)
      BY <1>6, <2>5 DEF AtDay
    <3> QED BY <1>1, <2>1, <2>2, <2>5, <3>1 DEF S
  <2> QED BY <2>4, <2>5
<1>12. TablesFaithful'
  BY <1>1, <1>11 DEF ExactInv, TablesFaithful
<1> QED BY <1>10, <1>12

\* A statement that was executed, whether or not the worker heard of it.
LEMMA ExecutedKeepsExact ==
  ASSUME TypeOK, ExactInv, NEW w \in Workers, flight[w].next \in Statements,
         Written(flight[w], RegionOf[w]), checks' = checks, buffer' = buffer,
         \/ flight' = [flight EXCEPT ![w] = NoFlight]
         \/ flight' = [flight EXCEPT ![w].next = AfterStatement(flight[w].next)]
  PROVE  ExactInv' /\ flight' \in [Workers -> Flight]
<1> DEFINE g == [flight[w] EXCEPT !.next = AfterStatement(flight[w].next)]
<1>1. Executed(w) /\ TablesFaithful'
  BY RowsExecuted, HourlyExecuted, DailyExecuted DEF Statements
<1>2. flight \in [Workers -> Flight]
  BY DEF TypeOK
<1>3. /\ NoFlight.next = "none" /\ NoFlight.writes = EmptyBuffer /\ EmptyBuffer.rows = {}
      /\ NoFlight \in Flight
  BY EmptyBufferType DEF NoFlight, EmptyBuffer, Flight
<1>4. g.writes = flight[w].writes /\ g \in Flight
  <2>1. AfterStatement(flight[w].next) \in {"none"} \cup Statements
    BY DEF AfterStatement, Statements
  <2> QED BY <1>2, <2>1 DEF Flight
<1>5. Reached(g, raw', counted')
  BY <1>1 DEF Executed
<1>6. flight' = [flight EXCEPT ![w] = NoFlight] \/ flight' = [flight EXCEPT ![w] = g]
  BY <1>2
<1> HIDE DEF g
<1>7. /\ flight' \in [Workers -> Flight] /\ flight'[w] \in {NoFlight, g}
      /\ \A v \in Workers \ {w} : flight'[v] = flight[v]
  BY <1>2, <1>3, <1>4, <1>6
<1>8. \A v \in Workers : flight'[v].writes \in {EmptyBuffer, flight[v].writes}
  <2> TAKE v \in Workers
  <2>1. CASE v = w
    BY <1>3, <1>4, <1>7, <2>1
  <2>2. CASE v # w
    BY <1>7, <2>2
  <2> QED BY <2>1, <2>2
<1>9. BuffersFaithful'
  <2>1. ASSUME NEW v \in Workers PROVE Faithful(checks, flight'[v].writes, RegionOf[v])
    <3>1. CASE flight'[v].writes = EmptyBuffer
      BY <3>1, EmptyBufferFaithful
    <3>2. CASE flight'[v].writes = flight[v].writes
      BY <3>2 DEF ExactInv, BuffersFaithful
    <3> QED BY <1>8, <3>1, <3>2
  <2> QED BY <2>1 DEF ExactInv, BuffersFaithful
<1>10. RowsApart'
  <2>1. ASSUME NEW v \in Workers, NEW u \in Workers
        PROVE  /\ buffer'[v].rows \cap flight'[u].writes.rows = {}
               /\ v # u => /\ buffer'[v].rows \cap buffer'[u].rows = {}
                           /\ flight'[v].writes.rows \cap flight'[u].writes.rows = {}
    <3>1. /\ buffer[v].rows \cap flight[u].writes.rows = {}
          /\ v # u => /\ buffer[v].rows \cap buffer[u].rows = {}
                      /\ flight[v].writes.rows \cap flight[u].writes.rows = {}
      BY DEF ExactInv, RowsApart
    <3>2. /\ flight'[v].writes.rows \subseteq flight[v].writes.rows
          /\ flight'[u].writes.rows \subseteq flight[u].writes.rows
      BY <1>3, <1>8
    <3> QED BY <3>1, <3>2
  <2> QED BY <2>1 DEF RowsApart
<1>11. InOrder'
  <2>1. Reached(NoFlight, raw', counted')
    BY <1>3 DEF Reached
  <2>2. \A v \in Workers : Reached(flight'[v], raw', counted')
    <3> TAKE v \in Workers
    <3>1. CASE v = w
      BY <1>5, <1>7, <2>1, <3>1
    <3>2. CASE v # w
      <4>1. v \in Workers \ {w}
        BY <3>2
      <4> QED BY <1>1, <1>7, <4>1 DEF Executed
    <3> QED BY <3>1, <3>2
  <2>3. Done' = Done
    BY DEF Done
  <2> QED BY <1>1, <2>2, <2>3 DEF Executed, InOrder
<1>12. ChecksRecorded'
  BY DEF ExactInv, ChecksRecorded
<1> QED BY <1>1, <1>7, <1>9, <1>10, <1>11, <1>12 DEF ExactInv

LEMMA FaultTypes == ASSUME TypeOK, Fault PROVE faults' \in 0..MaxFaults
BY PipelineAssumption DEF TypeOK, Fault

\* Every step keeps the invariant.
LEMMA StepKeepsInv ==
  ASSUME TypeOK, ExactInv, [Next]_vars
  PROVE  TypeOK' /\ ExactInv'
<1> DEFINE Stages == {"running", "draining", "flushing", "closing", "exited", "dead"}
<1>a. stage \in [Workers -> Stages]
  BY DEF TypeOK
<1>1. CASE UNCHANGED vars
  <2>1. UNCHANGED <<hour, checks, buffer, flight, stage, raw, hourly, daily, counted, faults>>
    BY <1>1 DEF vars
  <2>2. TypeOK'
    BY <2>1 DEF TypeOK, Done
  <2> QED BY <2>1, <2>2, StandingKeepsExact
<1>2. CASE HourPasses
  <2>1. UNCHANGED <<checks, buffer, flight, stage, raw, hourly, daily, counted, faults>>
    BY <1>2 DEF HourPasses, tables
  <2>2. hour' \in Hours /\ hour' = hour + 1 /\ hour \in Nat
    BY <1>2, PipelineAssumption DEF HourPasses, TypeOK, Hours
  <2>3. \A i \in Done : checks'[i].hour \in 0..hour'
    BY <2>1, <2>2 DEF TypeOK
  <2>4. TypeOK'
    BY <2>1, <2>2, <2>3 DEF TypeOK, Done
  <2> QED BY <2>1, <2>4, StandingKeepsExact
<1>3. ASSUME NEW w \in Workers, NEW h \in Hours, Add(w, h)
      PROVE  TypeOK' /\ ExactInv'
  BY <1>3, AddKeepsTypes, AddKeepsExact
<1>4. ASSUME NEW w \in Workers, NEW starter \in {"timer", "job", "stop"}, flush(w, starter), stage' \in [Workers -> Stages]
      PROVE  TypeOK' /\ ExactInv'
  <2>1. ExactInv' /\ buffer' \in [Workers -> Buffer] /\ flight' \in [Workers -> Flight]
    BY <1>4, flushKeepsExact
  <2>2. UNCHANGED <<hour, checks, raw, hourly, daily, counted, faults>>
    BY <1>4 DEF flush, tables
  <2>3. TypeOK'
    BY <1>4, <2>1, <2>2 DEF TypeOK, Done
  <2> QED BY <2>1, <2>3
<1>5. ASSUME NEW w \in Workers, stage' \in [Workers -> Stages],
             UNCHANGED <<hour, checks, buffer, flight, tables, faults>>
      PROVE  TypeOK' /\ ExactInv'
  <2>1. UNCHANGED <<raw, hourly, daily, counted>>
    BY <1>5 DEF tables
  <2>2. TypeOK'
    BY <1>5, <2>1 DEF TypeOK, Done
  <2> QED BY <1>5, <2>1, <2>2, StandingKeepsExact
<1>6. ASSUME NEW w \in Workers, Over(w) PROVE stage' \in [Workers -> Stages]
  BY <1>a, <1>6 DEF Over
<1>7. ASSUME NEW w \in Workers, Statement(w) PROVE TypeOK' /\ ExactInv'
  <2>1. stage' \in [Workers -> Stages]
    BY <1>a, <1>6, <1>7 DEF Statement
  <2>2. /\ flight[w].next \in Statements /\ Written(flight[w], RegionOf[w])
        /\ checks' = checks /\ buffer' = buffer /\ hour' = hour /\ faults' = faults
        /\ \/ flight' = [flight EXCEPT ![w] = NoFlight]
           \/ flight' = [flight EXCEPT ![w].next = AfterStatement(flight[w].next)]
    BY <1>7 DEF Statement, Over
  <2>3. ExactInv' /\ flight' \in [Workers -> Flight]
    BY <2>2, ExecutedKeepsExact
  <2>4. /\ raw' \in [Results -> Nat] /\ hourly' \in [Regions \X Hours -> Delta]
        /\ daily' \in [Regions \X Days -> Delta]
        /\ counted' \in [hourly: SUBSET Results, daily: SUBSET Results]
    BY <2>2, WrittenKeepsTypes
  <2>5. TypeOK'
    BY <2>1, <2>2, <2>3, <2>4 DEF TypeOK, Done
  <2> QED BY <2>3, <2>5
<1>8. ASSUME NEW w \in Workers, StatementFails(w) PROVE TypeOK' /\ ExactInv'
  <2>1. stage' \in [Workers -> Stages]
    BY <1>6, <1>8 DEF StatementFails, FailedFlush
  <2>2. /\ flight[w].next \in Statements
        /\ checks' = checks /\ buffer' = buffer /\ hour' = hour
        /\ flight' = [flight EXCEPT ![w] = NoFlight]
    BY <1>8 DEF StatementFails, FailedFlush, Over
  <2>3. faults' \in 0..MaxFaults
    BY <1>8, FaultTypes DEF StatementFails
  <2>4. CASE Written(flight[w], RegionOf[w])
    <3>1. ExactInv' /\ flight' \in [Workers -> Flight]
      BY <2>2, <2>4, ExecutedKeepsExact
    <3>2. /\ raw' \in [Results -> Nat] /\ hourly' \in [Regions \X Hours -> Delta]
          /\ daily' \in [Regions \X Days -> Delta]
          /\ counted' \in [hourly: SUBSET Results, daily: SUBSET Results]
      BY <2>2, <2>4, WrittenKeepsTypes
    <3>3. TypeOK'
      BY <2>1, <2>2, <2>3, <3>1, <3>2 DEF TypeOK, Done
    <3> QED BY <3>1, <3>3
  <2>5. CASE UNCHANGED tables
    <3>1. UNCHANGED <<raw, hourly, daily, counted>>
      BY <2>5 DEF tables
    <3>2. ExactInv' /\ flight' \in [Workers -> Flight]
      BY <2>2, <3>1, LosingKeepsExact
    <3>3. TypeOK'
      BY <2>1, <2>2, <2>3, <3>1, <3>2 DEF TypeOK, Done
    <3> QED BY <3>2, <3>3
  <2> QED BY <1>8, <2>4, <2>5 DEF StatementFails
<1>9. ASSUME NEW w \in Workers, Crash(w) PROVE TypeOK' /\ ExactInv'
  <2>1. /\ checks' = checks /\ hour' = hour /\ UNCHANGED <<raw, hourly, daily, counted>>
        /\ buffer' = [buffer EXCEPT ![w] = EmptyBuffer] /\ flight' = [flight EXCEPT ![w] = NoFlight]
    BY <1>9 DEF Crash, tables
  <2>2. ExactInv' /\ buffer' \in [Workers -> Buffer] /\ flight' \in [Workers -> Flight]
    BY <2>1, LosingKeepsExact
  <2>3. faults' \in 0..MaxFaults /\ stage' \in [Workers -> Stages]
    BY <1>a, <1>9, FaultTypes DEF Crash
  <2>4. TypeOK'
    BY <2>1, <2>2, <2>3 DEF TypeOK, Done
  <2> QED BY <2>2, <2>4
<1>10. ASSUME NEW w \in Workers, WorkerStep(w) PROVE TypeOK' /\ ExactInv'
  <2>1. CASE \E h \in Hours : Add(w, h)
    BY <1>3, <2>1
  <2>2. CASE TimerFlush(w)
    BY <1>a, <1>4, <2>2 DEF TimerFlush
  <2>3. CASE JobFlush(w)
    BY <1>a, <1>4, <2>3 DEF JobFlush
  <2>4. CASE Stop(w)
    BY <1>a, <1>5, <2>4 DEF Stop
  <2>5. CASE LastFlush(w)
    BY <1>a, <1>4, <1>5, <2>5 DEF LastFlush
  <2>6. CASE Exit(w)
    BY <1>a, <1>5, <2>6 DEF Exit
  <2> QED BY <1>7, <1>8, <1>9, <1>10, <2>1, <2>2, <2>3, <2>4, <2>5, <2>6 DEF WorkerStep
<1> QED BY <1>1, <1>2, <1>10 DEF Next

\* The invariant holds throughout.
LEMMA PipelineInvariant == Spec => [](TypeOK /\ ExactInv)
<1>1. Init => TypeOK /\ ExactInv
  BY InitInv
<1>2. TypeOK /\ ExactInv /\ [Next]_vars => (TypeOK /\ ExactInv)'
  BY StepKeepsInv
<1> QED BY <1>1, <1>2, PTL DEF Spec

\* Buffers, flushes in progress and rollup rows stay well formed: counts and sums are natural
\* numbers, and no check is recorded under an hour to come (ResultBuffer, CheckResultRepository).
THEOREM PipelineTypeCorrect == Spec => []TypeOK
BY PipelineInvariant, PTL

LEMMA ExactFollows == TypeOK /\ ExactInv => RollupsExact
<1> SUFFICES ASSUME TypeOK, ExactInv PROVE RollupsExact
  OBVIOUS
<1>1. \A S, r, k : /\ InHour(S, r, k) = AtHour(checks, S, r, k)
                   /\ InDay(S, r, k) = AtDay(checks, S, r, k)
  BY DEF InHour, InDay, AtHour, AtDay
<1>2. ASSUME NEW b \in Regions \X Hours PROVE hourly[b] = Aggregate(InHour(counted.hourly, b[1], b[2]))
  <2>1. b = <<b[1], b[2]>> /\ b[1] \in Regions /\ b[2] \in Hours
    OBVIOUS
  <2>2. hourly[b] = Statistics(checks, AtHour(checks, counted.hourly, b[1], b[2]))
    BY <2>1 DEF ExactInv, TablesFaithful
  <2> QED BY <1>1, <2>2, AggregateIs
<1>3. ASSUME NEW b \in Regions \X Days PROVE daily[b] = Aggregate(InDay(counted.daily, b[1], b[2]))
  <2>1. b = <<b[1], b[2]>> /\ b[1] \in Regions /\ b[2] \in Days
    OBVIOUS
  <2>2. daily[b] = Statistics(checks, AtDay(checks, counted.daily, b[1], b[2]))
    BY <2>1 DEF ExactInv, TablesFaithful
  <2> QED BY <1>1, <2>2, AggregateIs
<1>4. DOMAIN hourly = Regions \X Hours /\ DOMAIN daily = Regions \X Days
  BY DEF TypeOK
<1>5. /\ counted.daily \subseteq counted.hourly
      /\ \A i \in counted.hourly : raw[i] = 1
      /\ \A i \in Results : raw[i] <= 1
  BY DEF ExactInv, InOrder
<1> QED BY <1>2, <1>3, <1>4, <1>5 DEF RollupsExact

\* However many workers buffer, flush, fail and die, each rollup row is exactly the statistics
\* of the checks flushed into it, and these have been inserted, once (upsertRollup).
THEOREM RollupsAreExact == Spec => []RollupsExact
BY PipelineInvariant, ExactFollows, PTL
-----------------------------------------------------------------------------
(* A SELECT over rows of a rollup table.                                   *)

Column(t, f, S) == Total([b \in S |-> t[b][f]], S)

LEMMA SumIs ==
  ASSUME NEW t, NEW S
  PROVE  Sum(t, S) =
           [checksTotal  |-> Column(t, "checksTotal", S),
            checksUp     |-> Column(t, "checksUp", S),
            latencySum   |-> Column(t, "latencySum", S),
            latencyCount |-> Column(t, "latencyCount", S),
            latencyMin   |-> Lowest({t[b].latencyMin : b \in S}),
            latencyMax   |-> Highest({t[b].latencyMax : b \in S})]
<1>1. MapThenSumSet(LAMBDA b : t[b].checksTotal, S) = Column(t, "checksTotal", S)
  BY SumOfColumn DEF Column
<1>2. MapThenSumSet(LAMBDA b : t[b].checksUp, S) = Column(t, "checksUp", S)
  BY SumOfColumn DEF Column
<1>3. MapThenSumSet(LAMBDA b : t[b].latencySum, S) = Column(t, "latencySum", S)
  BY SumOfColumn DEF Column
<1>4. MapThenSumSet(LAMBDA b : t[b].latencyCount, S) = Column(t, "latencyCount", S)
  BY SumOfColumn DEF Column
<1> QED BY <1>1, <1>2, <1>3, <1>4 DEF Sum

LEMMA TotalOfIs == ASSUME NEW t PROVE TotalOf(t) = Column(t, "checksTotal", DOMAIN t)
<1>1. MapThenSumSet(LAMBDA b : t[b].checksTotal, DOMAIN t) = Column(t, "checksTotal", DOMAIN t)
  BY SumOfColumn DEF Column
<1> QED BY <1>1 DEF TotalOf

LEMMA ColumnWithout ==
  ASSUME NEW t, NEW K, IsFiniteSet(K), NEW f, \A b \in K : t[b][f] \in Nat, NEW k \in K
  PROVE  Column(t, f, K) = t[k][f] + Column(t, f, K \ {k})
<1> DEFINE v == [b \in K |-> t[b][f]]
           u == [b \in K \ {k} |-> t[b][f]]
<1>1. Column(t, f, K) = Total(v, K) /\ Column(t, f, K \ {k}) = Total(u, K \ {k})
  BY DEF Column
<1>3. \A b \in K : v[b] \in Nat
  OBVIOUS
<1>4. v[k] = t[k][f]
  OBVIOUS
<1>5. IsFiniteSet(K \ {k}) /\ \A b \in K \ {k} : v[b] = u[b]
  BY FS_RemoveElement
<1> HIDE DEF v, u
<1>6. Total(v, K) = v[k] + Total(v, K \ {k})
  BY <1>3, TotalWithout
<1>7. Total(v, K \ {k}) = Total(u, K \ {k})
  BY <1>5, TotalAgrees
<1> QED BY <1>1, <1>4, <1>6, <1>7

LEMMA ColumnOfNone == ASSUME NEW t, NEW f PROVE Column(t, f, {}) = 0
BY TotalNone DEF Column

\* A column's smallest and largest value.
LEMMA LowestIs ==
  ASSUME NEW V \in SUBSET Latency
  PROVE  Lowest(V) = LowTime(V \ {NoLatency}) /\ Highest(V) = HighTime(V \ {NoLatency})
<1>1. V \subseteq {NoLatency} <=> V \ {NoLatency} = {}
  OBVIOUS
<1> QED BY <1>1 DEF Lowest, Highest, LowTime, HighTime

LEMMA ExtremeOfOne ==
  ASSUME NEW x \in Latency
  PROVE  LowTime({x} \ {NoLatency}) = x /\ HighTime({x} \ {NoLatency}) = x
<1>1. CASE x = NoLatency
  <2>1. {x} \ {NoLatency} = {}
    BY <1>1
  <2> QED BY <1>1, <2>1 DEF LowTime, HighTime
<1>2. CASE x # NoLatency
  <2>1. {x} \ {NoLatency} = {x} /\ {x} \in SUBSET Nat /\ {x} # {} /\ IsFiniteSet({x})
    BY <1>2, FS_Singleton DEF Latency
  <2>2. Min({x}) \in {x} /\ Max({x}) \in {x}
    BY <2>1, SmallestIn, LargestIn
  <2> QED BY <2>1, <2>2 DEF LowTime, HighTime
<1> QED BY <1>1, <1>2

\* One more value.
LEMMA LowestOfOneMore ==
  ASSUME NEW V \in SUBSET Latency, IsFiniteSet(V), NEW x \in Latency
  PROVE  /\ Lowest({x} \cup V) = Least(x, Lowest(V))
         /\ Highest({x} \cup V) = Greatest(x, Highest(V))
<1> DEFINE A == {x} \ {NoLatency}
           B == V \ {NoLatency}
<1>1. A \in SUBSET Nat /\ B \in SUBSET Nat /\ ({x} \cup V) \ {NoLatency} = A \cup B
  BY DEF Latency
<1>2. IsFiniteSet(A) /\ IsFiniteSet(B)
  BY FS_Singleton, FS_RemoveElement
<1>3. /\ Lowest({x} \cup V) = LowTime(A \cup B) /\ Highest({x} \cup V) = HighTime(A \cup B)
      /\ Lowest(V) = LowTime(B) /\ Highest(V) = HighTime(B)
  <2>1. {x} \cup V \in SUBSET Latency
    OBVIOUS
  <2> QED BY <1>1, <2>1, LowestIs
<1>4. LowTime(A) = x /\ HighTime(A) = x
  BY ExtremeOfOne
<1> HIDE DEF A, B
<1>5. LowTime(A \cup B) = Least(LowTime(A), LowTime(B))
  BY <1>1, LowTimeOfUnion
<1>6. HighTime(A \cup B) = Greatest(HighTime(A), HighTime(B))
  BY <1>1, <1>2, HighTimeOfUnion
<1> QED BY <1>3, <1>4, <1>5, <1>6

LEMMA SumOfNone == ASSUME NEW t PROVE Sum(t, {}) = EmptyDelta
<1>1. Lowest({}) = NoLatency /\ Highest({}) = NoLatency
  BY DEF Lowest, Highest
<1>2. {t[b].latencyMin : b \in {}} = {} /\ {t[b].latencyMax : b \in {}} = {}
  OBVIOUS
<1> QED BY <1>1, <1>2, SumIs, ColumnOfNone DEF EmptyDelta

\* A SELECT over one row more.
LEMMA SumOfOneMore ==
  ASSUME NEW t, NEW K, IsFiniteSet(K), \A b \in K : t[b] \in Delta, NEW k \in K
  PROVE  Sum(t, K) = Merged(t[k], Sum(t, K \ {k}))
<1> DEFINE R == K \ {k}
           low == {t[b].latencyMin : b \in R}
           high == {t[b].latencyMax : b \in R}
<1>1. \A b \in K : /\ t[b]["checksTotal"] \in Nat /\ t[b]["checksUp"] \in Nat
                   /\ t[b]["latencySum"] \in Nat /\ t[b]["latencyCount"] \in Nat
                   /\ t[b].latencyMin \in Latency /\ t[b].latencyMax \in Latency
  BY DEF Delta
<1>2. /\ Column(t, "checksTotal", K) = t[k].checksTotal + Column(t, "checksTotal", R)
      /\ Column(t, "checksUp", K) = t[k].checksUp + Column(t, "checksUp", R)
      /\ Column(t, "latencySum", K) = t[k].latencySum + Column(t, "latencySum", R)
      /\ Column(t, "latencyCount", K) = t[k].latencyCount + Column(t, "latencyCount", R)
  <2> HIDE DEF R
  <2>1. Column(t, "checksTotal", K) = t[k]["checksTotal"] + Column(t, "checksTotal", R)
    BY <1>1, ColumnWithout DEF R
  <2>2. Column(t, "checksUp", K) = t[k]["checksUp"] + Column(t, "checksUp", R)
    BY <1>1, ColumnWithout DEF R
  <2>3. Column(t, "latencySum", K) = t[k]["latencySum"] + Column(t, "latencySum", R)
    BY <1>1, ColumnWithout DEF R
  <2>4. Column(t, "latencyCount", K) = t[k]["latencyCount"] + Column(t, "latencyCount", R)
    BY <1>1, ColumnWithout DEF R
  <2> QED BY <2>1, <2>2, <2>3, <2>4
<1>3. /\ {t[b].latencyMin : b \in K} = {t[k].latencyMin} \cup low
      /\ {t[b].latencyMax : b \in K} = {t[k].latencyMax} \cup high
  OBVIOUS
<1>4. low \in SUBSET Latency /\ high \in SUBSET Latency
  BY <1>1
<1>5. IsFiniteSet(low) /\ IsFiniteSet(high)
  <2>1. IsFiniteSet(R)
    BY FS_RemoveElement
  <2>2. [b \in R |-> t[b].latencyMin] \in Surjection(R, low)
    BY DEF Surjection
  <2>3. [b \in R |-> t[b].latencyMax] \in Surjection(R, high)
    BY DEF Surjection
  <2> HIDE DEF R, low, high
  <2> QED BY <2>1, <2>2, <2>3, FS_Surjection
<1>6. Lowest({t[k].latencyMin} \cup low) = Least(t[k].latencyMin, Lowest(low))
  <2> HIDE DEF low
  <2> QED BY <1>1, <1>4, <1>5, LowestOfOneMore
<1>7. Highest({t[k].latencyMax} \cup high) = Greatest(t[k].latencyMax, Highest(high))
  <2> HIDE DEF high
  <2> QED BY <1>1, <1>4, <1>5, LowestOfOneMore
<1>8. /\ Sum(t, R).checksTotal = Column(t, "checksTotal", R)
      /\ Sum(t, R).checksUp = Column(t, "checksUp", R)
      /\ Sum(t, R).latencySum = Column(t, "latencySum", R)
      /\ Sum(t, R).latencyCount = Column(t, "latencyCount", R)
      /\ Sum(t, R).latencyMin = Lowest(low) /\ Sum(t, R).latencyMax = Highest(high)
  <2>1. Sum(t, R) =
           [checksTotal  |-> Column(t, "checksTotal", R),
            checksUp     |-> Column(t, "checksUp", R),
            latencySum   |-> Column(t, "latencySum", R),
            latencyCount |-> Column(t, "latencyCount", R),
            latencyMin   |-> Lowest(low), latencyMax   |-> Highest(high)]
    BY SumIs
  <2> HIDE DEF R, low, high
  <2> QED BY <2>1
<1>9. Sum(t, K) =
           [checksTotal  |-> Column(t, "checksTotal", K),
            checksUp     |-> Column(t, "checksUp", K),
            latencySum   |-> Column(t, "latencySum", K),
            latencyCount |-> Column(t, "latencyCount", K),
            latencyMin   |-> Lowest({t[k].latencyMin} \cup low),
            latencyMax   |-> Highest({t[k].latencyMax} \cup high)]
  BY <1>3, SumIs
<1> HIDE DEF R, low, high
<1>10. Sum(t, K) = Merged(t[k], Sum(t, R))
  BY <1>2, <1>6, <1>7, <1>8, <1>9 DEF Merged
<1> QED BY <1>10 DEF R

\* The checks of S that a table keeps in the rows K, cell saying which row a check is in.
Cells(cell, S, K) == {i \in S : cell[i] \in K}
\* The checks of the buckets from some one on, and of one bucket.
Since(cell, S, from) == {i \in S : cell[i][2] >= from}
OfBucket(cell, S, b) == {i \in S : cell[i][2] = b}

\* The rows of a table are the statistics of their checks.
Tabulates(t, c, cell, S) ==
  /\ IsFiniteSet(S) /\ Recorded(c, S)
  /\ \A i \in S : cell[i] \in DOMAIN t
  /\ \A b \in DOMAIN t : t[b] = Statistics(c, Cells(cell, S, {b}))

LEMMA CellsFinite ==
  ASSUME NEW c, NEW cell, NEW S, IsFiniteSet(S), Recorded(c, S), NEW K
  PROVE  IsFiniteSet(Cells(cell, S, K)) /\ Recorded(c, Cells(cell, S, K))
<1>1. Cells(cell, S, K) \subseteq S
  BY DEF Cells
<1> QED BY <1>1, FS_Subset DEF Recorded

LEMMA RowsAreDeltas ==
  ASSUME NEW t, NEW c, NEW cell, NEW S, Tabulates(t, c, cell, S)
  PROVE  \A b \in DOMAIN t : t[b] \in Delta
<1> TAKE b \in DOMAIN t
<1>1. IsFiniteSet(Cells(cell, S, {b})) /\ Recorded(c, Cells(cell, S, {b}))
  BY CellsFinite DEF Tabulates
<1>2. Statistics(c, Cells(cell, S, {b})) \in Delta
  BY <1>1, StatisticsType
<1> QED BY <1>2 DEF Tabulates

\* A SELECT over rows amounts to the statistics of all their checks.
LEMMA SumIsStatistics ==
  ASSUME NEW t, NEW c, NEW cell, NEW S, Tabulates(t, c, cell, S),
         NEW K \in SUBSET DOMAIN t, IsFiniteSet(K)
  PROVE  Sum(t, K) = Statistics(c, Cells(cell, S, K))
<1> DEFINE T == {R \in SUBSET K : Sum(t, R) = Statistics(c, Cells(cell, S, R))}
<1>1. ASSUME NEW R \in SUBSET K, \A x \in R : R \ {x} \in T
      PROVE  R \in T
  <2>1. CASE R = {}
    <3>1. Cells(cell, S, {}) = {}
      BY DEF Cells
    <3>2. Sum(t, {}) = Statistics(c, {})
      BY SumOfNone, StatisticsOfNone
    <3> QED BY <2>1, <3>1, <3>2
  <2>2. CASE R # {}
    <3>1. PICK k \in R : TRUE
      BY <2>2
    <3>2. IsFiniteSet(R) /\ \A b \in R : t[b] \in Delta
      BY RowsAreDeltas, FS_Subset
    <3>3. Sum(t, R) = Merged(t[k], Sum(t, R \ {k}))
      BY <3>1, <3>2, SumOfOneMore
    <3>4. Sum(t, R \ {k}) = Statistics(c, Cells(cell, S, R \ {k}))
      BY <1>1, <3>1
    <3>5. t[k] = Statistics(c, Cells(cell, S, {k}))
      BY <3>1 DEF Tabulates
    <3> DEFINE A == Cells(cell, S, {k})
               B == Cells(cell, S, R \ {k})
    <3>6. A \cap B = {} /\ A \cup B = Cells(cell, S, R) /\ A \cup B \subseteq S
      BY <3>1 DEF Cells
    <3>7. IsFiniteSet(A) /\ IsFiniteSet(B)
      BY CellsFinite DEF Tabulates
    <3>8. Recorded(c, A \cup B)
      BY <3>6 DEF Recorded, Tabulates
    <3> HIDE DEF A, B
    <3>9. Statistics(c, A \cup B) = Merged(Statistics(c, A), Statistics(c, B))
      BY <3>6, <3>7, <3>8, StatisticsOfUnion
    <3>10. Sum(t, R) = Statistics(c, A \cup B)
      BY <3>3, <3>4, <3>5, <3>9 DEF A, B
    <3> QED BY <3>6, <3>10
  <2> QED BY <2>1, <2>2
<1> HIDE DEF T
<1>2. \A R \in SUBSET K : R \in T
  BY <1>1, Parts
<1> QED BY <1>2 DEF T

\* There is a row for a bucket where a check was counted.
LEMMA RowsAre ==
  ASSUME NEW t, NEW c, NEW cell, NEW S, Tabulates(t, c, cell, S), NEW from
  PROVE  Rows(t, from) = {cell[i] : i \in Since(cell, S, from)}
<1>1. ASSUME NEW b \in DOMAIN t
      PROVE  t[b].checksTotal > 0 <=> \E i \in S : cell[i] = b
  <2>1. t[b] = Statistics(c, Cells(cell, S, {b}))
    BY DEF Tabulates
  <2>2. t[b].checksTotal = Cardinality(Cells(cell, S, {b}))
    BY <2>1 DEF Statistics
  <2>3. IsFiniteSet(Cells(cell, S, {b}))
    BY CellsFinite DEF Tabulates
  <2>4. Cardinality(Cells(cell, S, {b})) \in Nat
    BY <2>3, FS_CardinalityType
  <2>5. Cardinality(Cells(cell, S, {b})) = 0 <=> Cells(cell, S, {b}) = {}
    BY <2>3, FS_EmptySet
  <2>6. Cells(cell, S, {b}) = {} <=> ~ \E i \in S : cell[i] = b
    BY DEF Cells
  <2> QED BY <2>2, <2>4, <2>5, <2>6
<1>2. \A i \in S : cell[i] \in DOMAIN t
  BY DEF Tabulates
<1> QED BY <1>1, <1>2 DEF Rows, Since

LEMMA RowsFinite ==
  ASSUME NEW t, NEW c, NEW cell, NEW S, Tabulates(t, c, cell, S), NEW from
  PROVE  IsFiniteSet(Rows(t, from)) /\ Rows(t, from) \in SUBSET DOMAIN t
<1> DEFINE A == Since(cell, S, from)
<1>1. IsFiniteSet(A)
  <2>1. A \subseteq S
    BY DEF Since
  <2> QED BY <2>1, FS_Subset DEF Tabulates
<1>2. [i \in A |-> cell[i]] \in Surjection(A, {cell[i] : i \in A})
  BY DEF Surjection
<1>3. IsFiniteSet({cell[i] : i \in A})
  <2> HIDE DEF A
  <2> QED BY <1>1, <1>2, FS_Surjection
<1>4. Rows(t, from) = {cell[i] : i \in A}
  BY RowsAre
<1> QED BY <1>3, <1>4 DEF Rows

LEMMA SumSince ==
  ASSUME NEW t, NEW c, NEW cell, NEW S, Tabulates(t, c, cell, S), NEW from
  PROVE  Sum(t, Rows(t, from)) = Statistics(c, Since(cell, S, from))
<1>1. Sum(t, Rows(t, from)) = Statistics(c, Cells(cell, S, Rows(t, from)))
  BY RowsFinite, SumIsStatistics
<1>2. Rows(t, from) = {cell[i] : i \in Since(cell, S, from)}
  BY RowsAre
<1>3. Rows(t, from) \subseteq {b \in DOMAIN t : b[2] >= from}
  BY DEF Rows
<1>4. Cells(cell, S, Rows(t, from)) = Since(cell, S, from)
  BY <1>2, <1>3 DEF Cells, Since
<1> QED BY <1>1, <1>4

LEMMA BucketsAre ==
  ASSUME NEW t, NEW c, NEW cell, NEW S, Tabulates(t, c, cell, S), NEW from
  PROVE  Buckets(t, from) = {cell[i][2] : i \in Since(cell, S, from)}
<1>1. Rows(t, from) = {cell[i] : i \in Since(cell, S, from)}
  BY RowsAre
<1> QED BY <1>1 DEF Buckets

LEMMA BucketsFinite ==
  ASSUME NEW t, NEW c, NEW cell, NEW S, Tabulates(t, c, cell, S), NEW from
  PROVE  IsFiniteSet(Buckets(t, from))
<1> DEFINE A == Rows(t, from)
<1>1. IsFiniteSet(A)
  BY RowsFinite
<1>2. [b \in A |-> b[2]] \in Surjection(A, {b[2] : b \in A})
  BY DEF Surjection
<1> HIDE DEF A
<1>3. IsFiniteSet({b[2] : b \in A})
  BY <1>1, <1>2, FS_Surjection
<1> QED BY <1>3 DEF A, Buckets

\* A point of a chart is the summary of its bucket.
LEMMA SumOfBucket ==
  ASSUME NEW t, NEW c, NEW cell, NEW S, Tabulates(t, c, cell, S), NEW from,
         NEW b \in Buckets(t, from)
  PROVE  Sum(t, {k \in Rows(t, from) : k[2] = b}) = Statistics(c, OfBucket(cell, S, b))
<1> DEFINE K == {k \in Rows(t, from) : k[2] = b}
<1>1. K \subseteq Rows(t, from)
  OBVIOUS
<1>2. IsFiniteSet(K) /\ K \in SUBSET DOMAIN t
  BY <1>1, RowsFinite, FS_Subset
<1>3. Sum(t, K) = Statistics(c, Cells(cell, S, K))
  <2> HIDE DEF K
  <2> QED BY <1>2, SumIsStatistics
<1>4. Rows(t, from) = {cell[i] : i \in Since(cell, S, from)}
  BY RowsAre
<1>5. b >= from
  BY DEF Buckets, Rows
<1>6. Cells(cell, S, K) = OfBucket(cell, S, b)
  BY <1>4, <1>5 DEF Cells, OfBucket, Since
<1> QED BY <1>3, <1>6

LEMMA SeriesIs ==
  ASSUME NEW t, NEW c, NEW cell, NEW S, Tabulates(t, c, cell, S), NEW from
  PROVE  /\ DOMAIN series(t, from) = Buckets(t, from)
         /\ \A b \in Buckets(t, from) :
              series(t, from)[b] = Summary(Statistics(c, OfBucket(cell, S, b)))
<1>1. \A b \in Buckets(t, from) :
        Sum(t, {k \in Rows(t, from) : k[2] = b}) = Statistics(c, OfBucket(cell, S, b))
  BY SumOfBucket
<1> QED BY <1>1 DEF series

\* Counting by buckets.
LEMMA CountByBucket ==
  ASSUME NEW p, NEW cell, NEW S, IsFiniteSet(S), NEW K, IsFiniteSet(K),
         \A b \in K : p[b].checksTotal = Cardinality(OfBucket(cell, S, b))
  PROVE  Column(p, "checksTotal", K) = Cardinality({i \in S : cell[i][2] \in K})
<1> DEFINE In(R) == {i \in S : cell[i][2] \in R}
           T == {R \in SUBSET K : Column(p, "checksTotal", R) = Cardinality(In(R))}
<1>1. ASSUME NEW R \in SUBSET K, \A x \in R : R \ {x} \in T
      PROVE  R \in T
  <2>1. CASE R = {}
    <3>1. In({}) = {}
      OBVIOUS
    <3> QED BY <2>1, <3>1, ColumnOfNone, FS_EmptySet
  <2>2. CASE R # {}
    <3>1. PICK k \in R : TRUE
      BY <2>2
    <3>2. \A b \in R : p[b]["checksTotal"] \in Nat
      <4> TAKE b \in R
      <4>1. OfBucket(cell, S, b) \subseteq S
        BY DEF OfBucket
      <4>2. IsFiniteSet(OfBucket(cell, S, b))
        BY <4>1, FS_Subset
      <4>3. Cardinality(OfBucket(cell, S, b)) \in Nat
        BY <4>2, FS_CardinalityType
      <4>4. p[b].checksTotal = Cardinality(OfBucket(cell, S, b))
        OBVIOUS
      <4> QED BY <4>3, <4>4
    <3>3. IsFiniteSet(R)
      BY FS_Subset
    <3>4. Column(p, "checksTotal", R) = p[k]["checksTotal"] + Column(p, "checksTotal", R \ {k})
      BY <3>1, <3>2, <3>3, ColumnWithout
    <3>5. Column(p, "checksTotal", R \ {k}) = Cardinality(In(R \ {k}))
      BY <1>1, <3>1
    <3> DEFINE A == OfBucket(cell, S, k)
               B == In(R \ {k})
    <3>6. A \cap B = {} /\ A \cup B = In(R) /\ A \subseteq S /\ B \subseteq S
      BY <3>1 DEF OfBucket
    <3>7. p[k]["checksTotal"] = Cardinality(A)
      BY <3>1
    <3>8. Column(p, "checksTotal", R \ {k}) = Cardinality(B)
      BY <3>5
    <3> HIDE DEF A, B, In
    <3>9. IsFiniteSet(A) /\ IsFiniteSet(B)
      BY <3>6, FS_Subset
    <3>10. Cardinality(A \cup B) = Cardinality(A) + Cardinality(B)
      <4>1. Cardinality(A \cup B) = Cardinality(A) + Cardinality(B) - Cardinality(A \cap B)
        BY <3>9, FS_Union
      <4>2. Cardinality(A \cap B) = 0
        BY <3>6, FS_EmptySet
      <4>3. Cardinality(A) \in Nat /\ Cardinality(B) \in Nat
        BY <3>9, FS_CardinalityType
      <4> QED BY <4>1, <4>2, <4>3
    <3> QED BY <3>4, <3>6, <3>7, <3>8, <3>10
  <2> QED BY <2>1, <2>2
<1> HIDE DEF T
<1>2. \A R \in SUBSET K : R \in T
  BY <1>1, Parts
<1> QED BY <1>2 DEF T

\* A chart shows every check since it begins.
LEMMA ChartTotal ==
  ASSUME NEW t, NEW c, NEW cell, NEW S, Tabulates(t, c, cell, S), NEW from
  PROVE  TotalOf(series(t, from)) = Cardinality(Since(cell, S, from))
<1> DEFINE p == series(t, from)
           K == Buckets(t, from)
<1>1. DOMAIN p = K /\ \A b \in K : p[b] = Summary(Statistics(c, OfBucket(cell, S, b)))
  BY SeriesIs
<1>2. \A b \in K : p[b].checksTotal = Cardinality(OfBucket(cell, S, b))
  <2> TAKE b \in K
  <2> DEFINE d == Statistics(c, OfBucket(cell, S, b))
  <2>1. d.checksTotal = Cardinality(OfBucket(cell, S, b))
    BY DEF Statistics
  <2>2. p[b] = Summary(d)
    BY <1>1
  <2> HIDE DEF d, p, K
  <2> QED BY <2>1, <2>2 DEF Summary
<1>3. IsFiniteSet(K) /\ IsFiniteSet(S)
  BY BucketsFinite DEF Tabulates
<1>4. K = {cell[i][2] : i \in Since(cell, S, from)} /\ \A b \in K : b >= from
  <2>1. K = {cell[i][2] : i \in Since(cell, S, from)}
    BY BucketsAre
  <2>2. \A b \in K : b >= from
    BY DEF Buckets, Rows
  <2> QED BY <2>1, <2>2
<1> HIDE DEF p, K
<1>5. TotalOf(p) = Column(p, "checksTotal", K)
  BY <1>1, TotalOfIs
<1>6. Column(p, "checksTotal", K) = Cardinality({i \in S : cell[i][2] \in K})
  BY <1>2, <1>3, CountByBucket
<1>7. {i \in S : cell[i][2] \in K} = Since(cell, S, from)
  BY <1>4 DEF Since
<1> QED BY <1>5, <1>6, <1>7 DEF p

-----------------------------------------------------------------------------
(* Rounding, and the windows.                                              *)

LEMMA LessByFactor ==
  ASSUME NEW a \in Nat \ {0}, NEW x \in Nat, NEW y \in Nat, a * x < a * y
  PROVE  x < y
<1>1. SUFFICES ASSUME y <= x PROVE FALSE
  OBVIOUS
<1>2. PICK k \in Nat : x = y + k
  <2>1. x - y \in Nat /\ x = y + (x - y)
    BY <1>1
  <2> QED BY <2>1
<1>3. a * x = a * y + a * k
  BY <1>2
<1>4. a * y \in Nat /\ a * k \in Nat /\ a * x \in Nat
  OBVIOUS
<1> QED BY <1>3, <1>4

\* Math.round of a quotient lies between the bounds of what was summed.
LEMMA RoundedBetween ==
  ASSUME NEW s \in Nat, NEW n \in Nat \ {0}, NEW low \in Nat, NEW high \in Nat,
         n * low <= s, s <= n * high
  PROVE  /\ (2 * s + n) \div (2 * n) \in Nat
         /\ low <= (2 * s + n) \div (2 * n) /\ (2 * s + n) \div (2 * n) <= high
<1> DEFINE a == 2 * n
           q == (2 * s + n) \div a
<1>1. a \in Nat \ {0} /\ a > n
  OBVIOUS
<1>2. q \in Nat /\ a * q <= 2 * s + n /\ 2 * s + n < a * q + a
  <2> DEFINE m == 2 * s + n
  <2>1. m \in Nat
    OBVIOUS
  <2> HIDE DEF m, a
  <2>2. m \div a \in Nat /\ a * (m \div a) <= m /\ m < a * (m \div a) + a
    BY <1>1, <2>1
  <2> QED BY <2>2 DEF m
<1>3. a * low = 2 * (n * low) /\ a * high = 2 * (n * high)
  OBVIOUS
<1>4. n * low \in Nat /\ n * high \in Nat
  OBVIOUS
<1>5. a * low <= 2 * s /\ 2 * s <= a * high
  BY <1>3, <1>4
<1> HIDE DEF a, q
<1>6. a * (q + 1) = a * q + a /\ a * (high + 1) = a * high + a
  BY <1>1, <1>2
<1>7. a * q \in Nat /\ a * low \in Nat /\ a * high \in Nat
  BY <1>1, <1>2
<1>8. a * low < a * (q + 1) /\ a * q < a * (high + 1)
  BY <1>1, <1>2, <1>5, <1>6, <1>7
<1>9. low < q + 1 /\ q < high + 1
  <2>1. q + 1 \in Nat /\ high + 1 \in Nat
    BY <1>2
  <2> QED BY <1>1, <1>2, <1>8, <2>1, LessByFactor
<1>10. q \in Nat /\ low <= q /\ q <= high
  BY <1>2, <1>9
<1> QED BY <1>10 DEF a, q

\* A sum lies between so many times the smallest and the largest.
LEMMA TotalBetween ==
  ASSUME NEW v, NEW S, IsFiniteSet(S), NEW low \in Nat, NEW high \in Nat,
         \A x \in S : v[x] \in Nat /\ low <= v[x] /\ v[x] <= high
  PROVE  Cardinality(S) * low <= Total(v, S) /\ Total(v, S) <= Cardinality(S) * high
<1> DEFINE T == {R \in SUBSET S : Cardinality(R) * low <= Total(v, R) /\ Total(v, R) <= Cardinality(R) * high}
<1>1. ASSUME NEW R \in SUBSET S, \A x \in R : R \ {x} \in T
      PROVE  R \in T
  <2>1. CASE R = {}
    <3>1. Cardinality({}) = 0 /\ Total(v, {}) = 0
      BY TotalNone, FS_EmptySet
    <3> QED BY <2>1, <3>1
  <2>2. CASE R # {}
    <3>1. PICK k \in R : TRUE
      BY <2>2
    <3>2. IsFiniteSet(R)
      BY FS_Subset
    <3>3. Total(v, R) = v[k] + Total(v, R \ {k})
      BY <3>1, <3>2, TotalWithout
    <3>4. Cardinality(R \ {k}) = Cardinality(R) - 1 /\ IsFiniteSet(R \ {k})
      BY <3>1, <3>2, FS_RemoveElement
    <3>5. Cardinality(R) \in Nat /\ Cardinality(R \ {k}) \in Nat
      BY <3>2, <3>4, FS_CardinalityType
    <3>6. Total(v, R \ {k}) \in Nat
      BY <3>4, TotalType
    <3>7. /\ Cardinality(R \ {k}) * low <= Total(v, R \ {k})
          /\ Total(v, R \ {k}) <= Cardinality(R \ {k}) * high
      BY <1>1, <3>1
    <3>8. v[k] \in Nat /\ low <= v[k] /\ v[k] <= high
      BY <3>1
    <3> DEFINE n == Cardinality(R \ {k})
               m == Cardinality(R)
               u == Total(v, R \ {k})
    <3>9. m = n + 1 /\ n \in Nat
      BY <3>4, <3>5
    <3> HIDE DEF n, m, u, T
    <3>10. m * low = n * low + low /\ m * high = n * high + high
      BY <3>9
    <3>11. n * low \in Nat /\ n * high \in Nat
      BY <3>9
    <3>12. m * low <= v[k] + u /\ v[k] + u <= m * high
      BY <3>6, <3>7, <3>8, <3>10, <3>11 DEF n, u
    <3> QED BY <3>3, <3>12 DEF T, m, u
  <2> QED BY <2>1, <2>2
<1> HIDE DEF T
<1>2. \A R \in SUBSET S : R \in T
  BY <1>1, Parts
<1> QED BY <1>2 DEF T

\* The average of a point and its extremes.
AverageBetween(p) ==
  IF p.avgLatencyMs = NoValue THEN p.minLatencyMs = NoLatency /\ p.maxLatencyMs = NoLatency
  ELSE p.minLatencyMs <= p.avgLatencyMs /\ p.avgLatencyMs <= p.maxLatencyMs

LEMMA PointIsSound ==
  ASSUME NEW c, NEW S, IsFiniteSet(S), Recorded(c, S)
  PROVE  AverageBetween(Summary(Statistics(c, S)))
<1> DEFINE W == WithTime(c, S)
           V == Times(c, S)
           v == [i \in W |-> c[i].ms]
           p == Summary(Statistics(c, S))
           n == Cardinality(W)
           s == Total(v, W)
<1>1. /\ IsFiniteSet(W) /\ IsFiniteSet(V) /\ V \in SUBSET Nat
      /\ \A i \in W : v[i] \in Nat
  BY PartsAreFinite
<1>2. V = {c[i].ms : i \in W}
  BY DEF Times
<1>3. /\ p.avgLatencyMs = avg(s, n)
      /\ p.minLatencyMs = LowTime(V) /\ p.maxLatencyMs = HighTime(V)
  <2>1. /\ Statistics(c, S).latencySum = s /\ Statistics(c, S).latencyCount = n
        /\ Statistics(c, S).latencyMin = LowTime(V) /\ Statistics(c, S).latencyMax = HighTime(V)
    BY DEF Statistics
  <2> HIDE DEF W, V, v, n, s
  <2> QED BY <2>1 DEF Summary
<1>4. \A i \in W : v[i] \in V
  BY <1>2
<1>5. V = {} <=> W = {}
  BY <1>2
<1> HIDE DEF W, V, v, p
<1>6. n \in Nat /\ (n = 0 <=> W = {})
  BY <1>1, FS_CardinalityType, FS_EmptySet
<1>7. CASE W = {}
  <2>1. avg(s, n) = NoValue
    BY <1>6, <1>7 DEF avg
  <2>2. LowTime(V) = NoLatency /\ HighTime(V) = NoLatency
    BY <1>5, <1>7 DEF LowTime, HighTime
  <2>3. AverageBetween(p)
    BY <1>3, <2>1, <2>2 DEF AverageBetween
  <2> QED BY <2>3 DEF p
<1>8. CASE W # {}
  <2> DEFINE low == Min(V)
             high == Max(V)
  <2>1. low \in V /\ \A y \in V : low <= y
    BY <1>1, <1>5, <1>8, SmallestIn
  <2>2. high \in V /\ \A y \in V : y <= high
    BY <1>1, <1>5, <1>8, LargestIn
  <2>3. LowTime(V) = low /\ HighTime(V) = high
    BY <1>5, <1>8 DEF LowTime, HighTime
  <2> HIDE DEF low, high
  <2>4. low \in Nat /\ high \in Nat
    BY <1>1, <2>1, <2>2
  <2>5. \A i \in W : v[i] \in Nat /\ low <= v[i] /\ v[i] <= high
    BY <1>1, <1>4, <2>1, <2>2
  <2>6. n * low <= s /\ s <= n * high
    BY <1>1, <2>4, <2>5, TotalBetween
  <2>7. s \in Nat
    BY <1>1, TotalType
  <2> HIDE DEF n, s
  <2>8. /\ (2 * s + n) \div (2 * n) \in Nat
        /\ low <= (2 * s + n) \div (2 * n) /\ (2 * s + n) \div (2 * n) <= high
    BY <1>6, <1>8, <2>4, <2>6, <2>7, RoundedBetween
  <2>9. avg(s, n) = (2 * s + n) \div (2 * n)
    BY <1>6, <1>8 DEF avg
  <2>10. avg(s, n) # NoValue
    BY <2>8, <2>9, StatsAssumption
  <2>11. AverageBetween(p)
    BY <1>3, <2>3, <2>8, <2>9, <2>10 DEF AverageBetween
  <2> QED BY <2>11 DEF p
<1> QED BY <1>7, <1>8

\* A day inside the window of days has its hours inside the window of hours.
LEMMA DaysWithinHours ==
  ASSUME hour \in Nat, NEW x \in Nat, DayOf(x) >= FirstDay(WindowDays)
  PROVE  x >= FirstHour(WindowDays * HoursPerDay)
<1> DEFINE H == HoursPerDay
           W == WindowDays
           D == hour \div H
           d == x \div H
<1>1. H \in Nat \ {0} /\ W \in Nat \ {0}
  BY PipelineAssumption, StatsAssumption
<1>2. D \in Nat /\ H * D <= hour /\ hour < H * D + H
  <2> HIDE DEF H
  <2> QED BY <1>1
<1>3. d \in Nat /\ H * d <= x /\ x < H * d + H
  <2> HIDE DEF H
  <2> QED BY <1>1
<1>4. d >= (IF D < W THEN 0 ELSE (D - W) + 1)
  BY DEF DayOf, FirstDay
<1> HIDE DEF H, W, D, d
<1>5. W * H \in Nat
  BY <1>1
<1>6. x >= (IF hour < W * H THEN 0 ELSE (hour - W * H) + 1)
  <2>1. CASE hour < W * H
    BY <2>1
  <2>2. CASE ~(hour < W * H)
    <3>1. H * W < H * (D + 1)
      <4>1. H * W = W * H /\ H * (D + 1) = H * D + H
        BY <1>1, <1>2
      <4>2. H * D \in Nat
        BY <1>1, <1>2
      <4> QED BY <1>1, <1>2, <1>5, <2>2, <4>1, <4>2
    <3>2. W < D + 1
      BY <1>1, <1>2, <3>1, LessByFactor
    <3>3. d + W >= D + 1
      BY <1>1, <1>2, <1>3, <1>4, <3>2
    <3>4. H * (d + W) >= H * (D + 1)
      <4>1. PICK k \in Nat : d + W = (D + 1) + k
        <5>1. (d + W) - (D + 1) \in Nat /\ d + W = (D + 1) + ((d + W) - (D + 1))
          BY <1>1, <1>2, <1>3, <3>3
        <5> QED BY <5>1
      <4>2. H * (d + W) = H * (D + 1) + H * k
        BY <1>1, <1>2, <4>1
      <4>3. H * k \in Nat /\ H * (D + 1) \in Nat
        BY <1>1, <1>2, <4>1
      <4> QED BY <4>2, <4>3
    <3>5. H * (d + W) = H * d + W * H /\ H * (D + 1) = H * D + H
      BY <1>1, <1>2, <1>3
    <3>6. H * d \in Nat /\ H * D \in Nat
      BY <1>1, <1>2, <1>3
    <3> QED BY <1>1, <1>2, <1>3, <1>5, <2>2, <3>4, <3>5, <3>6
  <2> QED BY <2>1, <2>2
<1> QED BY <1>6 DEF FirstHour, H, W

-----------------------------------------------------------------------------
(* What the dashboard reads.                                               *)

\* The row of each rollup table that a check belongs to.
hourCell == [i \in Done |-> <<checks[i].region, checks[i].hour>>]
dayCell == [i \in Done |-> <<checks[i].region, DayOf(checks[i].hour)>>]

LEMMA HourlyTabulates ==
  ASSUME TypeOK, ExactInv
  PROVE  Tabulates(hourly, checks, hourCell, counted.hourly)
<1>1. counted.hourly \subseteq Done /\ Done \subseteq Results /\ \A i \in Done : checks[i] \in Checked
  BY RowsDone
<1>2. counted.hourly \in SUBSET Results
  BY <1>1
<1>3. IsFiniteSet(counted.hourly)
  BY <1>2, ResultsFinite
<1>4. Recorded(checks, counted.hourly)
  BY <1>1 DEF Recorded, Checked
<1>5. DOMAIN hourly = Regions \X Hours
  BY DEF TypeOK
<1>6. \A i \in counted.hourly : hourCell[i] \in DOMAIN hourly
  BY <1>1, <1>5 DEF hourCell, Checked
<1>7. ASSUME NEW b \in DOMAIN hourly
      PROVE  hourly[b] = Statistics(checks, Cells(hourCell, counted.hourly, {b}))
  <2>1. PICK r \in Regions, h \in Hours : b = <<r, h>>
    BY <1>5
  <2>2. hourly[<<r, h>>] = Statistics(checks, AtHour(checks, counted.hourly, r, h))
    BY DEF ExactInv, TablesFaithful
  <2>3. \A i \in counted.hourly : hourCell[i] = <<checks[i].region, checks[i].hour>>
    BY <1>1 DEF hourCell
  <2>4. AtHour(checks, counted.hourly, r, h) = Cells(hourCell, counted.hourly, {b})
    BY <2>1, <2>3 DEF AtHour, Cells
  <2> QED BY <2>1, <2>2, <2>4
<1> QED BY <1>3, <1>4, <1>6, <1>7 DEF Tabulates

LEMMA DailyTabulates ==
  ASSUME TypeOK, ExactInv
  PROVE  Tabulates(daily, checks, dayCell, counted.daily)
<1>1. counted.daily \subseteq Done /\ Done \subseteq Results /\ \A i \in Done : checks[i] \in Checked
  BY RowsDone
<1>2. counted.daily \in SUBSET Results
  BY <1>1
<1>3. IsFiniteSet(counted.daily)
  BY <1>2, ResultsFinite
<1>4. Recorded(checks, counted.daily)
  BY <1>1 DEF Recorded, Checked
<1>5. DOMAIN daily = Regions \X Days
  BY DEF TypeOK
<1>6. \A i \in counted.daily : dayCell[i] \in DOMAIN daily
  <2> TAKE i \in counted.daily
  <2>1. checks[i].region \in Regions /\ checks[i].hour \in Hours
    BY <1>1 DEF Checked
  <2>2. DayOf(checks[i].hour) \in Days
    BY <2>1, DayOfHour
  <2>3. dayCell[i] = <<checks[i].region, DayOf(checks[i].hour)>>
    BY <1>1 DEF dayCell
  <2> QED BY <1>5, <2>1, <2>2, <2>3
<1>7. ASSUME NEW b \in DOMAIN daily
      PROVE  daily[b] = Statistics(checks, Cells(dayCell, counted.daily, {b}))
  <2>1. PICK r \in Regions, d \in Days : b = <<r, d>>
    BY <1>5
  <2>2. daily[<<r, d>>] = Statistics(checks, AtDay(checks, counted.daily, r, d))
    BY DEF ExactInv, TablesFaithful
  <2>3. \A i \in counted.daily : dayCell[i] = <<checks[i].region, DayOf(checks[i].hour)>>
    BY <1>1 DEF dayCell
  <2>4. AtDay(checks, counted.daily, r, d) = Cells(dayCell, counted.daily, {b})
    BY <2>1, <2>3 DEF AtDay, Cells
  <2> QED BY <2>1, <2>2, <2>4
<1> QED BY <1>3, <1>4, <1>6, <1>7 DEF Tabulates

\* What a summary counts.
LEMMA SummaryTotal ==
  ASSUME TypeOK, ExactInv, NEW from
  PROVE  monitorSummary(from).checksTotal = Cardinality(Since(hourCell, counted.hourly, from))
<1> DEFINE d == Sum(hourly, Rows(hourly, from))
<1>1. d = Statistics(checks, Since(hourCell, counted.hourly, from))
  BY HourlyTabulates, SumSince
<1>2. d.checksTotal = Cardinality(Since(hourCell, counted.hourly, from))
  <2> HIDE DEF d
  <2> QED BY <1>1 DEF Statistics
<1>3. monitorSummary(from) = Summary(d)
  BY DEF monitorSummary
<1> HIDE DEF d
<1> QED BY <1>2, <1>3 DEF Summary

LEMMA SinceFinite ==
  ASSUME NEW cell, NEW S, IsFiniteSet(S), NEW from
  PROVE  IsFiniteSet(Since(cell, S, from))
<1>1. Since(cell, S, from) \subseteq S
  BY DEF Since
<1> QED BY <1>1, FS_Subset

\* The daily chart stays inside the window of the summary.
LEMMA DailyWithinSummary ==
  ASSUME TypeOK, ExactInv
  PROVE  TotalOf(series(daily, FirstDay(WindowDays))) <=
           monitorSummary(FirstHour(WindowDays * HoursPerDay)).checksTotal
<1> DEFINE A == Since(dayCell, counted.daily, FirstDay(WindowDays))
           B == Since(hourCell, counted.hourly, FirstHour(WindowDays * HoursPerDay))
<1>1. TotalOf(series(daily, FirstDay(WindowDays))) = Cardinality(A)
  BY DailyTabulates, ChartTotal
<1>2. monitorSummary(FirstHour(WindowDays * HoursPerDay)).checksTotal = Cardinality(B)
  BY SummaryTotal
<1>3. IsFiniteSet(B)
  BY HourlyTabulates, SinceFinite DEF Tabulates
<1>4. A \subseteq B
  <2> SUFFICES ASSUME NEW i \in counted.daily, dayCell[i][2] >= FirstDay(WindowDays) PROVE i \in B
    BY DEF Since
  <2>1. i \in Done /\ i \in counted.hourly /\ checks[i] \in Checked
    BY RowsDone DEF ExactInv, InOrder
  <2>2. dayCell[i][2] = DayOf(checks[i].hour) /\ hourCell[i][2] = checks[i].hour
    BY <2>1 DEF dayCell, hourCell
  <2>3. checks[i].hour \in Nat /\ hour \in Nat
    BY <2>1 DEF Checked, Hours, TypeOK
  <2>4. checks[i].hour >= FirstHour(WindowDays * HoursPerDay)
    BY <2>2, <2>3, DaysWithinHours
  <2> QED BY <2>1, <2>2, <2>4 DEF Since
<1> HIDE DEF A, B
<1>5. Cardinality(A) <= Cardinality(B)
  BY <1>3, <1>4, FS_Subset
<1> QED BY <1>1, <1>2, <1>5

LEMMA BucketsAreHours ==
  ASSUME TypeOK, NEW from PROVE Buckets(hourly, from) \subseteq Nat
<1>1. DOMAIN hourly = Regions \X Hours
  BY DEF TypeOK
<1> QED BY <1>1 DEF Buckets, Rows, Hours

LEMMA BucketLater ==
  ASSUME TypeOK, NEW from \in Nat, NEW other \in Nat, NEW b \in Buckets(hourly, from), b >= other
  PROVE  b \in Buckets(hourly, other)
<1>1. PICK k \in Rows(hourly, from) : b = k[2]
  BY DEF Buckets
<1>2. k \in Rows(hourly, other)
  BY <1>1 DEF Rows
<1> QED BY <1>1, <1>2 DEF Buckets

LEMMA FirstHourType ==
  ASSUME TypeOK, NEW n \in Nat PROVE FirstHour(n) \in Nat
<1>1. hour \in Nat
  BY DEF TypeOK, Hours
<1> QED BY <1>1 DEF FirstHour

LEMMA barsAre ==
  LET all == Buckets(hourly, FirstHour(BarHours))
      shown == {b \in all : Cardinality({c \in all : c > b}) < Bars}
  IN  /\ DOMAIN bars = shown
      /\ \A b \in shown : bars[b] = series(hourly, FirstHour(BarHours))[b].uptime
BY DEF bars

\* The bars are the newest points of the chart.
LEMMA BarsAreNewest ==
  ASSUME TypeOK, ExactInv,
         NEW b \in Buckets(hourly, FirstHour(HoursPerDay)), NEW x \in DOMAIN bars
  PROVE  /\ b > x => b \in DOMAIN bars
         /\ b = x => bars[x] = series(hourly, FirstHour(HoursPerDay))[b].uptime
<1> DEFINE f == FirstHour(HoursPerDay)
           g == FirstHour(BarHours)
           all == Buckets(hourly, g)
           newer(y) == {z \in all : z > y}
           t == hourly
<1>1. f \in Nat /\ g \in Nat
  BY FirstHourType, PipelineAssumption, StatsAssumption
<1>2. x \in all /\ Cardinality(newer(x)) < Bars /\ bars[x] = series(hourly, g)[x].uptime
  BY barsAre
<1>3. \A y \in all : Cardinality(newer(y)) < Bars => y \in DOMAIN bars
  BY barsAre
<1>4. x \in Nat /\ b \in Nat /\ x >= g /\ b \in Buckets(hourly, f)
  <2>1. x >= g
    BY <1>2 DEF Buckets, Rows
  <2> QED BY <1>2, <2>1, BucketsAreHours
<1>5. IsFiniteSet(all)
  BY HourlyTabulates, BucketsFinite
<1>6. ASSUME b > x PROVE b \in DOMAIN bars
  <2>1. b \in all
    <3> HIDE DEF f, g
    <3> QED BY <1>1, <1>4, <1>6, BucketLater
  <2>2. all \subseteq Nat
    BY BucketsAreHours
  <2>3. newer(b) \subseteq newer(x)
    BY <1>4, <1>6, <2>2
  <2>4. newer(b) \subseteq all /\ newer(x) \subseteq all
    OBVIOUS
  <2> HIDE DEF newer, all
  <2>5. IsFiniteSet(newer(b)) /\ IsFiniteSet(newer(x)) /\ Cardinality(newer(b)) <= Cardinality(newer(x))
    BY <1>5, <2>3, <2>4, FS_Subset
  <2>6. Cardinality(newer(b)) \in Nat /\ Cardinality(newer(x)) \in Nat /\ Bars \in Nat
    BY <2>5, FS_CardinalityType, StatsAssumption
  <2> QED BY <1>2, <1>3, <2>1, <2>5, <2>6
<1>7. ASSUME b = x PROVE bars[x] = series(hourly, f)[b].uptime
  <2>1. series(hourly, f)[b] = Summary(Statistics(checks, OfBucket(hourCell, counted.hourly, b)))
    BY HourlyTabulates, SeriesIs
  <2>2. series(hourly, g)[x] = Summary(Statistics(checks, OfBucket(hourCell, counted.hourly, x)))
    BY <1>2, HourlyTabulates, SeriesIs
  <2> HIDE DEF f, g
  <2> QED BY <1>2, <1>7, <2>1, <2>2
<1> QED BY <1>6, <1>7

\* As many checks as the newest points count are on the list of recent ones.
LEMMA RecentEnough ==
  ASSUME TypeOK, ExactInv, NEW h \in Nat, NEW S \in recentChecks
  PROVE  Cardinality({i \in S : checks[i].hour >= h}) >=
           Lesser(RecentLimit, TotalOf(series(hourly, h)))
<1> DEFINE stored == {i \in Done : raw[i] > 0}
           A == Since(hourCell, counted.hourly, h)
           R == {i \in S : checks[i].hour >= h}
<1>1. TotalOf(series(hourly, h)) = Cardinality(A)
  BY HourlyTabulates, ChartTotal
<1>2. /\ S \in SUBSET stored /\ Cardinality(S) = Lesser(RecentLimit, Cardinality(stored))
      /\ \A i \in S, j \in stored \ S : checks[i].hour >= checks[j].hour
  BY DEF recentChecks
<1>3. Done \subseteq Results /\ \A i \in Done : checks[i] \in Checked
  BY RowsDone
<1>4. \A i \in Done : checks[i].hour \in Nat
  BY <1>3 DEF Checked, Hours
<1>5. stored \in SUBSET Results /\ stored \subseteq Done
  BY <1>3
<1>6. A \subseteq stored /\ \A i \in A : checks[i].hour >= h
  <2>1. \A i \in counted.hourly : i \in Done /\ raw[i] = 1
    BY RowsDone DEF ExactInv, InOrder
  <2>2. \A i \in counted.hourly : hourCell[i][2] = checks[i].hour
    BY <2>1 DEF hourCell
  <2>3. \A i \in counted.hourly : i \in stored
    BY <2>1
  <2> HIDE DEF stored
  <2> QED BY <2>2, <2>3 DEF Since
<1> HIDE DEF stored, A
<1>7. R \subseteq stored
  BY <1>2
<1>8. IsFiniteSet(stored) /\ IsFiniteSet(R) /\ IsFiniteSet(A)
  BY <1>5, <1>6, <1>7, ResultsFinite, FS_Subset
<1>9. /\ Cardinality(stored) \in Nat /\ Cardinality(R) \in Nat /\ Cardinality(A) \in Nat
      /\ Cardinality(A) <= Cardinality(stored) /\ RecentLimit \in Nat
  BY <1>6, <1>8, FS_CardinalityType, FS_Subset, StatsAssumption
<1>10. CASE \A i \in S : checks[i].hour >= h
  <2>1. R = S
    BY <1>10
  <2>2. Cardinality(R) = Lesser(RecentLimit, Cardinality(stored))
    BY <1>2, <2>1
  <2> HIDE DEF R
  <2>3. Cardinality(R) >= Lesser(RecentLimit, Cardinality(A))
    BY <1>9, <2>2 DEF Lesser
  <2> QED BY <1>1, <2>3 DEF R
<1>11. CASE ~ \A i \in S : checks[i].hour >= h
  <2>1. PICK i \in S : ~(checks[i].hour >= h)
    BY <1>11
  <2>2. A \subseteq R
    <3> SUFFICES ASSUME NEW j \in A, j \notin S PROVE FALSE
      BY <1>6
    <3>1. j \in stored \ S /\ checks[j].hour >= h
      BY <1>6
    <3>2. checks[i].hour >= checks[j].hour
      BY <1>2, <3>1
    <3>3. checks[i].hour \in Nat /\ checks[j].hour \in Nat
      BY <1>2, <1>4, <1>5, <3>1
    <3> QED BY <2>1, <3>1, <3>2, <3>3
  <2> HIDE DEF R
  <2>3. Cardinality(A) <= Cardinality(R)
    BY <1>8, <2>2, FS_Subset
  <2>4. Cardinality(R) >= Lesser(RecentLimit, Cardinality(A))
    BY <1>9, <2>3 DEF Lesser
  <2> QED BY <1>1, <2>4 DEF R
<1> QED BY <1>10, <1>11

LEMMA PointsAreSound ==
  ASSUME NEW t, NEW c, NEW cell, NEW S, Tabulates(t, c, cell, S), NEW from, NEW b \in DOMAIN series(t, from)
  PROVE  AverageBetween(series(t, from)[b])
<1>1. b \in Buckets(t, from)
  BY SeriesIs
<1>2. series(t, from)[b] = Summary(Statistics(c, OfBucket(cell, S, b)))
  BY <1>1, SeriesIs
<1>3. OfBucket(cell, S, b) \subseteq S
  BY DEF OfBucket
<1>4. IsFiniteSet(OfBucket(cell, S, b)) /\ Recorded(c, OfBucket(cell, S, b))
  BY <1>3, FS_Subset DEF Tabulates, Recorded
<1> QED BY <1>2, <1>4, PointIsSound

LEMMA ChartFollows == TypeOK /\ ExactInv => ChartWithinSummary
<1> SUFFICES ASSUME TypeOK, ExactInv PROVE ChartWithinSummary
  OBVIOUS
<1>1. TotalOf(series(hourly, FirstHour(HoursPerDay))) =
        monitorSummary(FirstHour(HoursPerDay)).checksTotal
  BY HourlyTabulates, ChartTotal, SummaryTotal
<1>2. TotalOf(series(daily, FirstDay(WindowDays))) <=
        monitorSummary(FirstHour(WindowDays * HoursPerDay)).checksTotal
  BY DailyWithinSummary
<1>3. LET chart == series(hourly, FirstHour(HoursPerDay)) IN
        \A b \in DOMAIN chart : \A c \in DOMAIN bars :
          /\ b > c => b \in DOMAIN bars
          /\ b = c => bars[c] = chart[b].uptime
  <2>1. DOMAIN series(hourly, FirstHour(HoursPerDay)) = Buckets(hourly, FirstHour(HoursPerDay))
    BY DEF series
  <2> QED BY <2>1, BarsAreNewest
<1>4. LET day == monitorSummary(FirstHour(HoursPerDay)) IN
        /\ uptime24h = day.uptime
        /\ workspaceInsights = [uptime |-> day.uptime, avgLatencyMs |-> day.avgLatencyMs]
  <2> DEFINE s == Sum(hourly, Rows(hourly, FirstHour(HoursPerDay)))
  <2>1. /\ uptime24h = ratio(s.checksUp, s.checksTotal)
        /\ workspaceInsights = [uptime |-> ratio(s.checksUp, s.checksTotal),
                                avgLatencyMs |-> avg(s.latencySum, s.latencyCount)]
        /\ monitorSummary(FirstHour(HoursPerDay)) = Summary(s)
    BY DEF uptime24h, workspaceInsights, monitorSummary
  <2> HIDE DEF s
  <2> QED BY <2>1 DEF Summary
<1>5. \A h \in Buckets(hourly, 0), S \in recentChecks :
        Cardinality({i \in S : checks[i].hour >= h}) >=
          Lesser(RecentLimit, TotalOf(series(hourly, h)))
  BY BucketsAreHours, RecentEnough
<1>6. ASSUME NEW table \in {hourly, daily}, NEW b \in DOMAIN series(table, 0)
      PROVE  AverageBetween(series(table, 0)[b])
  <2>1. CASE table = hourly
    BY <2>1, HourlyTabulates, PointsAreSound
  <2>2. CASE table = daily
    BY <2>2, DailyTabulates, PointsAreSound
  <2> QED BY <2>1, <2>2
<1>7. \A table \in {hourly, daily} : LET points == series(table, 0) IN
       \A b \in DOMAIN points : LET p == points[b] IN
         IF p.avgLatencyMs = NoValue THEN p.minLatencyMs = NoLatency /\ p.maxLatencyMs = NoLatency
         ELSE p.minLatencyMs <= p.avgLatencyMs /\ p.avgLatencyMs <= p.maxLatencyMs
  BY <1>6 DEF AverageBetween
<1> QED BY <1>1, <1>2, <1>3, <1>4, <1>5, <1>7 DEF ChartWithinSummary

\* What the dashboard shows of a monitor agrees with itself, for every history and windows of
\* every length: charts, summaries, bars and recent checks, which are read from three tables by
\* statements of their own (StatsRepository, CheckResultRepository).
THEOREM ChartsAgree == Spec => []ChartWithinSummary
BY PipelineInvariant, ChartFollows, PTL
-----------------------------------------------------------------------------
(* Assertions.                                                             *)

\* How deep the assertions are nested.
IsDepth(depth) ==
  /\ depth \in [Trees -> 0..Nesting]
  /\ \A tree \in Trees :
       tree.logic # "rule" => \A rule \in tree.rules : rule \in Trees /\ depth[rule] < depth[tree]

LEMMA DepthExists == Nesting \in Nat /\ \E depth : IsDepth(depth)
<1>1. Nesting \in Nat /\ IsDepth(Depth)
  BY ProbesAssumption DEF IsDepth
<1> QED BY <1>1

\* What is inherited by groups from their rules holds of all assertions.
LEMMA FromRules ==
  ASSUME NEW T, \A tree \in Trees : (tree.logic # "rule" => \A rule \in tree.rules : rule \in T) => tree \in T
  PROVE  \A tree \in Trees : tree \in T
<1>1. PICK depth : IsDepth(depth)
  BY DepthExists
<1> DEFINE N == {n \in 0..Nesting : \A tree \in Trees : depth[tree] <= n => tree \in T}
<1>2. Nesting \in Nat /\ \A tree \in Trees : depth[tree] \in 0..Nesting
  BY <1>1, DepthExists DEF IsDepth
<1>3. 0 \in N
  <2> SUFFICES ASSUME NEW tree \in Trees, depth[tree] <= 0 PROVE tree \in T
    BY <1>2
  <2>1. tree.logic # "rule" => \A rule \in tree.rules : rule \in T
    <3> SUFFICES ASSUME tree.logic # "rule", NEW rule \in tree.rules PROVE FALSE
      OBVIOUS
    <3>1. rule \in Trees /\ depth[rule] < depth[tree]
      BY <1>1 DEF IsDepth
    <3> QED BY <1>2, <3>1
  <2> QED BY <2>1
<1>4. ASSUME NEW n \in 0..Nesting, n \in N, n < Nesting
      PROVE  n + 1 \in N
  <2> SUFFICES ASSUME NEW tree \in Trees, depth[tree] <= n + 1 PROVE tree \in T
    BY <1>2, <1>4
  <2>1. tree.logic # "rule" => \A rule \in tree.rules : rule \in T
    <3> SUFFICES ASSUME tree.logic # "rule", NEW rule \in tree.rules PROVE rule \in T
      OBVIOUS
    <3>1. rule \in Trees /\ depth[rule] < depth[tree]
      BY <1>1 DEF IsDepth
    <3>2. depth[rule] <= n
      BY <1>2, <3>1
    <3> QED BY <1>4, <3>1, <3>2
  <2> QED BY <2>1
<1> HIDE DEF N
<1>5. Nesting \in N
  BY <1>2, <1>3, <1>4, Counts
<1> QED BY <1>2, <1>5 DEF N

\* A value of groups that depends on the values of their rules only: it is there for some depth.
LEMMA SourcesStep ==
  \A tree \in Trees : Sources[tree] =
    IF tree.logic = "rule" THEN {tree.source} ELSE UNION {Sources[rule] : rule \in tree.rules}
<1> DEFINE Of(f, tree) == IF tree.logic = "rule" THEN {tree.source} ELSE UNION {f[rule] : rule \in tree.rules}
           S(f) == [tree \in Trees |-> Of(f, tree)]
<1>1. PICK depth : IsDepth(depth)
  BY DepthExists
<1> DEFINE N == {n \in 0..Nesting : \E f : \A tree \in Trees : depth[tree] <= n => f[tree] = Of(f, tree)}
<1>2. Nesting \in Nat /\ \A tree \in Trees : depth[tree] \in 0..Nesting
  BY <1>1, DepthExists DEF IsDepth
<1>a. \A tree \in Trees : tree.logic # "rule" => \A rule \in tree.rules : rule \in Trees /\ depth[rule] < depth[tree]
  BY <1>1 DEF IsDepth
<1>3. ASSUME NEW f, NEW n \in Int, \A tree \in Trees : depth[tree] <= n => f[tree] = Of(f, tree)
      PROVE  \A tree \in Trees : depth[tree] <= n + 1 => S(f)[tree] = Of(S(f), tree)
  <2> TAKE tree \in Trees
  <2> HAVE depth[tree] <= n + 1
  <2>1. S(f)[tree] = Of(f, tree)
    OBVIOUS
  <2>2. CASE tree.logic = "rule"
    BY <2>1, <2>2
  <2>3. CASE tree.logic # "rule"
    <3>1. \A rule \in tree.rules : rule \in Trees /\ depth[rule] <= n
      BY <1>2, <1>a, <2>3
    <3>2. \A rule \in tree.rules : S(f)[rule] = f[rule]
      <4> TAKE rule \in tree.rules
      <4>1. S(f)[rule] = Of(f, rule)
        BY <3>1
      <4>2. f[rule] = Of(f, rule)
        BY <1>3, <3>1
      <4> QED BY <4>1, <4>2
    <3> DEFINE g == S(f)
    <3>3. \A rule \in tree.rules : g[rule] = f[rule]
      BY <3>2
    <3> HIDE DEF g
    <3>4. Of(g, tree) = Of(f, tree)
      BY <2>3, <3>3
    <3> QED BY <2>1, <3>4 DEF g
  <2> QED BY <2>2, <2>3
<1>4. 0 \in N
  <2> DEFINE e == [tree \in Trees |-> {}]
  <2>1. \A tree \in Trees : depth[tree] <= -1 => e[tree] = Of(e, tree)
    BY <1>2
  <2> HIDE DEF e, S, Of
  <2>2. \A tree \in Trees : depth[tree] <= (-1) + 1 => S(e)[tree] = Of(S(e), tree)
    BY <1>3, <2>1
  <2>3. \A tree \in Trees : depth[tree] <= 0 => S(e)[tree] = Of(S(e), tree)
    BY <2>2
  <2> QED BY <1>2, <2>3
<1>5. ASSUME NEW n \in 0..Nesting, n \in N, n < Nesting
      PROVE  n + 1 \in N
  <2>1. PICK f : \A tree \in Trees : depth[tree] <= n => f[tree] = Of(f, tree)
    BY <1>5
  <2> HIDE DEF S, Of
  <2>2. \A tree \in Trees : depth[tree] <= n + 1 => S(f)[tree] = Of(S(f), tree)
    BY <1>3, <2>1
  <2> QED BY <1>2, <1>5, <2>2
<1> HIDE DEF N
<1>6. Nesting \in N
  BY <1>2, <1>4, <1>5, Counts
<1>7. PICK f : \A tree \in Trees : depth[tree] <= Nesting => f[tree] = Of(f, tree)
  BY <1>6 DEF N
<1>8. \A tree \in Trees : f[tree] = Of(f, tree)
  <2> HIDE DEF Of
  <2> QED BY <1>2, <1>7
<1>9. S(f) = S(S(f))
  <2>1. ASSUME NEW tree \in Trees PROVE Of(S(f), tree) = Of(f, tree)
    <3> DEFINE g == S(f)
    <3>1. \A rule \in Trees : g[rule] = f[rule]
      BY <1>8
    <3> HIDE DEF g
    <3>2. Of(g, tree) = Of(f, tree)
      BY <1>a, <3>1
    <3> QED BY <3>2 DEF g
  <2> HIDE DEF Of
  <2> QED BY <2>1
<1>10. Sources = CHOOSE g : g = S(g)
  BY DEF Sources
<1> HIDE DEF S
<1>11. Sources = S(Sources)
  BY <1>9, <1>10
<1> QED BY <1>11 DEF S

\* The same for the value of assertions.
Holds(response, read) ==
  [tree \in Trees |-> evaluateAssertions(tree, response, read)]
Rule(rule, response, read) == applyOperator(rule.op, actualValue(rule, response, read), rule.value)

LEMMA HoldsStep ==
  ASSUME NEW response, NEW read
  PROVE  \A tree \in Trees : evaluateAssertions(tree, response, read) =
           IF tree.logic = "rule" THEN Rule(tree, response, read)
           ELSE IF tree.logic = "and" THEN \A rule \in tree.rules : evaluateAssertions(rule, response, read)
           ELSE \E rule \in tree.rules : evaluateAssertions(rule, response, read)
<1> DEFINE Of(f, tree) == IF tree.logic = "rule" THEN Rule(tree, response, read)
                           ELSE IF tree.logic = "and" THEN \A rule \in tree.rules : f[rule]
                           ELSE \E rule \in tree.rules : f[rule]
           S(f) == [tree \in Trees |-> Of(f, tree)]
<1>1. PICK depth : IsDepth(depth)
  BY DepthExists
<1> DEFINE N == {n \in 0..Nesting : \E f : \A tree \in Trees : depth[tree] <= n => f[tree] = Of(f, tree)}
<1>2. Nesting \in Nat /\ \A tree \in Trees : depth[tree] \in 0..Nesting
  BY <1>1, DepthExists DEF IsDepth
<1>a. \A tree \in Trees : tree.logic # "rule" => \A rule \in tree.rules : rule \in Trees /\ depth[rule] < depth[tree]
  BY <1>1 DEF IsDepth
<1>3. ASSUME NEW f, NEW n \in Int, \A tree \in Trees : depth[tree] <= n => f[tree] = Of(f, tree)
      PROVE  \A tree \in Trees : depth[tree] <= n + 1 => S(f)[tree] = Of(S(f), tree)
  <2> TAKE tree \in Trees
  <2> HAVE depth[tree] <= n + 1
  <2>1. S(f)[tree] = Of(f, tree)
    OBVIOUS
  <2>2. CASE tree.logic = "rule"
    BY <2>1, <2>2
  <2>3. CASE tree.logic # "rule"
    <3>1. \A rule \in tree.rules : rule \in Trees /\ depth[rule] <= n
      BY <1>2, <1>a, <2>3
    <3>2. \A rule \in tree.rules : S(f)[rule] = f[rule]
      <4> TAKE rule \in tree.rules
      <4>1. S(f)[rule] = Of(f, rule)
        BY <3>1
      <4>2. f[rule] = Of(f, rule)
        BY <1>3, <3>1
      <4> QED BY <4>1, <4>2
    <3> DEFINE g == S(f)
    <3>3. \A rule \in tree.rules : g[rule] = f[rule]
      BY <3>2
    <3> HIDE DEF g
    <3>4. Of(g, tree) = Of(f, tree)
      BY <2>3, <3>3
    <3> QED BY <2>1, <3>4 DEF g
  <2> QED BY <2>2, <2>3
<1>4. 0 \in N
  <2> DEFINE e == [tree \in Trees |-> FALSE]
  <2>1. \A tree \in Trees : depth[tree] <= -1 => e[tree] = Of(e, tree)
    BY <1>2
  <2> HIDE DEF e, S, Of
  <2>2. \A tree \in Trees : depth[tree] <= (-1) + 1 => S(e)[tree] = Of(S(e), tree)
    BY <1>3, <2>1
  <2>3. \A tree \in Trees : depth[tree] <= 0 => S(e)[tree] = Of(S(e), tree)
    BY <2>2
  <2> QED BY <1>2, <2>3
<1>5. ASSUME NEW n \in 0..Nesting, n \in N, n < Nesting
      PROVE  n + 1 \in N
  <2>1. PICK f : \A tree \in Trees : depth[tree] <= n => f[tree] = Of(f, tree)
    BY <1>5
  <2> HIDE DEF S, Of
  <2>2. \A tree \in Trees : depth[tree] <= n + 1 => S(f)[tree] = Of(S(f), tree)
    BY <1>3, <2>1
  <2> QED BY <1>2, <1>5, <2>2
<1> HIDE DEF N
<1>6. Nesting \in N
  BY <1>2, <1>4, <1>5, Counts
<1>7. PICK f : \A tree \in Trees : depth[tree] <= Nesting => f[tree] = Of(f, tree)
  BY <1>6 DEF N
<1>8. \A tree \in Trees : f[tree] = Of(f, tree)
  <2> HIDE DEF Of
  <2> QED BY <1>2, <1>7
<1>9. S(f) = S(S(f))
  <2>1. ASSUME NEW tree \in Trees PROVE Of(S(f), tree) = Of(f, tree)
    <3> DEFINE g == S(f)
    <3>1. \A rule \in Trees : g[rule] = f[rule]
      BY <1>8
    <3> HIDE DEF g
    <3>2. Of(g, tree) = Of(f, tree)
      BY <1>a, <3>1
    <3> QED BY <3>2 DEF g
  <2> HIDE DEF Of
  <2> QED BY <2>1
<1> DEFINE holds == CHOOSE g : g = S(g)
<1>10. \A tree : evaluateAssertions(tree, response, read) = holds[tree]
  BY DEF evaluateAssertions, Rule
<1> HIDE DEF holds
<1>11. holds = S(holds)
  <2> HIDE DEF S
  <2> QED BY <1>9 DEF holds
<1>12. \A tree \in Trees : holds[tree] = Of(holds, tree)
  <2> HIDE DEF Of
  <2> QED BY <1>11
<1> QED BY <1>10, <1>12

LEMMA WaysStep ==
  \A tree \in Trees : Ways[tree] =
    IF tree.logic = "rule" THEN {{tree}}
    ELSE LET all == UNION {Ways[rule] : rule \in tree.rules}
             picks == {f \in [tree.rules -> all] : \A rule \in tree.rules : f[rule] \in Ways[rule]}
         IN IF tree.logic = "and" THEN {UNION {f[rule] : rule \in tree.rules} : f \in picks} ELSE all
<1> DEFINE Of(f, tree) ==
             IF tree.logic = "rule" THEN {{tree}}
             ELSE LET all == UNION {f[rule] : rule \in tree.rules}
                      picks == {p \in [tree.rules -> all] : \A rule \in tree.rules : p[rule] \in f[rule]}
                  IN IF tree.logic = "and" THEN {UNION {p[rule] : rule \in tree.rules} : p \in picks} ELSE all
           S(f) == [tree \in Trees |-> Of(f, tree)]
<1>b. ASSUME NEW tree, NEW f, NEW g, \A rule \in tree.rules : g[rule] = f[rule]
      PROVE  Of(g, tree) = Of(f, tree)
  <2> DEFINE all(e) == UNION {e[rule] : rule \in tree.rules}
             picks(e) == {p \in [tree.rules -> all(e)] : \A rule \in tree.rules : p[rule] \in e[rule]}
             both(e) == {UNION {p[rule] : rule \in tree.rules} : p \in picks(e)}
  <2>1. all(g) = all(f)
    BY <1>b
  <2>2. picks(g) = picks(f)
    <3> HIDE DEF all
    <3> QED BY <1>b, <2>1
  <2>3. both(g) = both(f)
    <3> HIDE DEF picks
    <3> QED BY <2>2
  <2>4. \A e : Of(e, tree) = IF tree.logic = "rule" THEN {{tree}} ELSE IF tree.logic = "and" THEN both(e) ELSE all(e)
    OBVIOUS
  <2> HIDE DEF all, both, Of
  <2> QED BY <2>1, <2>3, <2>4
<1>1. PICK depth : IsDepth(depth)
  BY DepthExists
<1> DEFINE N == {n \in 0..Nesting : \E f : \A tree \in Trees : depth[tree] <= n => f[tree] = Of(f, tree)}
<1>2. Nesting \in Nat /\ \A tree \in Trees : depth[tree] \in 0..Nesting
  BY <1>1, DepthExists DEF IsDepth
<1>a. \A tree \in Trees : tree.logic # "rule" => \A rule \in tree.rules : rule \in Trees /\ depth[rule] < depth[tree]
  BY <1>1 DEF IsDepth
<1>3. ASSUME NEW f, NEW n \in Int, \A tree \in Trees : depth[tree] <= n => f[tree] = Of(f, tree)
      PROVE  \A tree \in Trees : depth[tree] <= n + 1 => S(f)[tree] = Of(S(f), tree)
  <2> TAKE tree \in Trees
  <2> HAVE depth[tree] <= n + 1
  <2>1. S(f)[tree] = Of(f, tree)
    OBVIOUS
  <2>2. CASE tree.logic = "rule"
    BY <2>1, <2>2
  <2>3. CASE tree.logic # "rule"
    <3>1. \A rule \in tree.rules : rule \in Trees /\ depth[rule] <= n
      BY <1>2, <1>a, <2>3
    <3>2. \A rule \in tree.rules : S(f)[rule] = f[rule]
      <4> TAKE rule \in tree.rules
      <4>1. S(f)[rule] = Of(f, rule)
        BY <3>1
      <4>2. f[rule] = Of(f, rule)
        BY <1>3, <3>1
      <4> QED BY <4>1, <4>2
    <3> DEFINE g == S(f)
    <3>3. \A rule \in tree.rules : g[rule] = f[rule]
      BY <3>2
    <3> HIDE DEF g
    <3>4. Of(g, tree) = Of(f, tree)
      <4> HIDE DEF Of
      <4> QED BY <1>b, <3>3
    <3> QED BY <2>1, <3>4 DEF g
  <2> QED BY <2>2, <2>3
<1>4. 0 \in N
  <2> DEFINE e == [tree \in Trees |-> {}]
  <2>1. \A tree \in Trees : depth[tree] <= -1 => e[tree] = Of(e, tree)
    BY <1>2
  <2> HIDE DEF e, S, Of
  <2>2. \A tree \in Trees : depth[tree] <= (-1) + 1 => S(e)[tree] = Of(S(e), tree)
    BY <1>3, <2>1
  <2>3. \A tree \in Trees : depth[tree] <= 0 => S(e)[tree] = Of(S(e), tree)
    BY <2>2
  <2> QED BY <1>2, <2>3
<1>5. ASSUME NEW n \in 0..Nesting, n \in N, n < Nesting
      PROVE  n + 1 \in N
  <2>1. PICK f : \A tree \in Trees : depth[tree] <= n => f[tree] = Of(f, tree)
    BY <1>5
  <2> HIDE DEF S, Of
  <2>2. \A tree \in Trees : depth[tree] <= n + 1 => S(f)[tree] = Of(S(f), tree)
    BY <1>3, <2>1
  <2> QED BY <1>2, <1>5, <2>2
<1> HIDE DEF N
<1>6. Nesting \in N
  BY <1>2, <1>4, <1>5, Counts
<1>7. PICK f : \A tree \in Trees : depth[tree] <= Nesting => f[tree] = Of(f, tree)
  BY <1>6 DEF N
<1>8. \A tree \in Trees : f[tree] = Of(f, tree)
  <2> HIDE DEF Of
  <2> QED BY <1>2, <1>7
<1>9. S(f) = S(S(f))
  <2>1. ASSUME NEW tree \in Trees PROVE Of(S(f), tree) = Of(f, tree)
    <3> DEFINE g == S(f)
    <3>1. \A rule \in Trees : g[rule] = f[rule]
      BY <1>8
    <3> HIDE DEF g
    <3>2. Of(g, tree) = Of(f, tree)
      <4>1. CASE tree.logic = "rule"
        BY <4>1
      <4>2. CASE tree.logic # "rule"
        <5>1. \A rule \in tree.rules : g[rule] = f[rule]
          BY <1>a, <3>1, <4>2
        <5> HIDE DEF Of
        <5> QED BY <1>b, <5>1
      <4> QED BY <4>1, <4>2
    <3> QED BY <3>2 DEF g
  <2> HIDE DEF Of
  <2> QED BY <2>1
<1>10. Ways = CHOOSE g : g = S(g)
  BY DEF Ways
<1> HIDE DEF S
<1>11. Ways = S(Ways)
  BY <1>9, <1>10
<1> QED BY <1>11 DEF S

LEMMA HoldsOfRule ==
  ASSUME NEW tree \in Trees, tree.logic = "rule", NEW response, NEW read
  PROVE  evaluateAssertions(tree, response, read) <=> Rule(tree, response, read)
<1>1. evaluateAssertions(tree, response, read) =
           IF tree.logic = "rule" THEN Rule(tree, response, read)
           ELSE IF tree.logic = "and" THEN \A rule \in tree.rules : evaluateAssertions(rule, response, read)
           ELSE \E rule \in tree.rules : evaluateAssertions(rule, response, read)
  BY HoldsStep
<1> QED BY <1>1

LEMMA HoldsOfBoth ==
  ASSUME NEW tree \in Trees, tree.logic = "and", NEW response, NEW read
  PROVE  evaluateAssertions(tree, response, read) <=>
           \A rule \in tree.rules : evaluateAssertions(rule, response, read)
<1>1. evaluateAssertions(tree, response, read) =
           IF tree.logic = "rule" THEN Rule(tree, response, read)
           ELSE IF tree.logic = "and" THEN \A rule \in tree.rules : evaluateAssertions(rule, response, read)
           ELSE \E rule \in tree.rules : evaluateAssertions(rule, response, read)
  BY HoldsStep
<1> QED BY <1>1

LEMMA HoldsOfEither ==
  ASSUME NEW tree \in Trees, tree.logic = "or", NEW response, NEW read
  PROVE  evaluateAssertions(tree, response, read) <=>
           \E rule \in tree.rules : evaluateAssertions(rule, response, read)
<1>1. evaluateAssertions(tree, response, read) =
           IF tree.logic = "rule" THEN Rule(tree, response, read)
           ELSE IF tree.logic = "and" THEN \A rule \in tree.rules : evaluateAssertions(rule, response, read)
           ELSE \E rule \in tree.rules : evaluateAssertions(rule, response, read)
  BY HoldsStep
<1> QED BY <1>1

LEMMA TreeCases ==
  ASSUME NEW tree \in Trees
  PROVE  /\ tree.logic \in {"rule", "and", "or"}
         /\ tree.logic = "rule" => /\ tree.source \in ASSERTION_SOURCES /\ tree.op \in ASSERTION_OPERATORS
                                  /\ tree.path \in Paths \cup {None} /\ tree.value \in Value
         /\ tree.logic # "rule" => tree.rules \subseteq Trees
BY ProbesAssumption

\* Assertions that do not look at the body hold or fail without it.
LEMMA BodyNotNeeded ==
  ASSUME NEW response
  PROVE  \A tree \in Trees : ~assertionsNeedBody(tree) =>
           (evaluateAssertions(tree, response, FALSE) <=> evaluateAssertions(tree, response, TRUE))
<1> DEFINE Blind(tree) == Sources[tree] \cap {"body", "json"} = {}
           T == {tree \in Trees : Blind(tree) =>
                  (evaluateAssertions(tree, response, FALSE) <=> evaluateAssertions(tree, response, TRUE))}
<1>1. ASSUME NEW tree \in Trees, tree.logic # "rule" => \A rule \in tree.rules : rule \in T
      PROVE  tree \in T
  <2> SUFFICES ASSUME Blind(tree)
               PROVE  evaluateAssertions(tree, response, FALSE) <=> evaluateAssertions(tree, response, TRUE)
    OBVIOUS
  <2>1. CASE tree.logic = "rule"
    <3>1. Sources[tree] = {tree.source}
      BY <2>1, SourcesStep
    <3>2. tree.source \in {"status", "response_time", "header"}
      BY <2>1, <3>1, TreeCases DEF ASSERTION_SOURCES
    <3>3. actualValue(tree, response, FALSE) = actualValue(tree, response, TRUE)
      BY <3>2 DEF actualValue
    <3>4. Rule(tree, response, FALSE) = Rule(tree, response, TRUE)
      BY <3>3 DEF Rule
    <3> HIDE DEF Blind, T
    <3> QED BY <2>1, <3>4, HoldsOfRule
  <2>2. CASE tree.logic # "rule"
    <3>1. Sources[tree] = UNION {Sources[rule] : rule \in tree.rules}
      BY <2>2, SourcesStep
    <3>2. \A rule \in tree.rules : Blind(rule)
      BY <3>1
    <3>3. \A rule \in tree.rules :
            evaluateAssertions(rule, response, FALSE) <=> evaluateAssertions(rule, response, TRUE)
      BY <1>1, <2>2, <3>2
    <3>4. CASE tree.logic = "and"
      <4> HIDE DEF Blind, T
      <4> QED BY <3>3, <3>4, HoldsOfBoth
    <3>5. CASE tree.logic = "or"
      <4> HIDE DEF Blind, T
      <4> QED BY <3>3, <3>5, HoldsOfEither
    <3> QED BY <2>2, <3>4, <3>5, TreeCases
  <2> QED BY <2>1, <2>2
<1> HIDE DEF T
<1>2. \A tree \in Trees : tree \in T
  BY <1>1, FromRules
<1> QED BY <1>2 DEF T, assertionsNeedBody

\* Assertions hold when all rules of one of their ways do.
LEMMA WaysAreRight ==
  ASSUME NEW response, NEW read
  PROVE  \A tree \in Trees : evaluateAssertions(tree, response, read) <=>
           \E way \in Ways[tree] : \A rule \in way : Rule(rule, response, read)
<1> DEFINE Fine(way) == \A rule \in way : Rule(rule, response, read)
           T == {tree \in Trees :
                  evaluateAssertions(tree, response, read) <=> \E way \in Ways[tree] : Fine(way)}
<1>1. ASSUME NEW tree \in Trees, tree.logic # "rule" => \A rule \in tree.rules : rule \in T
      PROVE  tree \in T
  <2> SUFFICES evaluateAssertions(tree, response, read) <=> \E way \in Ways[tree] : Fine(way)
    OBVIOUS
  <2> DEFINE all == UNION {Ways[rule] : rule \in tree.rules}
             picks == {f \in [tree.rules -> all] : \A rule \in tree.rules : f[rule] \in Ways[rule]}
  <2>1. CASE tree.logic = "rule"
    <3>1. Ways[tree] = {{tree}}
      BY <2>1, WaysStep
    <3>2. (\E way \in Ways[tree] : Fine(way)) <=> Rule(tree, response, read)
      BY <3>1
    <3> HIDE DEF Fine, T
    <3> QED BY <2>1, <3>2, HoldsOfRule
  <2>2. CASE tree.logic = "or"
    <3>1. Ways[tree] = all
      BY <2>2, WaysStep
    <3>2. \A rule \in tree.rules :
            evaluateAssertions(rule, response, read) <=> \E way \in Ways[rule] : Fine(way)
      BY <1>1, <2>2
    <3> HIDE DEF Fine, T
    <3>3. (\E way \in all : Fine(way)) <=> \E rule \in tree.rules : \E way \in Ways[rule] : Fine(way)
      OBVIOUS
    <3> HIDE DEF all
    <3> QED BY <2>2, <3>1, <3>2, <3>3, HoldsOfEither
  <2>3. CASE tree.logic = "and"
    <3>1. Ways[tree] = {UNION {f[rule] : rule \in tree.rules} : f \in picks}
      BY <2>3, WaysStep
    <3>2. \A rule \in tree.rules :
            evaluateAssertions(rule, response, read) <=> \E way \in Ways[rule] : Fine(way)
      BY <1>1, <2>3
    <3>3. ASSUME NEW way \in Ways[tree], Fine(way), NEW rule \in tree.rules
          PROVE  \E part \in Ways[rule] : Fine(part)
      <4>1. PICK f \in picks : way = UNION {f[x] : x \in tree.rules}
        BY <3>1
      <4>2. f[rule] \in Ways[rule] /\ f[rule] \subseteq way
        BY <4>1
      <4> QED BY <3>3, <4>2
    <3>4. ASSUME \A rule \in tree.rules : \E way \in Ways[rule] : Fine(way)
          PROVE  \E way \in Ways[tree] : Fine(way)
      <4> HIDE DEF Fine
      <4> DEFINE f == [rule \in tree.rules |-> CHOOSE way \in Ways[rule] : Fine(way)]
      <4>1. \A rule \in tree.rules : f[rule] \in Ways[rule] /\ Fine(f[rule])
        BY <3>4
      <4>2. f \in [tree.rules -> all]
        BY <4>1
      <4>3. f \in picks
        BY <4>1, <4>2
      <4> DEFINE way == UNION {f[rule] : rule \in tree.rules}
      <4>4. way \in Ways[tree]
        <5> HIDE DEF f, picks
        <5> QED BY <3>1, <4>3
      <4>5. Fine(way)
        <5> HIDE DEF f
        <5> QED BY <4>1 DEF Fine
      <4> QED BY <4>4, <4>5
    <3> HIDE DEF Fine, T
    <3>5. (\E way \in Ways[tree] : Fine(way)) <=> \A rule \in tree.rules : \E way \in Ways[rule] : Fine(way)
      BY <3>3, <3>4
    <3> QED BY <2>3, <3>2, <3>5, HoldsOfBoth
  <2> QED BY <2>1, <2>2, <2>3, TreeCases
<1> HIDE DEF T
<1>2. \A tree \in Trees : tree \in T
  BY <1>1, FromRules
<1> QED BY <1>2 DEF T

\* A way consists of rules, which look at what the tree looks at.
LEMMA WaysOfRules ==
  \A tree \in Trees : \A way \in Ways[tree] : \A rule \in way :
    rule \in Trees /\ rule.logic = "rule" /\ rule.source \in Sources[tree]
<1> DEFINE Sound(rule, tree) == rule \in Trees /\ rule.logic = "rule" /\ rule.source \in Sources[tree]
           T == {tree \in Trees : \A way \in Ways[tree] : \A rule \in way : Sound(rule, tree)}
<1>1. ASSUME NEW tree \in Trees, tree.logic # "rule" => \A rule \in tree.rules : rule \in T
      PROVE  tree \in T
  <2> SUFFICES ASSUME NEW way \in Ways[tree], NEW rule \in way PROVE Sound(rule, tree)
    OBVIOUS
  <2>1. CASE tree.logic = "rule"
    <3>1. Ways[tree] = {{tree}} /\ Sources[tree] = {tree.source}
      BY <2>1, WaysStep, SourcesStep
    <3> QED BY <2>1, <3>1
  <2>2. CASE tree.logic # "rule"
    <3> DEFINE all == UNION {Ways[x] : x \in tree.rules}
               picks == {f \in [tree.rules -> all] : \A x \in tree.rules : f[x] \in Ways[x]}
    <3>1. Sources[tree] = UNION {Sources[x] : x \in tree.rules}
      BY <2>2, SourcesStep
    <3>2. Ways[tree] = IF tree.logic = "and" THEN {UNION {f[x] : x \in tree.rules} : f \in picks} ELSE all
      BY <2>2, WaysStep
    <3>3. \E x \in tree.rules : \E part \in Ways[x] : rule \in part
      <4>1. CASE tree.logic = "and"
        <5>1. PICK f \in picks : way = UNION {f[x] : x \in tree.rules}
          BY <3>2, <4>1
        <5>2. PICK x \in tree.rules : rule \in f[x]
          BY <5>1
        <5> QED BY <5>1, <5>2
      <4>2. CASE tree.logic # "and"
        BY <3>2, <4>2
      <4> QED BY <4>1, <4>2
    <3>4. PICK x \in tree.rules : Sound(rule, x)
      BY <1>1, <2>2, <3>3
    <3> QED BY <3>1, <3>4
  <2> QED BY <2>1, <2>2
<1> HIDE DEF T
<1>2. \A tree \in Trees : tree \in T
  BY <1>1, FromRules
<1> QED BY <1>2 DEF T

\* An operator tells what its rule demands, of every value.
LEMMA OperatorMeans ==
  ASSUME NEW rule, rule.op \in ASSERTION_OPERATORS, rule.value \in Value, NEW value \in Value
  PROVE  applyOperator(rule.op, value, rule.value) <=> Demands(rule, value)
<1> DEFINE comparison == Comparison(value, rule.value)
<1>1. /\ rule.value.number \in Int \cup {NaN} /\ value.number \in Int \cup {NaN} /\ NaN \notin Int
      /\ Matches \subseteq Patterns \X Texts
  BY ProbesAssumption DEF Value
<1>2. /\ comparison \in {"equal", "alike"} <=> looseEquals(value, rule.value)
      /\ comparison \in {"less", "more", "unlike"} <=> ~looseEquals(value, rule.value)
      /\ comparison = "less" <=> Ordered(value, rule.value) /\ value.number < rule.value.number
      /\ comparison = "more" <=> Ordered(value, rule.value) /\ value.number > rule.value.number
      /\ comparison = "equal" <=> Ordered(value, rule.value) /\ value.number = rule.value.number
  BY <1>1 DEF Comparison, looseEquals, Ordered
<1> HIDE DEF comparison
<1>3. DOMAIN Accepted = {"eq", "ne", "lt", "lte", "gt", "gte"}
  BY DEF Accepted
<1>4. /\ Accepted["eq"] = {"equal", "alike"} /\ Accepted["ne"] = {"less", "more", "unlike"}
      /\ Accepted["lt"] = {"less"} /\ Accepted["lte"] = {"less", "equal"}
      /\ Accepted["gt"] = {"more"} /\ Accepted["gte"] = {"more", "equal"}
  BY DEF Accepted
<1>5. rule.op \in {"eq", "ne", "lt", "lte", "gt", "gte"} =>
        (Demands(rule, value) <=> comparison \in Accepted[rule.op])
  BY <1>3 DEF Demands, comparison
<1>6. CASE rule.op = "eq"
  BY <1>2, <1>4, <1>5, <1>6 DEF applyOperator
<1>7. CASE rule.op = "ne"
  BY <1>2, <1>4, <1>5, <1>7 DEF applyOperator
<1>8. CASE rule.op = "gt"
  BY <1>2, <1>4, <1>5, <1>8 DEF applyOperator
<1>9. CASE rule.op = "gte"
  <2>1. comparison \in {"more", "equal"} <=> Ordered(value, rule.value) /\ value.number >= rule.value.number
    BY <1>1, <1>2 DEF Ordered
  <2> QED BY <1>4, <1>5, <1>9, <2>1 DEF applyOperator
<1>10. CASE rule.op = "lt"
  BY <1>2, <1>4, <1>5, <1>10 DEF applyOperator
<1>11. CASE rule.op = "lte"
  <2>1. comparison \in {"less", "equal"} <=> Ordered(value, rule.value) /\ value.number <= rule.value.number
    BY <1>1, <1>2 DEF Ordered
  <2> QED BY <1>4, <1>5, <1>11, <2>1 DEF applyOperator
<1>12. CASE rule.op = "exists"
  BY <1>3, <1>12 DEF applyOperator, Demands
<1>13. CASE rule.op = "not_exists"
  BY <1>3, <1>13 DEF applyOperator, Demands
<1>14. CASE rule.op = "contains"
  BY <1>3, <1>14 DEF applyOperator, Demands
<1>15. CASE rule.op = "not_contains"
  BY <1>3, <1>15 DEF applyOperator, Demands
<1>16. CASE rule.op = "regex"
  BY <1>1, <1>3, <1>16 DEF applyOperator, Demands
<1> QED BY <1>6, <1>7, <1>8, <1>9, <1>10, <1>11, <1>12, <1>13, <1>14, <1>15, <1>16 DEF ASSERTION_OPERATORS

\* A rule holds of a response that was read when it says what the rule demands.
LEMMA RuleMeans ==
  ASSUME NEW rule \in Trees, rule.logic = "rule", NEW response \in Responses,
         rule.source = "json" => response.json # NotJson
  PROVE  Rule(rule, response, TRUE) <=> Demands(rule, Said(response)[rule.source][rule.path])
<1> DEFINE value == Said(response)[rule.source][rule.path]
<1>1. /\ rule.source \in ASSERTION_SOURCES /\ rule.op \in ASSERTION_OPERATORS
      /\ rule.path \in Paths \cup {None} /\ rule.value \in Value
  BY TreeCases
<1>2. /\ response \in Response /\ None \notin Paths /\ "undefined" \in Texts
  BY ProbesAssumption
<1>3. /\ response.status \in [there: {TRUE}, number: Nat, text: Texts]
      /\ response.responseMs \in Value /\ response.body \in Value
      /\ response.headers \in [Paths -> Value]
      /\ response.json \in [Paths \cup {None} -> Value] \cup {NotJson}
  BY <1>2 DEF Response
<1>4. response.status \in Value
  <2> DEFINE s == response.status
  <2>1. s = [there |-> s.there, number |-> s.number, text |-> s.text]
    BY <1>3
  <2>2. s.there \in BOOLEAN /\ s.text \in Texts
    BY <1>3
  <2>a. s.number \in Nat
    BY <1>3
  <2>b. Nat \subseteq Int
    OBVIOUS
  <2>3. s.number \in Int \cup {NaN}
    BY <2>a, <2>b, Zenon
  <2> HIDE DEF s
  <2>4. s \in Value
    BY <2>1, <2>2, <2>3, Zenon DEF Value
  <2> QED BY <2>4 DEF s
<1>5. Undefined \in Value
  BY <1>2 DEF Undefined, Value
<1>6. actualValue(rule, response, TRUE) = value /\ value \in Value
  <2>1. CASE rule.source = "status"
    BY <1>1, <1>4, <2>1 DEF actualValue, Said
  <2>2. CASE rule.source = "response_time"
    BY <1>1, <1>3, <2>2 DEF actualValue, Said
  <2>3. CASE rule.source = "header"
    BY <1>1, <1>2, <1>3, <1>5, <2>3 DEF actualValue, Said
  <2>4. CASE rule.source = "body"
    BY <1>1, <1>3, <2>4 DEF actualValue, Said
  <2>5. CASE rule.source = "json"
    BY <1>1, <1>3, <2>5 DEF actualValue, Said
  <2> QED BY <1>1, <2>1, <2>2, <2>3, <2>4, <2>5 DEF ASSERTION_SOURCES
<1> HIDE DEF value
<1>7. applyOperator(rule.op, value, rule.value) <=> Demands(rule, value)
  BY <1>1, <1>6, OperatorMeans
<1> QED BY <1>6, <1>7 DEF Rule, value

-----------------------------------------------------------------------------
(* The verdict of a probe.                                                 *)

\* How far a probe has come.
InPhase ==
  /\ job \in Jobs
  /\ phase \in {"fetch", "body", "certificate"} => job.type = "http" /\ job.valid
  /\ phase = "connect" => job.type = "tcp"
  /\ phase = "ping" => job.type = "icmp"
  /\ phase = "fetch" => answer = None
  /\ phase \in {"body", "certificate"} => answer \in Responses
  /\ phase = "body" => needsBody(job)
  /\ phase = "certificate" => Acceptable(job, answer) /\ job.https /\ job.sslDays # None
  /\ days # None => phase = "settled"

LEMMA AnswerIsSome ==
  ASSUME NEW response \in Responses
  PROVE  /\ response # None
         /\ response.status.number \in Nat
BY ProbesAssumption DEF Response

LEMMA StatusBetween ==
  ASSUME NEW j \in Jobs, j.type = "http", j.valid, NEW response \in Responses
  PROVE  statusAccepted(response.status.number, j.ranges) <=>
           \E range \in j.ranges : response.status.number \in range[1]..range[2]
<1>1. response.status.number \in Nat
  BY AnswerIsSome
<1>2. j.ranges \subseteq Nat \X Nat
  BY ProbesAssumption
<1>3. ASSUME NEW range \in j.ranges
      PROVE  (range[1] <= response.status.number /\ response.status.number <= range[2]) <=>
               response.status.number \in range[1]..range[2]
  <2>1. range[1] \in Nat /\ range[2] \in Nat
    BY <1>2
  <2> QED BY <1>1, <2>1
<1> QED BY <1>3 DEF statusAccepted

\* A response is judged by all that an acceptable one needs, and by nothing else, when its body
\* was read in case it is needed.
LEMMA JudgedRight ==
  ASSUME NEW j \in Jobs, j.type = "http", j.valid, NEW response \in Responses,
         NEW read \in BOOLEAN, read <=> needsBody(j)
  PROVE  Complaint(j, response, read) = None <=> Acceptable(j, response)
<1> DEFINE accepted == statusAccepted(response.status.number, j.ranges)
           found == j.keyword # None => <<j.keyword, response.body.text>> \in Includes
           json == j.assertions # None => ("json" \in Sources[j.assertions] => response.json # NotJson)
           hold == j.assertions # None =>
                     \E way \in Ways[j.assertions] : \A rule \in way :
                        Demands(rule, Said(response)[rule.source][rule.path])
<1>1. Acceptable(j, response) <=> accepted /\ found /\ json /\ hold
  BY StatusBetween DEF Acceptable
<1>2. None # "http_status" /\ None # "protocol"
  BY ProbesAssumption
<1>3. j.assertions \in Trees \cup {None}
  BY ProbesAssumption
<1>4. (j.keyword # None /\ ~(read /\ <<j.keyword, response.body.text>> \in Includes)) <=> ~found
  BY DEF needsBody
<1>5. ASSUME j.assertions # None
      PROVE  (assertionsNeedJson(j.assertions) /\ ~(read /\ response.json # NotJson)) <=> ~json
  <2>1. assertionsNeedJson(j.assertions) => read
    BY <1>5 DEF assertionsNeedJson, assertionsNeedBody, needsBody
  <2> QED BY <1>5, <2>1 DEF assertionsNeedJson
<1>6. ASSUME j.assertions # None, json
      PROVE  evaluateAssertions(j.assertions, response, read) <=> hold
  <2>1. j.assertions \in Trees
    BY <1>3, <1>6
  <2>2. evaluateAssertions(j.assertions, response, TRUE) <=>
           \E way \in Ways[j.assertions] : \A rule \in way : Rule(rule, response, TRUE)
    BY <2>1, WaysAreRight
  <2>3. evaluateAssertions(j.assertions, response, TRUE) <=> hold
    <3>1. \A way \in Ways[j.assertions] : \A rule \in way :
            Rule(rule, response, TRUE) <=> Demands(rule, Said(response)[rule.source][rule.path])
      BY <1>6, <2>1, WaysOfRules, RuleMeans
    <3> QED BY <1>6, <2>2, <3>1
  <2>4. evaluateAssertions(j.assertions, response, read) <=> evaluateAssertions(j.assertions, response, TRUE)
    <3>1. CASE read = TRUE
      BY <3>1
    <3>2. CASE read = FALSE
      <4>1. ~assertionsNeedBody(j.assertions)
        BY <1>6, <3>2 DEF needsBody
      <4>2. evaluateAssertions(j.assertions, response, FALSE) <=> evaluateAssertions(j.assertions, response, TRUE)
        BY <2>1, <4>1, BodyNotNeeded
      <4> QED BY <3>2, <4>2
    <3> QED BY <3>1, <3>2
  <2> HIDE DEF hold
  <2> QED BY <2>3, <2>4
<1>7. j.assertions = None => json /\ hold
  OBVIOUS
<1> HIDE DEF accepted, found, json, hold
<1>8. Complaint(j, response, read) =
        IF ~accepted THEN "http_status"
        ELSE IF ~found THEN "protocol"
        ELSE IF j.assertions = None THEN None
        ELSE IF ~json THEN "protocol"
        ELSE IF ~hold THEN "protocol"
        ELSE None
  <2>1. Complaint(j, response, read) =
        IF ~accepted THEN "http_status"
        ELSE IF j.keyword # None /\ ~(read /\ <<j.keyword, response.body.text>> \in Includes) THEN "protocol"
        ELSE IF j.assertions = None THEN None
        ELSE IF assertionsNeedJson(j.assertions) /\ ~(read /\ response.json # NotJson) THEN "protocol"
        ELSE IF ~evaluateAssertions(j.assertions, response, read) THEN "protocol"
        ELSE None
    BY DEF Complaint, accepted
  <2> QED BY <1>4, <1>5, <1>6, <2>1
<1> QED BY <1>1, <1>2, <1>7, <1>8

\* Judging keeps the verdict right, whatever was read.
LEMMA JudgeKeepsVerdict ==
  ASSUME InPhase, phase \in {"fetch", "body"}, NEW response \in Responses,
         NEW read \in BOOLEAN, read <=> needsBody(job), Judge(response, read),
         answer' = response, days' = days, job' = job
  PROVE  InPhase' /\ VerdictMatchesAnswer'
<1>1. job \in Jobs /\ job.type = "http" /\ job.valid /\ days = None /\ response # None
  BY AnswerIsSome DEF InPhase
<1> DEFINE complaint == Complaint(job, response, read)
<1>2. complaint = None <=> Acceptable(job, response)
  BY <1>1, JudgedRight
<1>3. Acceptable(job', answer') <=> Acceptable(job, response)
  OBVIOUS
<1>4. IF complaint # None THEN Settle(Down(complaint))
      ELSE IF job.sslDays # None /\ job.https THEN phase' = "certificate" /\ UNCHANGED outcome
      ELSE Settle(Up)
  BY DEF Judge
<1> HIDE DEF complaint
<1>5. CASE complaint # None
  <2>1. phase' = "settled" /\ outcome' = Down(complaint)
    BY <1>4, <1>5 DEF Settle
  <2>2. ~outcome'.up /\ ~Acceptable(job', answer')
    BY <1>2, <1>3, <1>5, <2>1 DEF Down
  <2>3. VerdictMatchesAnswer'
    BY <1>1, <2>2 DEF VerdictMatchesAnswer
  <2> QED BY <1>1, <2>1, <2>3 DEF InPhase
<1>6. CASE complaint = None /\ job.sslDays # None /\ job.https
  <2>1. phase' = "certificate"
    BY <1>4, <1>6
  <2> QED BY <1>1, <1>2, <1>3, <1>6, <2>1 DEF InPhase, VerdictMatchesAnswer
<1>7. CASE complaint = None /\ ~(job.sslDays # None /\ job.https)
  <2>1. phase' = "settled" /\ outcome' = Up
    BY <1>4, <1>7 DEF Settle
  <2>2. outcome'.up /\ Acceptable(job', answer')
    BY <1>2, <1>3, <1>7, <2>1 DEF Up
  <2>3. VerdictMatchesAnswer'
    BY <1>1, <2>2 DEF VerdictMatchesAnswer
  <2> QED BY <1>1, <2>1, <2>3 DEF InPhase
<1> QED BY <1>5, <1>6, <1>7

probeVars == <<probe, historyVars>>

\* A probe that ends without a verdict on the answer.
LEMMA BrokenKeepsVerdict ==
  ASSUME InPhase, NEW kind, Settle(Down(kind)), UNCHANGED <<job, answer, days>>,
         \/ phase = "connect" \/ phase = "ping" \/ phase = "fetch"
         \/ phase = "body" /\ kind \in {classifyNetworkError(code) : code \in Codes}
  PROVE  InPhase' /\ VerdictMatchesAnswer'
<1>1. phase' = "settled" /\ outcome' = Down(kind)
  BY DEF Settle
<1>2. ~outcome'.up /\ outcome'.kind = kind
  BY <1>1 DEF Down
<1>3. InPhase'
  BY <1>1 DEF InPhase
<1>4. CASE phase \in {"connect", "ping"}
  <2>1. job'.type # "http"
    BY <1>4 DEF InPhase
  <2> QED BY <1>3, <2>1 DEF VerdictMatchesAnswer
<1>5. CASE phase = "fetch"
  <2>1. answer' = None
    BY <1>5 DEF InPhase
  <2> QED BY <1>2, <1>3, <2>1 DEF VerdictMatchesAnswer
<1>6. CASE phase = "body" /\ kind \in {classifyNetworkError(code) : code \in Codes}
  <2>1. needsBody(job')
    BY <1>6 DEF InPhase
  <2> QED BY <1>2, <1>3, <1>6, <2>1 DEF VerdictMatchesAnswer
<1> QED BY <1>4, <1>5, <1>6

LEMMA CertificateKeepsVerdict ==
  ASSUME InPhase, CertificateUnseen \/ \E left \in DaysLeft : CertificateSeen(left)
  PROVE  InPhase' /\ VerdictMatchesAnswer'
<1>1. /\ phase = "certificate" /\ phase' = "settled" /\ job' = job /\ answer' = answer
      /\ job \in Jobs /\ job.type = "http" /\ job.valid /\ answer \in Responses
      /\ Acceptable(job, answer) /\ job.https /\ job.sslDays # None
  BY DEF InPhase, CertificateUnseen, CertificateSeen, Settle
<1>2. answer # None /\ job.sslDays \in Nat /\ DaysLeft \subseteq Nat
  BY <1>1, ProbesAssumption
<1>3. InPhase'
  BY <1>1 DEF InPhase
<1>4. Acceptable(job', answer')
  BY <1>1
<1>5. CASE CertificateUnseen
  <2>1. outcome' = Up /\ days' = None
    BY <1>1, <1>5 DEF CertificateUnseen, Settle, InPhase
  <2>2. outcome'.up
    BY <2>1 DEF Up
  <2> QED BY <1>1, <1>2, <1>3, <1>4, <2>1, <2>2 DEF VerdictMatchesAnswer
<1>6. ASSUME NEW left \in DaysLeft, CertificateSeen(left)
      PROVE  VerdictMatchesAnswer'
  <2>1. days' = left /\ left \in Nat
    BY <1>2, <1>6 DEF CertificateSeen
  <2>2. outcome' = IF left <= job.sslDays THEN Down("tls") ELSE Up
    BY <1>6 DEF CertificateSeen, Settle, Expires
  <2>3. CASE left <= job.sslDays
    <3>1. ~outcome'.up /\ outcome'.kind = "tls"
      BY <2>2, <2>3 DEF Down
    <3>2. job'.https /\ days' <= job'.sslDays
      BY <1>1, <2>1, <2>3
    <3> QED BY <3>1, <3>2 DEF VerdictMatchesAnswer
  <2>4. CASE ~(left <= job.sslDays)
    <3>1. outcome'.up
      BY <2>2, <2>4 DEF Up
    <3>2. days' > job'.sslDays
      BY <1>1, <1>2, <2>1, <2>4
    <3> QED BY <1>1, <1>2, <1>4, <3>1, <3>2 DEF VerdictMatchesAnswer
  <2> QED BY <2>3, <2>4
<1> QED BY <1>3, <1>5, <1>6

LEMMA ProbeStep ==
  ASSUME InPhase, VerdictMatchesAnswer, [ProbeNext]_probeVars
  PROVE  InPhase' /\ VerdictMatchesAnswer'
<1>1. CASE UNCHANGED probeVars
  BY <1>1 DEF probeVars, probe, InPhase, VerdictMatchesAnswer
<1>2. ASSUME NEW j \in Jobs, Begin(j) PROVE InPhase' /\ VerdictMatchesAnswer'
  <2>1. job' = j /\ answer' = None /\ days' = None
    BY <1>2 DEF Begin
  <2>2. j.type \in {"http", "tcp", "icmp"}
    BY ProbesAssumption
  <2>3. CASE j.valid \/ j.type = "icmp"
    <3>1. phase' = CASE j.type = "http" -> "fetch" [] j.type = "tcp" -> "connect" [] j.type = "icmp" -> "ping"
      BY <1>2, <2>3 DEF Begin
    <3>2. \/ j.type = "http" /\ j.valid /\ phase' = "fetch"
          \/ j.type = "tcp" /\ phase' = "connect"
          \/ j.type = "icmp" /\ phase' = "ping"
      BY <2>2, <2>3, <3>1
    <3> QED BY <2>1, <3>2 DEF InPhase, VerdictMatchesAnswer
  <2>4. CASE ~(j.valid \/ j.type = "icmp")
    <3>1. phase' = "settled" /\ ~job'.valid
      BY <1>2, <2>1, <2>4 DEF Begin, Settle
    <3> QED BY <2>1, <3>1 DEF InPhase, VerdictMatchesAnswer
  <2> QED BY <2>3, <2>4
<1>3. ASSUME NEW response \in Responses, HeadersArrive(response) PROVE InPhase' /\ VerdictMatchesAnswer'
  <2>1. phase = "fetch" /\ answer' = response /\ job' = job /\ days' = days
    BY <1>3 DEF HeadersArrive
  <2>2. CASE needsBody(job)
    <3>1. phase' = "body"
      BY <1>3, <2>2 DEF HeadersArrive
    <3> QED BY <2>1, <2>2, <3>1 DEF InPhase, VerdictMatchesAnswer
  <2>3. CASE ~needsBody(job)
    <3>1. Judge(response, FALSE)
      BY <1>3, <2>3 DEF HeadersArrive
    <3> QED BY <2>1, <2>3, <3>1, JudgeKeepsVerdict
  <2> QED BY <2>2, <2>3
<1>4. CASE BodyArrives
  <2>1. phase = "body" /\ answer' = answer /\ job' = job /\ days' = days /\ Judge(answer, TRUE)
    BY <1>4 DEF BodyArrives
  <2>2. answer \in Responses /\ needsBody(job)
    BY <2>1 DEF InPhase
  <2> QED BY <2>1, <2>2, JudgeKeepsVerdict
<1>5. CASE Connected
  <2>1. phase' = "settled" /\ job' = job /\ days' = days /\ job.type = "tcp"
    BY <1>5 DEF Connected, Settle, InPhase
  <2> QED BY <2>1 DEF InPhase, VerdictMatchesAnswer
<1>6. ASSUME NEW code \in Codes, ConnectionBreaks(code) PROVE InPhase' /\ VerdictMatchesAnswer'
  BY <1>6, BrokenKeepsVerdict DEF ConnectionBreaks
<1>7. CASE Timeout
  <2>1. classifyNetworkError("AbortError") = classifyNetworkError("ETIMEDOUT")
    BY DEF classifyNetworkError, TlsCodes
  <2>2. "ETIMEDOUT" \in Codes
    BY DEF Codes
  <2> QED BY <1>7, <2>1, <2>2, BrokenKeepsVerdict DEF Timeout, Timed
<1>8. CASE CertificateUnseen \/ \E left \in DaysLeft : CertificateSeen(left)
  BY <1>8, CertificateKeepsVerdict
<1>9. CASE PingReplies
  <2>1. phase' = "settled" /\ job' = job /\ days' = days /\ job.type = "icmp"
    BY <1>9 DEF PingReplies, Settle, InPhase
  <2> QED BY <2>1 DEF InPhase, VerdictMatchesAnswer
<1>10. CASE PingFails \/ PingKilled
  BY <1>10, BrokenKeepsVerdict DEF PingFails, PingKilled
<1>11. CASE Fold
  BY <1>11 DEF Fold, InPhase, VerdictMatchesAnswer
<1> QED BY <1>1, <1>2, <1>3, <1>4, <1>5, <1>6, <1>7, <1>8, <1>9, <1>10, <1>11 DEF ProbeNext, Timers

LEMMA ProbeInvariant == ProbeSpec => [](InPhase /\ VerdictMatchesAnswer)
<1>1. ProbeInit => InPhase /\ VerdictMatchesAnswer
  BY DEF ProbeInit, InPhase, VerdictMatchesAnswer
<1>2. InPhase /\ VerdictMatchesAnswer /\ [ProbeNext]_probeVars => (InPhase /\ VerdictMatchesAnswer)'
  BY ProbeStep
<1> QED BY <1>1, <1>2, PTL DEF ProbeSpec, probeVars

\* However the assertions are nested, with every source and operator and for every value of
\* JavaScript, and whatever was read of a response: an HTTP check is up only when the target gave an
\* acceptable answer in time and no certificate about to expire was seen, and it is down after an
\* acceptable one only when its body broke or was late, or for such a certificate
\* (HttpCheckExecutor, assertions.ts).
THEOREM VerdictCorrect == ProbeSpec => []VerdictMatchesAnswer
BY ProbeInvariant, PTL

\* A probe is either up or down.
Decided == outcome.up \in BOOLEAN

LEMMA OutcomeStep == Decided /\ [ProbeNext]_probeVars => Decided'
<1> SUFFICES ASSUME Decided, [ProbeNext]_probeVars PROVE Decided'
  OBVIOUS
<1>1. Up.up \in BOOLEAN /\ \A kind : Down(kind).up \in BOOLEAN
  BY DEF Up, Down
<1>2. CASE outcome' = outcome
  BY <1>2 DEF Decided
<1>3. CASE outcome' = Up \/ \E kind : outcome' = Down(kind)
  BY <1>1, <1>3 DEF Decided
<1>4. ASSUME NEW response, NEW read, Judge(response, read) PROVE Decided'
  <2>1. \/ outcome' = Up \/ outcome' = outcome \/ \E kind : outcome' = Down(kind)
    BY <1>4 DEF Judge, Settle
  <2> QED BY <1>2, <1>3, <2>1
<1>5. CASE UNCHANGED probeVars
  BY <1>2, <1>5 DEF probeVars, probe
<1>6. CASE \E j \in Jobs : Begin(j)
  BY <1>3, <1>6 DEF Begin, Settle
<1>7. ASSUME NEW response \in Responses, HeadersArrive(response) PROVE Decided'
  BY <1>2, <1>4, <1>7 DEF HeadersArrive
<1>8. CASE BodyArrives
  BY <1>4, <1>8 DEF BodyArrives
<1>9. CASE \/ Connected \/ Timers \/ PingReplies \/ PingFails \/ Fold
           \/ \E code \in Codes : ConnectionBreaks(code)
           \/ \E left \in DaysLeft : CertificateSeen(left)
  BY <1>3, <1>9 DEF Connected, Timers, Timeout, CertificateUnseen, PingKilled, PingReplies, PingFails,
     Fold, ConnectionBreaks, CertificateSeen, Settle
<1> QED BY <1>5, <1>6, <1>7, <1>8, <1>9 DEF ProbeNext

\* What the probes of a region do to its health is a history of checks.
LEMMA StepOfHistory ==
  ASSUME Decided, [ProbeNext]_probeVars
  PROVE  [HistoryNext]_historyVars
<1>1. CASE UNCHANGED probeVars
  BY <1>1 DEF probeVars
<1>2. CASE Fold
  <2>1. Check(outcome.up) /\ outcome.up \in BOOLEAN
    BY <1>2 DEF Fold, Decided
  <2> QED BY <2>1 DEF HistoryNext
<1>3. CASE ProbeNext /\ ~Fold
  BY <1>3 DEF ProbeNext, Begin, HeadersArrive, BodyArrives, Connected, ConnectionBreaks, Timers,
     Timeout, CertificateUnseen, CertificateSeen, PingReplies, PingFails, PingKilled
<1> QED BY <1>1, <1>2, <1>3

LEMMA ProbesMakeHistory == ProbeSpec => HistorySpec
<1>1. ProbeInit => HistoryInit /\ Decided
  BY DEF ProbeInit, Up, Decided
<1>2. Decided /\ [ProbeNext]_probeVars => Decided'
  BY OutcomeStep
<1>3. Decided /\ [ProbeNext]_probeVars => [HistoryNext]_historyVars
  BY StepOfHistory
<1> QED BY <1>1, <1>2, <1>3, PTL DEF ProbeSpec, HistorySpec, probeVars

\* So the counters and the status of a region that is probed are those of the history of its
\* probes, however these end (JobProcessor.process, evaluateHealth).
THEOREM ProbedHealthCorrect == ProbeSpec => [](CountersMatchHistory /\ StatusMatchesHistory)
BY ProbesMakeHistory, CountersCorrect, StatusCorrect, PTL
=============================================================================
