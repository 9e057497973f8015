-------------------------- MODULE Scheduler_proofs --------------------------
(***************************************************************************)
(* Every due window is accounted for, for any number of assignments and    *)
(* replicas: the row locks keep a claimed batch due until the claim takes  *)
(* effect, and a window then moves from the line to exactly one replica.   *)
(***************************************************************************)
EXTENDS Scheduler, FiniteSetTheorems, TLAPS

\* A statement under way holds the lock of every row of its batch.
LocksHeld ==
  \A s \in Schedulers : tick[s].stage = "claiming" => \A a \in tick[s].batch : locked[a] = s

SchedulerInv == TypeOK /\ LocksHeld /\ WindowsAccounted

-----------------------------------------------------------------------------
(* The line.                                                               *)

\* Rows that leave the line leave a line of the others.
LEMMA LineWithout ==
  ASSUME NEW S, line \in SUBSET (Assignments \X Assignments), IsLine(line)
  PROVE  /\ Without(S) \in SUBSET (Assignments \X Assignments)
         /\ IsLine(Without(S))
         /\ DueIn(Without(S)) = Due \ S
<1>2. DueIn(Without(S)) = Due \ S
  <2>1. ASSUME NEW a \in Due \ S
        PROVE  a \in DueIn(Without(S))
    <3>1. <<a, a>> \in line
      BY DEF Due, DueIn, IsLine
    <3>2. <<a, a>> \in Without(S)
      BY <3>1 DEF Without
    <3> QED BY <3>2 DEF DueIn
  <2>2. DueIn(Without(S)) \subseteq Due \ S
    BY DEF DueIn, Due, Without
  <2> QED BY <2>1, <2>2
<1>3. IsLine(Without(S))
  <2>1. \A a, b : <<a, b>> \in Without(S) <=> <<a, b>> \in line /\ a \notin S /\ b \notin S
    BY DEF Without
  <2>2. \A p \in Without(S) : p \in line /\ p[1] \notin S /\ p[2] \notin S
    BY DEF Without
  <2>3. \A p \in Without(S) : <<p[1], p[1]>> \in Without(S) /\ <<p[2], p[2]>> \in Without(S)
    BY <2>1, <2>2 DEF IsLine
  <2>4. \A a, b \in DueIn(Without(S)) : <<a, b>> \in Without(S) \/ <<b, a>> \in Without(S)
    BY <1>2, <2>1 DEF IsLine, Due
  <2>5. \A p \in Without(S) : <<p[2], p[1]>> \in Without(S) => p[1] = p[2]
    BY <2>1, <2>2 DEF IsLine
  <2>6. \A p, q \in Without(S) : p[2] = q[1] => <<p[1], q[2]>> \in Without(S)
    BY <2>1, <2>2 DEF IsLine
  <2> QED BY <2>3, <2>4, <2>5, <2>6 DEF IsLine
<1> QED BY <1>2, <1>3 DEF Without

\* A row that joins a line it is not in makes a line with it.
LEMMA LineGrows ==
  ASSUME NEW order \in SUBSET (Assignments \X Assignments), IsLine(order),
         NEW a \in Assignments, a \notin DueIn(order)
  PROVE  /\ AtTheEnd(order, a) \in SUBSET (Assignments \X Assignments)
         /\ IsLine(AtTheEnd(order, a))
         /\ DueIn(AtTheEnd(order, a)) = DueIn(order) \cup {a}
<1> DEFINE D == DueIn(order)
           N == AtTheEnd(order, a)
<1>1. \A p \in order : p = <<p[1], p[2]>> /\ p[1] \in D /\ p[2] \in D
  <2> TAKE p \in order
  <2>1. p = <<p[1], p[2]>>
    OBVIOUS
  <2>2. <<p[2], p[2]>> \in order
    BY DEF IsLine
  <2>3. \A q \in order : q[1] \in D
    BY DEF DueIn
  <2>4. <<p[2], p[2]>>[1] = p[2]
    OBVIOUS
  <2> QED BY <2>1, <2>2, <2>3, <2>4
<1>2. \A x, y : <<x, y>> \in N <=> <<x, y>> \in order \/ (y = a /\ x \in D \cup {a})
  BY DEF AtTheEnd
<1>3. \A p \in N : p = <<p[1], p[2]>> /\ (p \in order \/ (p[2] = a /\ p[1] \in D \cup {a}))
  BY <1>1 DEF AtTheEnd
<1>4. D \subseteq Assignments
  BY DEF DueIn
<1>5. DueIn(N) = D \cup {a}
  <2>1. \A x \in D \cup {a} : x \in DueIn(N)
    <3> TAKE x \in D \cup {a}
    <3>1. <<x, a>> \in N
      BY <1>2
    <3> QED BY <3>1 DEF DueIn
  <2>2. \A p \in N : p[1] \in D \cup {a}
    BY <1>1, <1>3
  <2>3. DueIn(N) \subseteq D \cup {a}
    BY <2>2 DEF DueIn
  <2> QED BY <2>1, <2>3
<1>6. IsLine(N)
  <2> HIDE DEF N
  <2>1. \A x \in D : <<x, x>> \in order
    BY DEF DueIn, IsLine
  <2>2. \A x, y : <<x, y>> \in order => x \in D /\ y \in D /\ x # a /\ y # a
    BY <1>1
  <2>3. \A p \in N : <<p[1], p[1]>> \in N /\ <<p[2], p[2]>> \in N
    BY <1>1, <1>2, <1>3, <2>1
  <2>4. \A x, y \in DueIn(N) : <<x, y>> \in N \/ <<y, x>> \in N
    BY <1>2, <1>5 DEF IsLine
  <2>5. \A x, y : <<x, y>> \in N /\ <<y, x>> \in N => x = y
    BY <1>2, <2>2 DEF IsLine
  <2>6. \A x, y, z : <<x, y>> \in N /\ <<y, z>> \in N => <<x, z>> \in N
    <3>1. \A x, y, z : <<x, y>> \in order /\ <<y, z>> \in order => <<x, z>> \in order
      BY DEF IsLine
    <3> QED BY <1>2, <2>2, <3>1
  <2>7. \A p \in N : <<p[2], p[1]>> \in N => p[1] = p[2]
    BY <1>3, <2>5
  <2>8. \A p, q \in N : p[2] = q[1] => <<p[1], q[2]>> \in N
    BY <1>3, <2>6
  <2> QED BY <2>3, <2>4, <2>7, <2>8 DEF IsLine
<1>7. N \in SUBSET (Assignments \X Assignments)
  BY <1>4 DEF AtTheEnd
<1> QED BY <1>5, <1>6, <1>7

-----------------------------------------------------------------------------
(* The books.                                                              *)

\* The sets of replicas that push a job are finite, and no larger than the set of all.
LEMMA PushingBound ==
  ASSUME NEW a
  PROVE  /\ IsFiniteSet(Pushing(a))
         /\ Cardinality(Pushing(a)) \in Nat
         /\ Cardinality(Pushing(a)) <= Cardinality(Schedulers)
         /\ Cardinality(Schedulers) \in Nat
<1>1. IsFiniteSet(Schedulers) /\ Pushing(a) \in SUBSET Schedulers
  BY SchedulerAssumption DEF Pushing
<1> QED BY <1>1, FS_Subset, FS_CardinalityType

LEMMA PushingBoundNext ==
  ASSUME NEW a
  PROVE  /\ Cardinality(Pushing(a)') \in Nat
         /\ Cardinality(Pushing(a)') <= Cardinality(Schedulers)
         /\ Cardinality(Schedulers) \in Nat
<1>1. IsFiniteSet(Schedulers) /\ Pushing(a)' \in SUBSET Schedulers
  BY SchedulerAssumption DEF Pushing
<1> QED BY <1>1, FS_Subset, FS_CardinalityType

\* The books balance after a step: what is left to show is that credits are numbers of
\* windows.
LEMMA BooksType ==
  ASSUME credit' \in [Assignments -> Int],
         \A a \in Assignments :
           credit'[a] = Cardinality(Pushing(a)') + (IF a \in Due' THEN 1 ELSE 0)
  PROVE  credit' \in [Assignments -> 0..(1 + Cardinality(Schedulers))]
<1>1. \A a \in Assignments : credit'[a] \in 0..(1 + Cardinality(Schedulers))
  BY PushingBoundNext
<1> QED BY <1>1

\* The jobs of a set of claimed assignments leave a replica's hands.
LEMMA SettleBalances ==
  ASSUME SchedulerInv, NEW s \in Schedulers, NEW S \in SUBSET tick[s].batch, Settle(s, S)
  PROVE  /\ tick' \in [Schedulers -> Tick]
         /\ credit' \in [Assignments -> Int]
         /\ \A t \in Schedulers \ {s} : tick'[t] = tick[t]
         /\ tick'[s].stage \in {"waiting", tick[s].stage}
         /\ tick'[s].batch \subseteq tick[s].batch
         /\ \A a \in Assignments : credit'[a] = IF a \in S THEN credit[a] - 1 ELSE credit[a]
         /\ tick[s].stage = "pushing" =>
              \A a \in Assignments :
                Pushing(a)' = IF a \in S THEN Pushing(a) \ {s} ELSE Pushing(a)
<1> DEFINE left == tick[s].batch \ S
           next == IF left = {} THEN Waiting ELSE [tick[s] EXCEPT !.batch = left]
<1>1. /\ tick \in [Schedulers -> Tick]
      /\ credit \in [Assignments -> 0..(1 + Cardinality(Schedulers))]
      /\ Cardinality(Schedulers) \in Nat
  BY PushingBound DEF SchedulerInv, TypeOK
<1>2. tick' = [tick EXCEPT ![s] = next]
  BY <1>1 DEF Settle
<1>3. /\ next \in Tick /\ next.batch = left
      /\ next.stage = IF left = {} THEN "waiting" ELSE tick[s].stage
  BY <1>1 DEF Tick, Waiting
<1> HIDE DEF next
<1>4. /\ tick' \in [Schedulers -> Tick] /\ tick'[s] = next
      /\ \A t \in Schedulers \ {s} : tick'[t] = tick[t]
  BY <1>1, <1>2, <1>3
<1>5. \A a \in Assignments : credit'[a] = IF a \in S THEN credit[a] - 1 ELSE credit[a]
  BY DEF Settle
<1>6. credit' \in [Assignments -> Int]
  <2>1. \A a \in Assignments : credit'[a] \in Int
    BY <1>1, <1>5
  <2> QED BY <2>1 DEF Settle
<1>7. ASSUME tick[s].stage = "pushing", NEW a \in Assignments
      PROVE  Pushing(a)' = IF a \in S THEN Pushing(a) \ {s} ELSE Pushing(a)
  <2>1. s \in Pushing(a)' <=> a \in left
    BY <1>3, <1>4, <1>7 DEF Pushing
  <2>2. s \in Pushing(a) <=> a \in tick[s].batch
    BY <1>7 DEF Pushing
  <2>3. \A t \in Schedulers \ {s} : t \in Pushing(a)' <=> t \in Pushing(a)
    BY <1>4 DEF Pushing
  <2>4. Pushing(a) \subseteq Schedulers /\ Pushing(a)' \subseteq Schedulers
    BY DEF Pushing
  <2>5. s \in Pushing(a)' <=> s \in Pushing(a) /\ a \notin S
    BY <2>1, <2>2
  <2> QED BY <2>3, <2>4, <2>5
<1> QED BY <1>3, <1>4, <1>5, <1>6, <1>7

-----------------------------------------------------------------------------
(* The steps.                                                              *)

LEMMA SchedulerInit == Init => SchedulerInv
<1> SUFFICES ASSUME Init PROVE SchedulerInv
  OBVIOUS
<1>1. Cardinality(Schedulers) \in Nat
  BY PushingBound
<1>2. \A a : Pushing(a) = {}
  BY DEF Init, Pushing, Waiting
<1>3. \A a : Cardinality(Pushing(a)) = 0
  BY <1>2, FS_EmptySet
<1>4. Waiting \in Tick
  BY DEF Waiting, Tick
<1>5. tick \in [Schedulers -> Tick]
  BY <1>4 DEF Init
<1>6. credit \in [Assignments -> 0..(1 + Cardinality(Schedulers))]
  BY <1>1 DEF Init
<1>7. 0 \in 0..MaxFaults /\ 0 \in 0..MaxEdits
  BY SchedulerAssumption
<1>8. TypeOK
  BY <1>5, <1>6, <1>7 DEF Init, TypeOK
<1>9. Due = Assignments
  BY DEF Init, Due
<1>10. WindowsAccounted
  BY <1>3, <1>9 DEF Init, WindowsAccounted, Waiting
<1>11. LocksHeld
  BY DEF Init, LocksHeld, Waiting
<1> QED BY <1>8, <1>10, <1>11 DEF SchedulerInv

\* A window opens.
LEMMA FallDueKeeps ==
  ASSUME SchedulerInv, NEW a \in Assignments, FallDue(a)
  PROVE  SchedulerInv'
<1> USE DEF SchedulerInv, FallDue, bounds
<1>1. /\ line' \in SUBSET (Assignments \X Assignments) /\ IsLine(line')
      /\ Due' = Due \cup {a}
  BY LineGrows DEF TypeOK, Due
<1>2. \A b \in Assignments : Pushing(b)' = Pushing(b)
  BY DEF Pushing
<1>3. /\ \A b \in Assignments : credit'[b] = IF b = a THEN credit[b] + 1 ELSE credit[b]
      /\ credit' \in [Assignments -> Int]
  BY PushingBound DEF TypeOK
<1>4. \A b \in Assignments : credit'[b] = Cardinality(Pushing(b)') + (IF b \in Due' THEN 1 ELSE 0)
  <2> TAKE b \in Assignments
  <2>1. credit[b] = Cardinality(Pushing(b)) + (IF b \in Due THEN 1 ELSE 0)
    BY DEF WindowsAccounted
  <2> QED BY <1>1, <1>2, <1>3, <2>1, PushingBound
<1>5. TypeOK'
  BY <1>1, <1>3, <1>4, BooksType DEF TypeOK
<1>6. WindowsAccounted'
  BY <1>1, <1>4 DEF WindowsAccounted
<1>7. LocksHeld'
  BY DEF LocksHeld
<1> QED BY <1>5, <1>6, <1>7

\* A pause waits for the statement that has locked the row.
LEMMA PauseKeeps ==
  ASSUME SchedulerInv, NEW a \in Assignments, Pause(a)
  PROVE  SchedulerInv'
<1> USE DEF SchedulerInv, Pause
<1>1. Due' = Due /\ \A b \in Assignments : Pushing(b)' = Pushing(b)
  BY DEF Due, Pushing
<1>2. edits' \in 0..MaxEdits /\ faults' = faults
  BY SchedulerAssumption DEF Edit, TypeOK
<1>3. TypeOK'
  BY <1>2 DEF TypeOK
<1>4. LocksHeld'
  BY DEF LocksHeld
<1>5. ASSUME NEW s \in Schedulers, tick[s].stage = "claiming"
      PROVE  a \notin tick[s].batch
  BY <1>5, SchedulerAssumption DEF LocksHeld, Unlocked
<1>6. WindowsAccounted'
  BY <1>1, <1>5 DEF WindowsAccounted
<1> QED BY <1>3, <1>4, <1>6

\* A row that is renewed goes to the end of the line, with the window it had if it had one.
LEMMA RenewKeeps ==
  ASSUME SchedulerInv, NEW a \in Assignments, Renew(a)
  PROVE  SchedulerInv'
<1> USE DEF SchedulerInv, Renew
<1>1. /\ Without({a}) \in SUBSET (Assignments \X Assignments)
      /\ IsLine(Without({a}))
      /\ DueIn(Without({a})) = Due \ {a}
  BY LineWithout DEF TypeOK
<1>2. /\ line' \in SUBSET (Assignments \X Assignments) /\ IsLine(line')
      /\ Due' = Due \cup {a}
  <2>1. line' = AtTheEnd(Without({a}), a)
    OBVIOUS
  <2>2. a \notin DueIn(Without({a}))
    BY <1>1
  <2>3. /\ line' \in SUBSET (Assignments \X Assignments) /\ IsLine(line')
        /\ DueIn(line') = (Due \ {a}) \cup {a}
    BY <1>1, <2>1, <2>2, LineGrows
  <2> QED BY <2>3 DEF Due
<1>3. \A b \in Assignments : Pushing(b)' = Pushing(b)
  BY DEF Pushing
<1>4. /\ \A b \in Assignments :
           credit'[b] = IF b = a /\ a \notin Due THEN credit[b] + 1 ELSE credit[b]
      /\ credit' \in [Assignments -> Int]
  BY PushingBound DEF TypeOK
<1>5. \A b \in Assignments : credit'[b] = Cardinality(Pushing(b)') + (IF b \in Due' THEN 1 ELSE 0)
  <2> TAKE b \in Assignments
  <2>1. credit[b] = Cardinality(Pushing(b)) + (IF b \in Due THEN 1 ELSE 0)
    BY DEF WindowsAccounted
  <2> QED BY <1>2, <1>3, <1>4, <2>1, PushingBound
<1>6. edits' \in 0..MaxEdits /\ faults' = faults
  BY SchedulerAssumption DEF Edit, TypeOK
<1>7. TypeOK'
  BY <1>2, <1>4, <1>5, <1>6, BooksType DEF TypeOK
<1>8. WindowsAccounted'
  BY <1>2, <1>5 DEF WindowsAccounted
<1>9. LocksHeld'
  BY DEF LocksHeld
<1> QED BY <1>7, <1>8, <1>9

\* A batch is locked row by row, none of them locked before.
LEMMA SelectKeeps ==
  ASSUME SchedulerInv, NEW s \in Schedulers, Select(s)
  PROVE  SchedulerInv'
<1> USE DEF SchedulerInv
<1>1. PICK busy : SelectDue(s, busy)
  BY DEF Select
<1> DEFINE batch == FirstOf({a \in (Due \cap enabled) \ busy : Unlocked(a)})
<1>2. /\ batch \subseteq Due \cap enabled /\ batch \subseteq Assignments
      /\ \A a \in batch : locked[a] = Nobody
  BY DEF FirstOf, Unlocked, Due, DueIn, TypeOK
<1>3. /\ tick[s].stage = "waiting"
      /\ tick' = [tick EXCEPT ![s] = [stage |-> "claiming", batch |-> batch]]
      /\ locked' = [a \in Assignments |-> IF a \in batch THEN s ELSE locked[a]]
      /\ UNCHANGED <<line, enabled, credit>>
  BY <1>1 DEF SelectDue
<1> HIDE DEF batch
<1>4. /\ tick' \in [Schedulers -> Tick]
      /\ tick'[s] = [stage |-> "claiming", batch |-> batch]
      /\ \A t \in Schedulers \ {s} : tick'[t] = tick[t]
  BY <1>2, <1>3 DEF TypeOK, Tick
<1>5. locked' \in [Assignments -> Schedulers \cup {Nobody}]
  BY <1>3 DEF TypeOK
<1>6. Due' = Due
  BY <1>3 DEF Due
<1>7. \A a \in Assignments : Pushing(a)' = Pushing(a)
  BY <1>3, <1>4 DEF Pushing
<1>8. faults' \in 0..MaxFaults /\ edits' \in 0..MaxEdits
  <2>1. faults \in 0..MaxFaults /\ edits \in 0..MaxEdits /\ MaxFaults \in Nat
    BY SchedulerAssumption DEF TypeOK
  <2>2. CASE UNCHANGED bounds
    BY <2>1, <2>2 DEF bounds
  <2>3. CASE Fault
    BY <2>1, <2>3 DEF Fault
  <2> QED BY <2>2, <2>3 DEF Select
<1>9. TypeOK'
  BY <1>3, <1>4, <1>5, <1>8 DEF TypeOK
<1>10. LocksHeld'
  BY <1>2, <1>3, <1>4, SchedulerAssumption DEF LocksHeld, WindowsAccounted, Due, DueIn, TypeOK, Tick
<1>11. WindowsAccounted'
  BY <1>2, <1>3, <1>4, <1>6, <1>7 DEF WindowsAccounted
<1> QED BY <1>9, <1>10, <1>11

\* The batches of two statements under way have no row in common.
LEMMA BatchesApart ==
  ASSUME SchedulerInv, NEW s \in Schedulers, NEW t \in Schedulers \ {s},
         tick[s].stage = "claiming", tick[t].stage = "claiming"
  PROVE  tick[s].batch \cap tick[t].batch = {}
BY DEF SchedulerInv, LocksHeld

\* The windows of a batch move from the line to the replica.
LEMMA ClaimKeeps ==
  ASSUME SchedulerInv, NEW s \in Schedulers, Claim(s)
  PROVE  SchedulerInv'
<1> USE DEF SchedulerInv
<1> DEFINE batch == tick[s].batch
<1>1. /\ tick[s].stage = "claiming" /\ Unlock(s)
      /\ line' = Without(batch)
      /\ UNCHANGED <<enabled, credit, faults, edits>>
  BY DEF Claim, Advanced, bounds
<1>2. /\ line' \in SUBSET (Assignments \X Assignments) /\ IsLine(line')
      /\ Due' = Due \ batch
  BY <1>1, LineWithout DEF TypeOK, Due
<1>3. /\ tick' \in [Schedulers -> Tick]
      /\ tick'[s].stage = "pushing" /\ tick'[s].batch = batch
      /\ \A t \in Schedulers \ {s} : tick'[t] = tick[t]
  BY DEF Claim, TypeOK, Tick
<1>4. batch \subseteq Due \cap enabled /\ batch \subseteq Assignments
  BY <1>1 DEF WindowsAccounted, TypeOK, Tick
<1> HIDE DEF batch
<1>5. ASSUME NEW a \in Assignments
      PROVE  credit'[a] = Cardinality(Pushing(a)') + (IF a \in Due' THEN 1 ELSE 0)
  <2>1. credit[a] = Cardinality(Pushing(a)) + (IF a \in Due THEN 1 ELSE 0)
    BY DEF WindowsAccounted
  <2>2. s \notin Pushing(a) /\ \A t \in Schedulers \ {s} : t \in Pushing(a)' <=> t \in Pushing(a)
    BY <1>1, <1>3 DEF Pushing
  <2>3. Pushing(a) \subseteq Schedulers /\ Pushing(a)' \subseteq Schedulers
    BY DEF Pushing
  <2>4. CASE a \in batch
    <3>1. s \in Pushing(a)'
      BY <1>3, <2>4 DEF Pushing
    <3>2. Pushing(a)' = Pushing(a) \cup {s}
      BY <2>2, <2>3, <3>1
    <3>3. Cardinality(Pushing(a)') = Cardinality(Pushing(a)) + 1
      <4>1. Cardinality(Pushing(a) \cup {s}) = Cardinality(Pushing(a)) + 1
        BY <2>2, PushingBound, FS_AddElement
      <4> QED BY <3>2, <4>1
    <3> QED BY <1>1, <1>2, <1>4, <2>1, <2>4, <3>3, PushingBound
  <2>5. CASE a \notin batch
    <3>1. s \notin Pushing(a)'
      BY <1>3, <2>5 DEF Pushing
    <3>2. Pushing(a)' = Pushing(a)
      BY <2>2, <2>3, <3>1
    <3> QED BY <1>1, <1>2, <2>1, <2>5, <3>2
  <2> QED BY <2>4, <2>5
<1>6. locked' \in [Assignments -> Schedulers \cup {Nobody}]
  BY <1>1 DEF Unlock, TypeOK
<1>7. TypeOK'
  BY <1>1, <1>2, <1>3, <1>6 DEF TypeOK
<1>8. LocksHeld'
  BY <1>1, <1>3 DEF LocksHeld, Unlock, TypeOK, Tick
<1>9. ASSUME NEW t \in Schedulers, tick'[t].stage = "claiming"
      PROVE  tick'[t].batch \subseteq Due' \cap enabled'
  <2>1. t # s /\ tick'[t] = tick[t]
    BY <1>3, <1>9
  <2>2. batch \cap tick[t].batch = {}
    BY <1>1, <1>9, <2>1, BatchesApart DEF batch
  <2> QED BY <1>1, <1>2, <1>9, <2>1, <2>2 DEF WindowsAccounted
<1>10. WindowsAccounted'
  BY <1>5, <1>9 DEF WindowsAccounted
<1> QED BY <1>7, <1>8, <1>10

\* The windows of a region's jobs are over.
LEMMA PushKeeps ==
  ASSUME SchedulerInv, NEW s \in Schedulers, NEW r, Push(s, r)
  PROVE  SchedulerInv'
<1> USE DEF SchedulerInv
<1> DEFINE S == InRegion(s, r)
<1>1. /\ tick[s].stage = "pushing" /\ Settle(s, S) /\ S \in SUBSET tick[s].batch
      /\ UNCHANGED <<line, enabled, locked, faults, edits>>
  BY DEF Push, InRegion, bounds
<1> HIDE DEF S
<1>2. /\ tick' \in [Schedulers -> Tick]
      /\ credit' \in [Assignments -> Int]
      /\ \A t \in Schedulers \ {s} : tick'[t] = tick[t]
      /\ tick'[s].stage \in {"waiting", "pushing"}
      /\ \A a \in Assignments : credit'[a] = IF a \in S THEN credit[a] - 1 ELSE credit[a]
      /\ \A a \in Assignments : Pushing(a)' = IF a \in S THEN Pushing(a) \ {s} ELSE Pushing(a)
  BY <1>1, SettleBalances
<1>3. Due' = Due
  BY <1>1 DEF Due
<1>4. ASSUME NEW a \in Assignments
      PROVE  credit'[a] = Cardinality(Pushing(a)') + (IF a \in Due' THEN 1 ELSE 0)
  <2>1. credit[a] = Cardinality(Pushing(a)) + (IF a \in Due THEN 1 ELSE 0)
    BY DEF WindowsAccounted
  <2>2. CASE a \in S
    <3>1. s \in Pushing(a)
      BY <1>1, <2>2 DEF Pushing
    <3>2. Cardinality(Pushing(a) \ {s}) = Cardinality(Pushing(a)) - 1
      BY <3>1, PushingBound, FS_RemoveElement
    <3>3. Pushing(a)' = Pushing(a) \ {s} /\ credit'[a] = credit[a] - 1
      BY <1>2, <2>2
    <3> QED BY <1>3, <2>1, <3>2, <3>3, PushingBound
  <2>3. CASE a \notin S
    BY <1>2, <1>3, <2>1, <2>3
  <2> QED BY <2>2, <2>3
<1>5. TypeOK'
  BY <1>1, <1>2, <1>4, BooksType DEF TypeOK
<1>6. LocksHeld'
  BY <1>1, <1>2 DEF LocksHeld
<1>7. WindowsAccounted'
  BY <1>1, <1>2, <1>3, <1>4 DEF WindowsAccounted
<1> QED BY <1>5, <1>6, <1>7

\* A tick is cut short before its claim took effect, and nothing has moved; or after it,
\* and the windows it had claimed are over.
LEMMA CutShortKeeps ==
  ASSUME SchedulerInv, NEW s \in Schedulers, CutShort(s)
  PROVE  SchedulerInv'
<1> USE DEF SchedulerInv
<1> DEFINE batch == tick[s].batch
<1>1. Fault /\ tick[s].stage \in {"claiming", "pushing"} /\ Unlock(s) /\ UNCHANGED enabled
  BY DEF CutShort, TypeOK, Tick
<1>2. faults' \in 0..MaxFaults /\ edits' = edits
  BY <1>1, SchedulerAssumption DEF Fault, TypeOK
<1>3. locked' \in [Assignments -> Schedulers \cup {Nobody}]
  BY <1>1 DEF Unlock, TypeOK
<1>4. /\ tick \in [Schedulers -> Tick] /\ batch \subseteq Assignments
      /\ tick[s].stage = "claiming" => batch \subseteq Due \cap enabled
  BY DEF TypeOK, Tick, WindowsAccounted
<1>5. \A a \in Assignments :
        credit[a] = Cardinality(Pushing(a)) + (IF a \in Due THEN 1 ELSE 0)
  BY DEF WindowsAccounted
<1>6. ASSUME tick' \in [Schedulers -> Tick],
             \A t \in Schedulers \ {s} : tick'[t] = tick[t],
             tick'[s].stage # "claiming"
      PROVE  LocksHeld'
  BY <1>1, <1>6 DEF LocksHeld, Unlock, TypeOK, Tick
<1>7. CASE tick[s].stage = "claiming" /\ tick' = [tick EXCEPT ![s] = Waiting]
             /\ UNCHANGED <<line, credit>>
  <2>1. /\ tick' \in [Schedulers -> Tick] /\ tick'[s] = Waiting
        /\ \A t \in Schedulers \ {s} : tick'[t] = tick[t]
    BY <1>4, <1>7 DEF Waiting, Tick
  <2>2. Due' = Due
    BY <1>7 DEF Due
  <2>3. \A a \in Assignments : Pushing(a)' = Pushing(a)
    BY <1>7, <2>1 DEF Pushing, Waiting
  <2>4. TypeOK'
    BY <1>1, <1>2, <1>3, <1>7, <2>1 DEF TypeOK
  <2>5. WindowsAccounted'
    BY <1>1, <1>7, <2>1, <2>2, <2>3 DEF WindowsAccounted, Waiting
  <2> QED BY <1>6, <2>1, <2>4, <2>5 DEF Waiting
<1>8. CASE Settle(s, batch)
             /\ line' = IF tick[s].stage = "claiming" THEN Advanced(batch) ELSE line
  <2>1. /\ tick' \in [Schedulers -> Tick]
        /\ credit' \in [Assignments -> Int]
        /\ \A t \in Schedulers \ {s} : tick'[t] = tick[t]
        /\ \A a \in Assignments : credit'[a] = IF a \in batch THEN credit[a] - 1 ELSE credit[a]
        /\ tick[s].stage = "pushing" =>
             \A a \in Assignments :
               Pushing(a)' = IF a \in batch THEN Pushing(a) \ {s} ELSE Pushing(a)
    BY <1>8, SettleBalances
  <2>2. tick'[s] = Waiting
    BY <1>4, <1>8 DEF Settle
  <2>3. /\ line' \in SUBSET (Assignments \X Assignments) /\ IsLine(line')
        /\ Due' = IF tick[s].stage = "claiming" THEN Due \ batch ELSE Due
    BY <1>8, LineWithout DEF TypeOK, Due, Advanced
  <2>4. ASSUME NEW a \in Assignments
        PROVE  credit'[a] = Cardinality(Pushing(a)') + (IF a \in Due' THEN 1 ELSE 0)
    <3>1. CASE tick[s].stage = "claiming"
      <4>1. Pushing(a)' = Pushing(a)
        BY <2>1, <2>2, <3>1 DEF Pushing, Waiting
      <4>2. CASE a \in batch
        <5>1. a \in Due /\ a \notin Due' /\ credit'[a] = credit[a] - 1
          BY <1>4, <2>1, <2>3, <3>1, <4>2
        <5> QED BY <1>5, <4>1, <5>1, PushingBound
      <4>3. CASE a \notin batch
        BY <1>5, <2>1, <2>3, <3>1, <4>1, <4>3
      <4> QED BY <4>2, <4>3
    <3>2. CASE tick[s].stage = "pushing"
      <4>1. Due' = Due
        BY <2>3, <3>2
      <4>2. CASE a \in batch
        <5>1. s \in Pushing(a)
          BY <3>2, <4>2 DEF Pushing
        <5>2. Cardinality(Pushing(a) \ {s}) = Cardinality(Pushing(a)) - 1
          BY <5>1, PushingBound, FS_RemoveElement
        <5>3. Pushing(a)' = Pushing(a) \ {s} /\ credit'[a] = credit[a] - 1
          BY <2>1, <3>2, <4>2
        <5> QED BY <1>5, <4>1, <5>2, <5>3, PushingBound
      <4>3. CASE a \notin batch
        BY <1>5, <2>1, <3>2, <4>1, <4>3
      <4> QED BY <4>2, <4>3
    <3> QED BY <1>1, <3>1, <3>2
  <2>5. TypeOK'
    BY <1>1, <1>2, <1>3, <2>1, <2>3, <2>4, BooksType DEF TypeOK
  <2>6. ASSUME NEW t \in Schedulers, tick'[t].stage = "claiming"
        PROVE  tick'[t].batch \subseteq Due' \cap enabled'
    <3>1. t # s /\ tick'[t] = tick[t]
      BY <2>1, <2>2, <2>6 DEF Waiting
    <3>2. tick[t].batch \subseteq Due \cap enabled
      BY <2>6, <3>1 DEF WindowsAccounted
    <3>3. tick[s].stage = "claiming" => batch \cap tick[t].batch = {}
      BY <2>6, <3>1, BatchesApart
    <3> QED BY <1>1, <2>3, <3>1, <3>2, <3>3
  <2>7. WindowsAccounted'
    BY <2>4, <2>6 DEF WindowsAccounted
  <2> QED BY <1>6, <2>1, <2>2, <2>5, <2>7 DEF Waiting
<1> QED BY <1>7, <1>8 DEF CutShort

LEMMA SchedulerStep == SchedulerInv /\ [Next]_vars => SchedulerInv'
<1> SUFFICES ASSUME SchedulerInv, [Next]_vars PROVE SchedulerInv'
  OBVIOUS
<1>1. CASE UNCHANGED vars
  BY <1>1 DEF vars, SchedulerInv, TypeOK, LocksHeld, WindowsAccounted, Due, Pushing
<1>2. CASE Next
  BY <1>2, FallDueKeeps, PauseKeeps, RenewKeeps, SelectKeeps, ClaimKeeps, PushKeeps,
     CutShortKeeps DEF Next
<1> QED BY <1>1, <1>2

LEMMA SchedulerInvariant == Spec => []SchedulerInv
BY SchedulerInit, SchedulerStep, PTL DEF Spec

\* The line stays a line, and every variable keeps its type; Scheduler.TypeOK.
THEOREM TypeCorrect == Spec => []TypeOK
<1>1. SchedulerInv => TypeOK
  BY DEF SchedulerInv
<1> QED BY <1>1, SchedulerInvariant, PTL

\* Every due window is open, or with exactly one replica, or over, and what a replica is
\* about to claim is due and enabled; Scheduler.WindowsAccounted.
THEOREM EveryWindowAccounted == Spec => []WindowsAccounted
<1>1. SchedulerInv => WindowsAccounted
  BY DEF SchedulerInv
<1> QED BY <1>1, SchedulerInvariant, PTL
=============================================================================
