---------------------- MODULE StatusEvaluation_proofs ----------------------
(***************************************************************************)
(* What the row locks of evaluate() and of the API's transactions buy, for *)
(* any number of regions, evaluations and requests: no result is lost,     *)
(* deletes leave nothing behind, an overflow keeps the tally, and an       *)
(* evaluation that nothing overlaps derives the right status.              *)
(***************************************************************************)
EXTENDS StatusEvaluation, FiniteSetTheorems, TLAPS

\* An evaluation that has not ended works on a row that exists.  It holds that
\* row's lock from its update on, and only that one, so that the health it will
\* commit is still the fold of what the row contains.
EvaluatorLocks ==
  \A e \in Evaluators :
    /\ Active(e) => ev[e].region \in present
    /\ \A r \in Regions : rowLock[r] = e => ev[e].stage = "evaluated" /\ ev[e].region = r
    /\ ev[e].stage = "evaluated" =>
         rowLock[ev[e].region] = e /\ ev[e].health = Folded(e) /\ Fits(Folded(e))

\* A request locks rows that exist; a client without a request locks nothing; a
\* request that writes the monitor row holds its lock.
ClientLocks ==
  \A c \in Clients :
    /\ todo[c] \subseteq present /\ Locked(c) \subseteq present
    /\ request[c] = NoRequest => todo[c] = {} /\ Locked(c) = {} /\ monitorLock # c
    /\ request[c] # NoRequest /\ WritesMonitor(request[c]) => monitorLock = c

\* No assignment can appear that a delete in progress does not know of.
DeletesCover ==
  \A c \in Clients : DeletedBy(c) => present \subseteq Locked(c) \cup todo[c]

\* Nothing happens to a monitor that was not created.
NothingBefore ==
  monitor.life = "absent" => \A c \in Clients : request[c] = NoRequest

\* A region without an assignment is as good as new.
RowsFresh == \A r \in Regions \ present : rows[r] = FreshRow

\* A counter that stands at its limit has long since decided the status.
Saturated(health) ==
  /\ health.successes >= MaxCount => health.status = "up"
  /\ health.failures >= MaxCount => health.status = "down"
RowsSaturated == \A r \in Regions : Saturated(rows[r].health)

\* An evaluation that nothing overlapped knows the monitor row as it still is.
AloneKnows ==
  \A e \in Evaluators \ overlapped :
    /\ Active(e) => ev[e].status = monitor.status /\ ev[e].quorum = monitor.quorum
    /\ ev[e].stage = "evaluated" =>
         ev[e].overall = OverallStatus(Tallied(e), present, monitor.quorum)

-----------------------------------------------------------------------------
(* The operators of the model.                                             *)

\* The two arbitrary elements of NoWork exist.
LEMMA AnyElements == AnyRegion \in Regions /\ AnyPolicy \in Policies
BY StatusAssumption DEF AnyRegion, AnyPolicy

\* Folding a result into a health whose counters fit their columns gives a
\* health, which fits as well unless Fits says otherwise.
LEMMA FoldTyped ==
  ASSUME NEW health \in Health, NEW up \in BOOLEAN, NEW p \in Policies
  PROVE  /\ evaluateHealth(health, up, p).status \in RegionStatus
         /\ Fits(evaluateHealth(health, up, p)) => evaluateHealth(health, up, p) \in Health
BY StatusAssumption
   DEF Health, RegionStatus, evaluateHealth, NextFailures, NextSuccesses, Fits

\* A counter only reaches its limit through a result that decides the status.
LEMMA FoldSaturated ==
  ASSUME NEW health \in Health, NEW up \in BOOLEAN, NEW p \in Policies,
         Saturated(health)
  PROVE  Saturated(evaluateHealth(health, up, p))
<1>1. /\ AtLeastOne(p.failureThreshold) \in Nat /\ AtLeastOne(p.recoveryThreshold) \in Nat
      /\ AtLeastOne(p.failureThreshold) <= MaxCount
      /\ AtLeastOne(p.recoveryThreshold) <= MaxCount
      /\ MaxCount \in Nat /\ ~(0 >= MaxCount)
  BY StatusAssumption DEF RetryPolicy, AtLeastOne
<1>2. health.failures \in Nat /\ health.successes \in Nat
  BY <1>1 DEF Health
<1>3. CASE up
  BY <1>1, <1>2, <1>3 DEF Saturated, evaluateHealth, NextFailures, NextSuccesses, CompletesStreak
<1>4. CASE ~up
  BY <1>1, <1>2, <1>4 DEF Saturated, evaluateHealth, NextFailures, NextSuccesses, CompletesStreak
<1> QED BY <1>3, <1>4

\* The overall status is one a region can have: paused is never tallied.
LEMMA OverallTyped ==
  ASSUME NEW rs, NEW S, NEW k
  PROVE  OverallStatus(rs, S, k) \in RegionStatus
BY DEF OverallStatus, RegionStatus

-----------------------------------------------------------------------------
(* Types.                                                                  *)

\* An ending request leaves well-typed locks.
LEMMA EndRequestTyped ==
  ASSUME TypeOK, NEW c \in Clients, NEW gone, EndRequest(c, gone)
  PROVE  /\ request' \in [Clients -> Requests \cup {NoRequest}]
         /\ todo' \in [Clients -> SUBSET Regions]
         /\ rowLock' \in [Regions -> Txs \cup {NoTx}]
         /\ monitorLock' \in Clients \cup {NoTx}
BY DEF TypeOK, EndRequest, RowLocksWithout, MonitorLockWithout

\* Dropped evaluations leave well-typed ones.
LEMMA DropWaitersTyped ==
  ASSUME TypeOK, NEW gone, DropWaiters(gone), NoWork \in Evaluation
  PROVE  ev' \in [Evaluators -> Evaluation] /\ overlapped' \in SUBSET Evaluators
BY DEF TypeOK, DropWaiters

\* An idle evaluator's record, and a fresh row, are well typed.
LEMMA DefaultsTyped ==
  /\ NoWork \in Evaluation
  /\ FreshRow \in [enabled: BOOLEAN, health: Health]
<1>1. initialHealth \in Health
  BY StatusAssumption DEF initialHealth, Health, RegionStatus
<1> QED BY <1>1, AnyElements DEF NoWork, Evaluation, FreshRow, MonitorStatus, RegionStatus

\* The quorum that create() stores is a number.
LEMMA ClampTyped ==
  ASSUME NEW new \in Creations
  PROVE  ClampQuorum(new.quorum, Cardinality(new.regions)) \in Nat
<1>1. new.quorum \in Nat /\ new.regions \in SUBSET Regions
  BY StatusAssumption DEF Creation
<1>2. Cardinality(new.regions) \in Nat
  BY <1>1, StatusAssumption, FS_Subset, FS_CardinalityType
<1> QED BY <1>1, <1>2 DEF ClampQuorum, AtLeastOne

\* What an evaluation folds is well typed.
LEMMA FoldedTyped ==
  ASSUME TypeOK, NEW e \in Evaluators, Fits(Folded(e))
  PROVE  Folded(e) \in Health
<1>1. /\ rows[ev[e].region].health \in Health
      /\ ev[e].up \in BOOLEAN /\ ev[e].policy \in Policies
  BY DEF TypeOK, Evaluation
<1> QED BY <1>1, FoldTyped DEF Folded

\* A step of an evaluation keeps every variable in its type.
LEMMA EvaluatorTyped ==
  ASSUME TypeOK, NEW e \in Evaluators, EvaluatorStep(e)
  PROVE  TypeOK'
<1>1. ASSUME NEW r \in Regions, NEW up \in BOOLEAN, Begin(e, r, up) PROVE TypeOK'
  <2>1. [NoWork EXCEPT !.stage = "waiting", !.region = r, !.up = up,
           !.status = monitor.status, !.policy = monitor.policy,
           !.quorum = monitor.quorum] \in Evaluation
    BY <1>1, DefaultsTyped DEF TypeOK, Evaluation, Monitor
  <2>2. ev' \in [Evaluators -> Evaluation]
    BY <1>1, <2>1 DEF Begin, TypeOK
  <2> QED BY <1>1, <2>2 DEF Begin, TypeOK, db, locks, api
<1>2. CASE Evaluate(e)
  <2>1. Folded(e) \in Health
    BY <1>2, FoldedTyped DEF Evaluate
  <2>2. OverallStatus(Tallied(e), present, ev[e].quorum) \in RegionStatus
    BY OverallTyped
  <2>3. ev' \in [Evaluators -> Evaluation]
    <3> DEFINE overall == OverallStatus(Tallied(e), present, ev[e].quorum)
               folded == Folded(e)
    <3>1. ev' = [ev EXCEPT ![e] = [ev[e] EXCEPT !.stage = "evaluated",
                                                !.health = folded,
                                                !.overall = overall]]
      BY <1>2 DEF Evaluate, TypeOK
    <3>2. ev[e] \in Evaluation
      BY DEF TypeOK
    <3>3. folded \in Health /\ overall \in RegionStatus
      BY <2>1, <2>2
    <3> HIDE DEF folded, overall
    <3>4. [ev[e] EXCEPT !.stage = "evaluated", !.health = folded,
                        !.overall = overall] \in Evaluation
      BY <3>2, <3>3 DEF Evaluation
    <3> QED BY <3>1, <3>4 DEF TypeOK
  <2>4. rowLock' \in [Regions -> Txs \cup {NoTx}]
    BY <1>2 DEF Evaluate, TypeOK, Txs
  <2> QED BY <1>2, <2>3, <2>4 DEF Evaluate, TypeOK, db, api
<1>3. CASE Overflow(e)
  BY <1>3, DefaultsTyped DEF Overflow, TypeOK, db, locks, api
<1>4. CASE Commit(e)
  <2>1. ev[e] \in Evaluation
    BY DEF TypeOK
  <2>2. rows' \in [Regions -> [enabled: BOOLEAN, health: Health]]
    BY <1>4, <2>1 DEF Commit, TypeOK, Evaluation
  <2>3. monitor' \in Monitor
    BY <1>4, <2>1 DEF Commit, TypeOK, Evaluation, Monitor, RegionStatus, MonitorStatus
  <2>4. [NoWork EXCEPT !.stage = "committed", !.status = ev[e].status,
                       !.overall = ev[e].overall] \in Evaluation
    BY <2>1, DefaultsTyped DEF Evaluation
  <2>5. ev' \in [Evaluators -> Evaluation]
    BY <1>4, <2>4, DefaultsTyped DEF Commit, TypeOK
  <2>6. incident' \in BOOLEAN
    BY <1>4 DEF Commit, TypeOK, IncidentAfter
  <2>7. rowLock' \in [Regions -> Txs \cup {NoTx}] /\ overlapped' \in SUBSET Evaluators
    BY <1>4 DEF Commit, TypeOK, RowLocksWithout, OverlapsOf
  <2> QED BY <1>4, <2>2, <2>3, <2>5, <2>6, <2>7 DEF Commit, TypeOK, api
<1>5. CASE Publish(e)
  BY <1>5, DefaultsTyped DEF Publish, TypeOK, Evaluation, db, locks, api
<1>6. CASE AbortEvaluation(e)
  BY <1>6, DefaultsTyped DEF AbortEvaluation, TypeOK, RowLocksWithout, db, api
<1> QED BY <1>1, <1>2, <1>3, <1>4, <1>5, <1>6 DEF EvaluatorStep, CrashEvaluator

\* So does the roll-back of any transaction, whoever asked for it.
LEMMA AbortsTyped ==
  ASSUME TypeOK
  PROVE  /\ \A e \in Evaluators : AbortEvaluation(e) => TypeOK'
         /\ \A c \in Clients : AbortRequest(c) => TypeOK'
<1>1. ASSUME NEW e \in Evaluators, AbortEvaluation(e) PROVE TypeOK'
  BY <1>1, DefaultsTyped DEF AbortEvaluation, TypeOK, RowLocksWithout, db, api
<1>2. ASSUME NEW c \in Clients, AbortRequest(c) PROVE TypeOK'
  BY <1>2, EndRequestTyped DEF AbortRequest, TypeOK, db
<1> QED BY <1>1, <1>2

\* A step of a request keeps every variable in its type.
LEMMA ClientTyped ==
  ASSUME TypeOK, NEW c \in Clients, ClientStep(c)
  PROVE  TypeOK'
<1>1. ASSUME NEW q \in Requests, StartRequest(c, q) PROVE TypeOK'
  BY <1>1 DEF StartRequest, TypeOK, db
<1>2. ASSUME NEW r \in Regions, LockRow(c, r) PROVE TypeOK'
  BY <1>2 DEF LockRow, TypeOK, Txs, db
<1>3. CASE SetEnabled(c)
  <2>1. ev' \in [Evaluators -> Evaluation] /\ overlapped' \in SUBSET Evaluators
    BY <1>3, DefaultsTyped, DropWaitersTyped DEF SetEnabled
  <2>2. monitor' \in Monitor
    BY <1>3 DEF SetEnabled, TypeOK, Monitor, MonitorStatus
  <2>3. rows' \in [Regions -> [enabled: BOOLEAN, health: Health]]
    BY <1>3 DEF SetEnabled, TypeOK
  <2>4. EndRequest(c, {})
    BY <1>3 DEF SetEnabled
  <2> QED BY <1>3, <2>1, <2>2, <2>3, <2>4, EndRequestTyped DEF SetEnabled, TypeOK
<1>4. CASE Patch(c)
  <2> DEFINE q == request[c]
             gone == IF DeletesRows(q) THEN Locked(c) ELSE {}
             added == IF InsertsRows(q) THEN q.regions ELSE {}
  <2>1. ev' \in [Evaluators -> Evaluation] /\ overlapped' \in SUBSET Evaluators
    BY <1>4, DefaultsTyped, DropWaitersTyped DEF Patch
  <2>2. q \in Request
    BY <1>4, StatusAssumption DEF Patch, Ready, TypeOK
  <2>3. monitor' \in Monitor
    BY <1>4, <2>2 DEF Patch, PatchedMonitor, TypeOK, Monitor, Request
  <2>4. present' \in SUBSET Regions
    BY <1>4, <2>2 DEF Patch, TypeOK, Request
  <2>5. rows' \in [Regions -> [enabled: BOOLEAN, health: Health]]
    BY <1>4, DefaultsTyped DEF Patch, TypeOK
  <2>6. EndRequest(c, gone)
    BY <1>4 DEF Patch
  <2> QED BY <1>4, <2>1, <2>3, <2>4, <2>5, <2>6, EndRequestTyped DEF Patch, TypeOK
<1>5. CASE Delete(c)
  <2>1. ev' \in [Evaluators -> Evaluation] /\ overlapped' \in SUBSET Evaluators
    BY <1>5, DefaultsTyped, DropWaitersTyped DEF Delete
  <2>2. monitor' \in Monitor
    BY <1>5 DEF Delete, TypeOK, Monitor
  <2>3. rows' \in [Regions -> [enabled: BOOLEAN, health: Health]]
    BY <1>5, DefaultsTyped DEF Delete
  <2>4. EndRequest(c, Regions)
    BY <1>5 DEF Delete
  <2> QED BY <1>5, <2>1, <2>2, <2>3, <2>4, EndRequestTyped DEF Delete, TypeOK
<1>6. CASE AbortRequest(c)
  BY <1>6, AbortsTyped
<1> QED BY <1>1, <1>2, <1>3, <1>4, <1>5, <1>6 DEF ClientStep, InsertFails, CrashClient

\* The database starts well typed.
LEMMA InitTyped == Init => TypeOK
<1> SUFFICES ASSUME Init PROVE TypeOK
  OBVIOUS
<1>1. monitor \in Monitor /\ announced \in RegionStatus
  BY AnyElements DEF Init, Monitor, MonitorStatus, RegionStatus
<1> QED BY <1>1, DefaultsTyped DEF Init, TypeOK

\* Every variable keeps its type, through every interleaving of evaluations and
\* requests: in particular no counter outgrows its column (Overflow).
THEOREM TypeCorrect == Spec => []TypeOK
<1>1. Init => TypeOK
  BY InitTyped
<1>2. TypeOK /\ [Next]_vars => TypeOK'
  <2> SUFFICES ASSUME TypeOK, [Next]_vars PROVE TypeOK'
    OBVIOUS
  <2>1. ASSUME NEW new \in Creations, Create(new) PROVE TypeOK'
    <3>1. new.policy \in Policies /\ new.regions \in SUBSET Regions
      BY StatusAssumption DEF Creation
    <3>2. monitor' \in Monitor
      BY <2>1, <3>1, ClampTyped DEF Create, Monitor, MonitorStatus
    <3> QED BY <2>1, <3>1, <3>2 DEF Create, TypeOK, locks, api
  <2>2. ASSUME NEW e \in Evaluators, EvaluatorStep(e) PROVE TypeOK'
    BY <2>2, EvaluatorTyped
  <2>3. ASSUME NEW c \in Clients, ClientStep(c) PROVE TypeOK'
    BY <2>3, ClientTyped
  <2>4. ASSUME NEW t \in Txs, DeadlockVictim(t) PROVE TypeOK'
    BY <2>4, AbortsTyped DEF DeadlockVictim, Txs
  <2>5. CASE UNCHANGED vars
    BY <2>5 DEF vars, TypeOK
  <2> QED BY <2>1, <2>2, <2>3, <2>4, <2>5 DEF Next
<1> QED BY <1>1, <1>2, PTL DEF Spec

-----------------------------------------------------------------------------
(* Locks.                                                                  *)

LockInv == /\ TypeOK /\ EvaluatorLocks /\ ClientLocks /\ DeletesCover
           /\ NothingBefore /\ RowsFresh /\ NoOrphans

\* No evaluation is a client, and a free lock belongs to neither.
LEMMA DistinctTxs ==
  /\ \A e \in Evaluators, c \in Clients : e # c
  /\ \A e \in Evaluators : e # NoTx
  /\ \A c \in Clients : c # NoTx
BY StatusAssumption

\* An evaluation that begins waits for a row that exists, and locks nothing yet.
LEMMA BeginKeepsLocks ==
  ASSUME LockInv, NEW e \in Evaluators, NEW r \in Regions, NEW up \in BOOLEAN,
         Begin(e, r, up), TypeOK'
  PROVE  LockInv'
<1> USE DEF LockInv
<1>1. /\ ev'[e].stage = "waiting" /\ ev'[e].region = r
      /\ \A x \in Evaluators \ {e} : ev'[x] = ev[x]
  BY DEF Begin, TypeOK
<1>2. UNCHANGED <<monitor, present, rows, incident, rowLock, monitorLock, request, todo>>
  BY DEF Begin, db, locks, api
<1>3. EvaluatorLocks'
  BY <1>1, <1>2 DEF Begin, EvaluatorLocks, Active, Folded, Fits
<1>4. (ClientLocks /\ DeletesCover /\ NothingBefore /\ RowsFresh)'
  BY <1>2 DEF ClientLocks, DeletesCover, NothingBefore, RowsFresh, Locked, DeletedBy, WritesMonitor
<1>5. NoOrphans'
  BY <1>2 DEF Begin, NoOrphans
<1> QED BY <1>3, <1>4, <1>5

\* The row lock is granted: the health to commit is the fold of the locked row.
LEMMA EvaluateKeepsLocks ==
  ASSUME LockInv, NEW e \in Evaluators, Evaluate(e), TypeOK'
  PROVE  LockInv'
<1> USE DEF LockInv
<1>1. /\ ev'[e].stage = "evaluated" /\ ev'[e].region = ev[e].region
      /\ ev'[e].up = ev[e].up /\ ev'[e].policy = ev[e].policy
      /\ ev'[e].health = Folded(e)
      /\ \A x \in Evaluators \ {e} : ev'[x] = ev[x]
      /\ ev[e].region \in Regions
  BY DEF Evaluate, TypeOK, Evaluation
<1>2. UNCHANGED <<monitor, present, rows, incident, monitorLock, request, todo>>
  BY DEF Evaluate, db, api
<1>3. /\ rowLock[ev[e].region] = NoTx /\ rowLock'[ev[e].region] = e
      /\ \A r \in Regions \ {ev[e].region} : rowLock'[r] = rowLock[r]
  BY <1>1 DEF Evaluate, RowFree, TypeOK
<1>4. \A x \in Evaluators : Folded(x)' = Folded(x)
  BY <1>1, <1>2 DEF Folded
<1>5. EvaluatorLocks'
  <2> SUFFICES ASSUME NEW x \in Evaluators
      PROVE  /\ Active(x)' => ev'[x].region \in present
             /\ \A r \in Regions : rowLock'[r] = x => ev'[x].stage = "evaluated" /\ ev'[x].region = r
             /\ ev'[x].stage = "evaluated" =>
                  rowLock'[ev'[x].region] = x /\ ev'[x].health = Folded(x) /\ Fits(Folded(x))
    BY <1>2, <1>4 DEF EvaluatorLocks, Fits
  <2>1. CASE x = e
    <3>1. Active(e) /\ Fits(Folded(e))
      BY DEF Evaluate, Active
    <3> QED BY <1>1, <1>3, <2>1, <3>1 DEF EvaluatorLocks
  <2>2. CASE x # e
    <3>1. ev'[x] = ev[x] /\ (Active(x)' <=> Active(x)) /\ ev[x].region \in Regions
      BY <1>1, <2>2 DEF Active, TypeOK, Evaluation
    <3>2. \A r \in Regions : rowLock'[r] = x <=> rowLock[r] = x
      BY <1>3, <2>2, DistinctTxs
    <3> QED BY <3>1, <3>2 DEF EvaluatorLocks
  <2> QED BY <2>1, <2>2
<1>6. \A c \in Clients : Locked(c)' = Locked(c)
  BY <1>1, <1>3, DistinctTxs DEF Locked
<1>7. (ClientLocks /\ DeletesCover /\ NothingBefore /\ RowsFresh)'
  BY <1>2, <1>6 DEF ClientLocks, DeletesCover, NothingBefore, RowsFresh, DeletedBy, WritesMonitor
<1>8. NoOrphans'
  <2>1. Active(e)
    BY DEF Evaluate, Active
  <2> QED BY <1>2, <2>1 DEF NoOrphans
<1> QED BY <1>5, <1>7, <1>8

\* An evaluation that ends without committing: Overflow, Publish, a crash, or
\* being the victim of a deadlock.
LEMMA AbandonKeepsLocks ==
  ASSUME LockInv, NEW e \in Evaluators, TypeOK', UNCHANGED <<db, monitorLock, api>>,
         ev' = [ev EXCEPT ![e] = NoWork], rowLock' = RowLocksWithout(e)
  PROVE  LockInv'
<1> USE DEF LockInv
<1>1. /\ ev'[e].stage = "idle"
      /\ \A x \in Evaluators \ {e} : ev'[x] = ev[x]
  BY DEF TypeOK, NoWork
<1>2. UNCHANGED <<monitor, present, rows, incident, monitorLock, request, todo>>
  BY DEF db, api
<1>3. \A r \in Regions : rowLock'[r] = IF rowLock[r] = e THEN NoTx ELSE rowLock[r]
  BY DEF RowLocksWithout
<1>4. \A x \in Evaluators \ {e} : (Folded(x)' = Folded(x)) /\ (Active(x)' <=> Active(x))
  BY <1>1, <1>2 DEF Folded, Active
<1>5. EvaluatorLocks'
  <2> SUFFICES ASSUME NEW x \in Evaluators
      PROVE  /\ Active(x)' => ev'[x].region \in present
             /\ \A r \in Regions : rowLock'[r] = x => ev'[x].stage = "evaluated" /\ ev'[x].region = r
             /\ ev'[x].stage = "evaluated" =>
                  rowLock'[ev'[x].region] = x /\ ev'[x].health = Folded(x)' /\ Fits(Folded(x)')
    BY <1>2 DEF EvaluatorLocks, Fits
  <2>1. CASE x = e
    BY <1>1, <1>3, <2>1, DistinctTxs DEF Active
  <2>2. CASE x # e
    <3>1. ev[x].region \in Regions
      BY DEF TypeOK, Evaluation
    <3>2. \A r \in Regions : rowLock'[r] = x <=> rowLock[r] = x
      BY <1>3, <2>2, DistinctTxs
    <3> QED BY <1>1, <1>4, <2>2, <3>1, <3>2 DEF EvaluatorLocks
  <2> QED BY <2>1, <2>2
<1>6. \A c \in Clients : Locked(c)' = Locked(c)
  BY <1>3, DistinctTxs DEF Locked
<1>7. (ClientLocks /\ DeletesCover /\ NothingBefore /\ RowsFresh)'
  BY <1>2, <1>6 DEF ClientLocks, DeletesCover, NothingBefore, RowsFresh, DeletedBy, WritesMonitor
<1>8. NoOrphans'
  BY <1>1, <1>2, <1>4 DEF NoOrphans, Active
<1> QED BY <1>5, <1>7, <1>8

\* A commit changes the row it has locked and no row of another evaluation.
LEMMA CommitKeepsLocks ==
  ASSUME LockInv, NEW e \in Evaluators, Commit(e), TypeOK'
  PROVE  LockInv'
<1> DEFINE s == ev[e].region
<1> USE DEF LockInv
<1>1. /\ ev'[e].stage \in {"idle", "committed"}
      /\ \A x \in Evaluators \ {e} : ev'[x] = ev[x]
  BY DEF Commit, TypeOK, NoWork
<1>2. UNCHANGED <<present, monitorLock, request, todo>> /\ monitor'.life = monitor.life
  BY DEF Commit, api, TypeOK, Monitor
<1>3. /\ s \in Regions /\ s \in present /\ rowLock[s] = e /\ Active(e)
      /\ \A r \in Regions \ {s} : rows'[r] = rows[r]
  BY DEF Commit, TypeOK, Evaluation, EvaluatorLocks, Active
<1>4. \A r \in Regions : rowLock'[r] = IF rowLock[r] = e THEN NoTx ELSE rowLock[r]
  BY DEF Commit, RowLocksWithout
<1>5. EvaluatorLocks'
  <2> SUFFICES ASSUME NEW x \in Evaluators
      PROVE  /\ Active(x)' => ev'[x].region \in present
             /\ \A r \in Regions : rowLock'[r] = x => ev'[x].stage = "evaluated" /\ ev'[x].region = r
             /\ ev'[x].stage = "evaluated" =>
                  rowLock'[ev'[x].region] = x /\ ev'[x].health = Folded(x)' /\ Fits(Folded(x)')
    BY <1>2 DEF EvaluatorLocks, Fits
  <2>1. CASE x = e
    BY <1>1, <1>4, <2>1, DistinctTxs DEF Active
  <2>2. CASE x # e
    <3>1. ev'[x] = ev[x] /\ ev[x].region \in Regions /\ (Active(x)' <=> Active(x))
      BY <1>1, <2>2 DEF TypeOK, Evaluation, Active
    <3>2. \A r \in Regions : rowLock'[r] = x <=> rowLock[r] = x
      BY <1>4, <2>2, DistinctTxs
    <3>3. ev[x].stage = "evaluated" => rowLock[ev[x].region] = x
      BY DEF EvaluatorLocks
    <3>4. ev[x].stage = "evaluated" => rows'[ev[x].region] = rows[ev[x].region]
      BY <1>3, <2>2, <3>1, <3>3
    <3>5. ev[x].stage = "evaluated" => Folded(x)' = Folded(x)
      BY <3>1, <3>4 DEF Folded
    <3> QED BY <1>2, <3>1, <3>2, <3>5 DEF EvaluatorLocks
  <2> QED BY <2>1, <2>2
<1>6. \A c \in Clients : Locked(c)' = Locked(c)
  BY <1>4, DistinctTxs DEF Locked
<1>7. (ClientLocks /\ DeletesCover /\ NothingBefore)'
  BY <1>2, <1>6 DEF ClientLocks, DeletesCover, NothingBefore, DeletedBy, WritesMonitor
<1>8. RowsFresh'
  BY <1>2, <1>3 DEF RowsFresh, TypeOK
<1>9. NoOrphans'
  BY <1>2, <1>3 DEF NoOrphans
<1> QED BY <1>5, <1>7, <1>8, <1>9

\* A request that starts finds all the rows there are, and locks the monitor first.
LEMMA StartKeepsLocks ==
  ASSUME LockInv, NEW c \in Clients, NEW q \in Requests, StartRequest(c, q), TypeOK'
  PROVE  LockInv'
<1> USE DEF LockInv
<1>1. UNCHANGED <<monitor, present, rows, incident, rowLock, ev>>
  BY DEF StartRequest, db
<1>2. /\ request'[c] = q /\ q # NoRequest /\ request[c] = NoRequest
      /\ todo'[c] = (IF WritesRows(q) THEN present ELSE {})
      /\ \A d \in Clients \ {c} : request'[d] = request[d] /\ todo'[d] = todo[d]
  BY StatusAssumption DEF StartRequest, TypeOK
<1>3. EvaluatorLocks' /\ RowsFresh' /\ NoOrphans'
  BY <1>1 DEF EvaluatorLocks, RowsFresh, NoOrphans, Active, Folded, Fits
<1>4. NothingBefore'
  BY <1>1 DEF StartRequest, NothingBefore
<1>5. ClientLocks'
  <2>1. \A d \in Clients : Locked(d)' = Locked(d)
    BY <1>1 DEF Locked
  <2>2. WritesMonitor(q) => monitorLock = NoTx
    BY DEF StartRequest, MonitorFree
  <2>3. monitorLock' = IF WritesMonitor(q) THEN c ELSE monitorLock
    BY DEF StartRequest
  <2> SUFFICES ASSUME NEW d \in Clients
      PROVE  /\ todo'[d] \subseteq present /\ Locked(d) \subseteq present
             /\ request'[d] = NoRequest => todo'[d] = {} /\ Locked(d) = {} /\ monitorLock' # d
             /\ request'[d] # NoRequest /\ WritesMonitor(request'[d]) => monitorLock' = d
    BY <1>1, <2>1 DEF ClientLocks, WritesMonitor
  <2>4. CASE d = c
    BY <1>2, <2>3, <2>4 DEF ClientLocks
  <2>5. CASE d # c
    BY <1>2, <2>2, <2>3, <2>5, DistinctTxs DEF ClientLocks
  <2> QED BY <2>4, <2>5
<1>6. DeletesCover'
  <2> SUFFICES ASSUME NEW d \in Clients, DeletedBy(d)' PROVE present \subseteq Locked(d) \cup todo'[d]
    BY <1>1 DEF DeletesCover, Locked
  <2>1. CASE d = c
    <3>1. q.kind = "delete"
      BY <1>2, <2>1 DEF DeletedBy
    <3> QED BY <1>2, <2>1, <3>1 DEF WritesRows
  <2>2. CASE d # c
    BY <1>2, <2>2 DEF DeletesCover, DeletedBy
  <2> QED BY <2>1, <2>2
<1> QED BY <1>3, <1>4, <1>5, <1>6

\* A request that gets one more row lock still holds or wants every row.
LEMMA LockRowKeepsLocks ==
  ASSUME LockInv, NEW c \in Clients, NEW r \in Regions, LockRow(c, r), TypeOK'
  PROVE  LockInv'
<1> USE DEF LockInv
<1>1. UNCHANGED <<monitor, present, rows, incident, monitorLock, request, ev>>
  BY DEF LockRow, db
<1>2. /\ r \in todo[c] /\ rowLock[r] = NoTx /\ rowLock'[r] = c
      /\ \A s \in Regions \ {r} : rowLock'[s] = rowLock[s]
      /\ todo'[c] = todo[c] \ {r}
      /\ \A d \in Clients \ {c} : todo'[d] = todo[d]
  BY DEF LockRow, TypeOK
<1>3. r \in present /\ request[c] # NoRequest
  BY <1>2 DEF ClientLocks
<1>4. EvaluatorLocks'
  <2>1. \A x \in Evaluators, s \in Regions : rowLock'[s] = x <=> rowLock[s] = x
    BY <1>2, DistinctTxs
  <2>2. \A x \in Evaluators : ev[x].region \in Regions
    BY DEF TypeOK, Evaluation
  <2> QED BY <1>1, <2>1, <2>2 DEF EvaluatorLocks, Active, Folded, Fits
<1>5. RowsFresh' /\ NoOrphans' /\ NothingBefore'
  BY <1>1 DEF RowsFresh, NoOrphans, NothingBefore, Active
<1>6. /\ Locked(c)' = Locked(c) \cup {r}
      /\ \A d \in Clients \ {c} : Locked(d)' = Locked(d)
  BY <1>2, DistinctTxs DEF Locked
<1>7. ClientLocks'
  BY <1>1, <1>2, <1>3, <1>6 DEF ClientLocks, WritesMonitor
<1>8. DeletesCover'
  BY <1>1, <1>2, <1>6 DEF DeletesCover, DeletedBy
<1> QED BY <1>4, <1>5, <1>7, <1>8

\* A request ends, and with it go the assignments `gone`, all of which it has
\* locked: the other transactions keep what they hold.
LEMMA EndKeepsClients ==
  ASSUME LockInv, NEW c \in Clients, NEW gone, EndRequest(c, gone), TypeOK',
         \A r \in present \cap gone : rowLock[r] = c,
         present \ gone \subseteq present'
  PROVE  /\ ClientLocks'
         /\ \A d \in Clients \ {c} : DeletedBy(d)' /\ present' \subseteq present \ gone =>
              present' \subseteq Locked(d)' \cup todo'[d]
         /\ ~DeletedBy(c)'
<1> USE DEF LockInv
<1>1. /\ request'[c] = NoRequest /\ todo'[c] = {}
      /\ \A d \in Clients \ {c} : request'[d] = request[d] /\ todo'[d] = todo[d] \ gone
      /\ \A r \in Regions : rowLock'[r] = IF rowLock[r] = c THEN NoTx ELSE rowLock[r]
      /\ monitorLock' = IF monitorLock = c THEN NoTx ELSE monitorLock
  BY DEF EndRequest, RowLocksWithout, MonitorLockWithout, TypeOK
<1>2. Locked(c)' = {} /\ \A d \in Clients \ {c} : Locked(d)' = Locked(d)
  BY <1>1, DistinctTxs DEF Locked
<1>3. \A d \in Clients \ {c} : Locked(d) \cap gone = {}
  BY DEF Locked, ClientLocks
<1>4. ClientLocks'
  <2> SUFFICES ASSUME NEW d \in Clients
      PROVE  /\ todo'[d] \subseteq present' /\ Locked(d)' \subseteq present'
             /\ request'[d] = NoRequest => todo'[d] = {} /\ Locked(d)' = {} /\ monitorLock' # d
             /\ request'[d] # NoRequest /\ WritesMonitor(request'[d]) => monitorLock' = d
    BY DEF ClientLocks, WritesMonitor
  <2>1. CASE d = c
    BY <1>1, <1>2, <2>1, DistinctTxs
  <2>2. CASE d # c
    BY <1>1, <1>2, <1>3, <2>2, DistinctTxs DEF ClientLocks
  <2> QED BY <2>1, <2>2
<1>5. ASSUME NEW d \in Clients \ {c}, DeletedBy(d)', present' \subseteq present \ gone
      PROVE  present' \subseteq Locked(d)' \cup todo'[d]
  BY <1>1, <1>2, <1>3, <1>5 DEF DeletesCover, DeletedBy
<1>6. ~DeletedBy(c)'
  BY <1>1 DEF DeletedBy
<1> QED BY <1>4, <1>5, <1>6

\* Evaluations survive the end of a request, except those waiting for a deleted row.
LEMMA EndKeepsEvaluators ==
  ASSUME LockInv, NEW c \in Clients, NEW gone, EndRequest(c, gone), DropWaiters(gone), TypeOK',
         \A r \in present \cap gone : rowLock[r] = c,
         present \ gone \subseteq present',
         \A r \in present \ gone : rows'[r].health = rows[r].health
  PROVE  /\ EvaluatorLocks'
         /\ \A x \in Evaluators : Active(x)' => Active(x) /\ ev'[x] = ev[x] /\ ev[x].region \notin gone
<1> USE DEF LockInv
<1>1. \A r \in Regions : rowLock'[r] = IF rowLock[r] = c THEN NoTx ELSE rowLock[r]
  BY DEF EndRequest, RowLocksWithout
<1>2. ASSUME NEW x \in Evaluators, Active(x)'
      PROVE  Active(x) /\ ev'[x] = ev[x] /\ ev[x].region \notin gone
  <2>1. ev'[x] = ev[x]
    BY <1>2 DEF DropWaiters, Active, NoWork
  <2>2. Active(x) /\ ev[x].region \in present /\ ev[x].region \in Regions
    BY <1>2, <2>1 DEF Active, EvaluatorLocks, TypeOK, Evaluation
  <2>3. CASE ev[x].stage = "evaluated"
    BY <2>1, <2>2, <2>3, DistinctTxs DEF EvaluatorLocks
  <2>4. CASE ev[x].stage = "waiting"
    <3>1. ev'[x].stage # "idle"
      BY <2>1, <2>4
    <3> QED BY <2>1, <2>2, <2>4, <3>1 DEF DropWaiters, NoWork
  <2> QED BY <2>1, <2>2, <2>3, <2>4 DEF Active
<1>3. EvaluatorLocks'
  <2> SUFFICES ASSUME NEW x \in Evaluators
      PROVE  /\ Active(x)' => ev'[x].region \in present'
             /\ \A r \in Regions : rowLock'[r] = x => ev'[x].stage = "evaluated" /\ ev'[x].region = r
             /\ ev'[x].stage = "evaluated" =>
                  rowLock'[ev'[x].region] = x /\ ev'[x].health = Folded(x)' /\ Fits(Folded(x)')
    BY DEF EvaluatorLocks, Fits
  <2>1. Active(x)' => ev'[x].region \in present'
    BY <1>2 DEF EvaluatorLocks
  <2>2. ASSUME NEW r \in Regions, rowLock'[r] = x
        PROVE  ev'[x].stage = "evaluated" /\ ev'[x].region = r
    <3>1. rowLock[r] = x
      BY <1>1, <2>2, DistinctTxs
    <3>2. ev[x].stage = "evaluated" /\ ev[x].region = r
      BY <3>1 DEF EvaluatorLocks
    <3> QED BY <3>2 DEF DropWaiters
  <2>3. ASSUME ev'[x].stage = "evaluated"
        PROVE  rowLock'[ev'[x].region] = x /\ ev'[x].health = Folded(x)' /\ Fits(Folded(x)')
    <3>1. /\ ev'[x] = ev[x] /\ ev[x].region \notin gone /\ ev[x].region \in present
          /\ ev[x].region \in Regions
      BY <1>2, <2>3 DEF Active, EvaluatorLocks, TypeOK, Evaluation
    <3>2. rows'[ev[x].region].health = rows[ev[x].region].health
      BY <3>1
    <3>3. Folded(x)' = Folded(x)
      BY <3>1, <3>2 DEF Folded
    <3>4. rowLock[ev[x].region] = x /\ rowLock'[ev[x].region] = x
      BY <1>1, <2>3, <3>1, DistinctTxs DEF EvaluatorLocks
    <3> QED BY <2>3, <3>1, <3>3, <3>4 DEF EvaluatorLocks, Fits
  <2> QED BY <2>1, <2>2, <2>3
<1> QED BY <1>2, <1>3

\* Pausing and resuming touch the flag of the locked rows and no health.
LEMMA SetEnabledKeepsLocks ==
  ASSUME LockInv, NEW c \in Clients, SetEnabled(c), TypeOK'
  PROVE  LockInv'
<1> USE DEF LockInv
<1>1. /\ EndRequest(c, {}) /\ DropWaiters({})
      /\ UNCHANGED <<present, incident>> /\ monitor'.life = monitor.life
      /\ request[c] # NoRequest /\ request[c].kind \in {"pause", "resume"}
  BY DEF SetEnabled, Ready, TypeOK, Monitor
<1>2. \A r \in Regions : /\ rows'[r].health = rows[r].health
                         /\ r \notin present => rows'[r] = rows[r]
  BY DEF SetEnabled, TypeOK, ClientLocks
<1>3. EvaluatorLocks' /\ \A x \in Evaluators : Active(x)' => Active(x)
  BY <1>1, <1>2, EndKeepsEvaluators DEF TypeOK
<1>4. ClientLocks' /\ DeletesCover'
  BY <1>1, EndKeepsClients DEF DeletesCover
<1>5. RowsFresh'
  BY <1>1, <1>2 DEF RowsFresh
<1>6. NothingBefore' /\ NoOrphans'
  BY <1>1, <1>3 DEF NothingBefore, NoOrphans
<1> QED BY <1>3, <1>4, <1>5, <1>6

\* A PATCH deletes only rows it has locked, and inserts none behind a delete.
LEMMA PatchKeepsLocks ==
  ASSUME LockInv, NEW c \in Clients, Patch(c), TypeOK'
  PROVE  LockInv'
<1> DEFINE q == request[c]
           gone == IF DeletesRows(q) THEN Locked(c) ELSE {}
           added == IF InsertsRows(q) THEN q.regions ELSE {}
<1> USE DEF LockInv
<1>1. /\ EndRequest(c, gone) /\ DropWaiters(gone)
      /\ present' = (present \ gone) \cup added
      /\ rows' = [r \in Regions |-> IF r \in gone \/ r \notin present THEN FreshRow ELSE rows[r]]
      /\ monitor.life = "live" /\ monitor'.life = "live"
      /\ InsertsRows(q) => ~InsertWaits(c)
      /\ q.kind \in {"policy", "regions", "policyAndRegions"}
  BY DEF Patch, PatchedMonitor, Ready, TypeOK, Monitor
<1>2. gone \subseteq Locked(c) /\ gone \subseteq present /\ present \in SUBSET Regions
  BY DEF ClientLocks, TypeOK
<1>3. \A r \in present \cap gone : rowLock[r] = c
  BY <1>2 DEF Locked
<1> HIDE DEF gone
<1>4. present \ gone \subseteq present' /\ \A r \in present \ gone : rows'[r] = rows[r]
  BY <1>1, <1>2
<1>5. EvaluatorLocks' /\ \A x \in Evaluators : Active(x)' => Active(x)
  BY <1>1, <1>3, <1>4, EndKeepsEvaluators
<1>6. ClientLocks'
  BY <1>1, <1>3, <1>4, EndKeepsClients
<1>7. DeletesCover'
  <2> SUFFICES ASSUME NEW d \in Clients, DeletedBy(d)'
               PROVE  present' \subseteq Locked(d)' \cup todo'[d]
    BY DEF DeletesCover
  <2>1. d # c
    BY <1>1, <1>3, <1>4, EndKeepsClients
  <2>2. DeletedBy(d) /\ request[d] # NoRequest /\ request[d].kind = "delete"
    BY <1>1, <2>1 DEF DeletedBy, EndRequest
  <2>3. monitorLock = d
    BY <2>2 DEF ClientLocks, WritesMonitor
  <2>4. ~InsertsRows(q)
    BY <1>1, <2>1, <2>2, <2>3 DEF InsertWaits
  <2>5. present' \subseteq present \ gone
    BY <1>1, <2>4
  <2> QED BY <1>1, <1>3, <1>4, <2>1, <2>5, EndKeepsClients
<1>8. RowsFresh'
  BY <1>1, <1>2 DEF RowsFresh
<1>9. NothingBefore' /\ NoOrphans'
  BY <1>1 DEF NothingBefore, NoOrphans
<1> QED BY <1>5, <1>6, <1>7, <1>8, <1>9

\* A DELETE takes every row there is, all of which it has locked.
LEMMA DeleteKeepsLocks ==
  ASSUME LockInv, NEW c \in Clients, Delete(c), TypeOK'
  PROVE  LockInv'
<1> USE DEF LockInv
<1>1. /\ EndRequest(c, Regions) /\ DropWaiters(Regions)
      /\ present' = {} /\ incident' = FALSE
      /\ rows' = [r \in Regions |-> FreshRow]
      /\ monitor'.life = "deleted" /\ DeletedBy(c) /\ todo[c] = {}
  BY DEF Delete, Ready, TypeOK, Monitor, DeletedBy
<1>2. \A r \in present \cap Regions : rowLock[r] = c
  BY <1>1 DEF DeletesCover, Locked
<1>3. present \ Regions \subseteq present'
  BY DEF TypeOK
<1>4. \A r \in present \ Regions : rows'[r].health = rows[r].health
  BY DEF TypeOK
<1>5. /\ EvaluatorLocks'
      /\ \A x \in Evaluators : Active(x)' => ev[x].region \notin Regions
  BY <1>1, <1>2, <1>3, <1>4, EndKeepsEvaluators
<1>6. ClientLocks' /\ DeletesCover'
  BY <1>1, <1>2, <1>3, EndKeepsClients DEF DeletesCover
<1>7. RowsFresh' /\ NothingBefore'
  BY <1>1 DEF RowsFresh, NothingBefore
<1>8. NoOrphans'
  BY <1>1, <1>5 DEF NoOrphans, TypeOK, Evaluation
<1> QED BY <1>5, <1>6, <1>7, <1>8

\* A request that is rolled back gives its locks back and changes nothing else.
LEMMA AbortRequestKeepsLocks ==
  ASSUME LockInv, NEW c \in Clients, AbortRequest(c), TypeOK'
  PROVE  LockInv'
<1> USE DEF LockInv
<1>1. EndRequest(c, {}) /\ UNCHANGED <<monitor, present, rows, incident, ev>>
  BY DEF AbortRequest, db
<1>2. ClientLocks' /\ DeletesCover'
  BY <1>1, EndKeepsClients DEF DeletesCover
<1>3. \A x \in Evaluators, r \in Regions : rowLock'[r] = x <=> rowLock[r] = x
  BY <1>1, DistinctTxs DEF EndRequest, RowLocksWithout
<1>4. \A x \in Evaluators : ev[x].region \in Regions
  BY DEF TypeOK, Evaluation
<1>5. EvaluatorLocks'
  BY <1>1, <1>3, <1>4 DEF EvaluatorLocks, Active, Folded, Fits
<1>6. NothingBefore'
  BY <1>1 DEF NothingBefore, EndRequest
<1>7. RowsFresh' /\ NoOrphans'
  BY <1>1 DEF RowsFresh, NoOrphans, Active
<1> QED BY <1>2, <1>5, <1>6, <1>7

\* Creating the monitor meets no transaction that knows of it.
LEMMA CreateKeepsLocks ==
  ASSUME LockInv, NEW new \in Creations, Create(new), TypeOK'
  PROVE  LockInv'
<1> USE DEF LockInv
<1>1. /\ UNCHANGED <<rows, incident, rowLock, monitorLock, ev, request, todo>>
      /\ monitor.life = "absent" /\ monitor'.life = "live"
  BY DEF Create, locks, api
<1>2. present = {} /\ \A x \in Evaluators : ~Active(x)
  BY <1>1 DEF NoOrphans
<1>3. \A x \in Evaluators, r \in Regions : rowLock[r] # x
  BY <1>2 DEF EvaluatorLocks, Active
<1>4. \A c \in Clients : request[c] = NoRequest /\ todo[c] = {} /\ Locked(c) = {}
  BY <1>1 DEF NothingBefore, ClientLocks
<1>5. EvaluatorLocks'
  BY <1>1, <1>2, <1>3 DEF EvaluatorLocks, Active
<1>6. ClientLocks' /\ DeletesCover' /\ NothingBefore'
  BY <1>1, <1>4 DEF ClientLocks, DeletesCover, NothingBefore, Locked, DeletedBy
<1>7. RowsFresh' /\ NoOrphans'
  BY <1>1, <1>2 DEF RowsFresh, NoOrphans
<1> QED BY <1>5, <1>6, <1>7

\* The locks mean what EvaluatorLocks and ClientLocks say.
LEMMA LockInvariant == Spec => []LockInv
<1>1. Init => LockInv
  <2> SUFFICES ASSUME Init, TypeOK PROVE LockInv
    BY InitTyped
  <2>1. \A e \in Evaluators : ev[e].stage = "idle"
    BY DEF Init, NoWork
  <2>2. EvaluatorLocks
    BY <2>1, DistinctTxs DEF Init, EvaluatorLocks, Active
  <2>3. ClientLocks
    BY DistinctTxs DEF Init, ClientLocks, Locked
  <2>4. DeletesCover /\ NothingBefore /\ RowsFresh
    BY DEF Init, DeletesCover, NothingBefore, RowsFresh
  <2>5. NoOrphans
    BY <2>1 DEF Init, NoOrphans, Active
  <2> QED BY <2>2, <2>3, <2>4, <2>5 DEF LockInv
<1>2. LockInv /\ TypeOK' /\ [Next]_vars => LockInv'
  <2> SUFFICES ASSUME LockInv, TypeOK', [Next]_vars PROVE LockInv'
    OBVIOUS
  <2>1. ASSUME NEW new \in Creations, Create(new) PROVE LockInv'
    BY <2>1, CreateKeepsLocks
  <2>2. ASSUME NEW e \in Evaluators, EvaluatorStep(e) PROVE LockInv'
    <3>1. ASSUME NEW r \in Regions, NEW up \in BOOLEAN, Begin(e, r, up) PROVE LockInv'
      BY <3>1, BeginKeepsLocks
    <3>2. CASE Evaluate(e)
      BY <3>2, EvaluateKeepsLocks
    <3>3. CASE Overflow(e) \/ Publish(e)
      <4>1. ev[e].stage # "evaluated"
        BY <3>3 DEF Overflow, Publish
      <4>2. rowLock' = RowLocksWithout(e)
        <5>1. \A r \in Regions : rowLock[r] # e
          BY <4>1 DEF LockInv, EvaluatorLocks
        <5>2. rowLock' = rowLock
          BY <3>3 DEF Overflow, Publish, locks
        <5> QED BY <5>1, <5>2 DEF RowLocksWithout, LockInv, TypeOK
      <4>3. UNCHANGED <<db, monitorLock, api>> /\ ev' = [ev EXCEPT ![e] = NoWork]
        BY <3>3 DEF Overflow, Publish, locks
      <4> QED BY <4>2, <4>3, AbandonKeepsLocks
    <3>4. CASE Commit(e)
      BY <3>4, CommitKeepsLocks
    <3>5. CASE AbortEvaluation(e)
      BY <3>5, AbandonKeepsLocks DEF AbortEvaluation
    <3> QED BY <2>2, <3>1, <3>2, <3>3, <3>4, <3>5 DEF EvaluatorStep, CrashEvaluator
  <2>3. ASSUME NEW c \in Clients, ClientStep(c) PROVE LockInv'
    <3>1. ASSUME NEW q \in Requests, StartRequest(c, q) PROVE LockInv'
      BY <3>1, StartKeepsLocks
    <3>2. ASSUME NEW r \in Regions, LockRow(c, r) PROVE LockInv'
      BY <3>2, LockRowKeepsLocks
    <3>3. CASE SetEnabled(c)
      BY <3>3, SetEnabledKeepsLocks
    <3>4. CASE Patch(c)
      BY <3>4, PatchKeepsLocks
    <3>5. CASE Delete(c)
      BY <3>5, DeleteKeepsLocks
    <3>6. CASE AbortRequest(c)
      BY <3>6, AbortRequestKeepsLocks
    <3> QED BY <2>3, <3>1, <3>2, <3>3, <3>4, <3>5, <3>6 DEF ClientStep, InsertFails, CrashClient
  <2>4. ASSUME NEW t \in Txs, DeadlockVictim(t) PROVE LockInv'
    BY <2>4, AbandonKeepsLocks, AbortRequestKeepsLocks DEF DeadlockVictim, Txs, AbortEvaluation
  <2>5. CASE UNCHANGED vars
    <3>1. UNCHANGED <<monitor, present, rows, incident, rowLock, monitorLock, ev, request, todo>>
      BY <2>5 DEF vars
    <3>2. EvaluatorLocks' /\ RowsFresh' /\ NoOrphans' /\ NothingBefore'
      BY <3>1 DEF LockInv, EvaluatorLocks, RowsFresh, NoOrphans, NothingBefore, Active, Folded, Fits
    <3>3. ClientLocks' /\ DeletesCover'
      BY <3>1 DEF LockInv, ClientLocks, DeletesCover, Locked, DeletedBy, WritesMonitor
    <3> QED BY <3>2, <3>3 DEF LockInv
  <2> QED BY <2>1, <2>2, <2>3, <2>4, <2>5 DEF Next
<1> QED BY <1>1, <1>2, TypeCorrect, PTL DEF Spec

\* A deleted monitor leaves no assignment and no open incident behind, and no
\* evaluation that could still write one, whatever it raced with: the cascades
\* wait for the locks of the evaluations, and the inserts of a PATCH for the
\* monitor row (0001_init.sql:161, 290).
THEOREM DeleteLeavesNothing == Spec => []NoOrphans
<1>1. LockInv => NoOrphans
  BY DEF LockInv
<1> QED BY <1>1, LockInvariant, PTL

-----------------------------------------------------------------------------
(* The evaluations of a monitor implement RegionFolds.                     *)

\* The health of every region, the refinement mapping.
Healths == [r \in Regions |-> rows[r].health]

\* RegionFolds folds with the same state machine.
LEMMA SameFold ==
  /\ Folds!initialHealth = initialHealth
  /\ \A h, up, p : Folds!evaluateHealth(h, up, p) = evaluateHealth(h, up, p)
BY DEF Folds!initialHealth, initialHealth, Folds!evaluateHealth, evaluateHealth,
       Folds!NextFailures, NextFailures, Folds!NextSuccesses, NextSuccesses,
       Folds!CompletesStreak, CompletesStreak, Folds!AtLeastOne, AtLeastOne

\* The commit of an evaluation is one fold of its region.
LEMMA CommitFolds ==
  ASSUME LockInv, NEW e \in Evaluators, Commit(e)
  PROVE  \E r \in Regions, up \in BOOLEAN, p \in Policies : Folds!Fold(r, up, p)
<1> DEFINE s == ev[e].region
<1>1. s \in Regions /\ s \in present /\ ev[e].health = Folded(e)
  BY DEF LockInv, TypeOK, Evaluation, EvaluatorLocks, Active, Commit
<1>2. present' = present
  BY DEF Commit
<1>3. Healths' = [Healths EXCEPT ![s] = evaluateHealth(Healths[s], ev[e].up, ev[e].policy)]
  <2>1. rows' = [rows EXCEPT ![s].health = Folded(e)]
    BY <1>1 DEF Commit
  <2>2. \A r \in Regions : rows'[r].health = IF r = s THEN Folded(e) ELSE rows[r].health
    BY <2>1 DEF LockInv, TypeOK
  <2>3. Folded(e) = evaluateHealth(rows[s].health, ev[e].up, ev[e].policy)
    BY DEF Folded
  <2> QED BY <1>1, <2>2, <2>3 DEF Healths
<1>4. ev[e].up \in BOOLEAN /\ ev[e].policy \in Policies
  BY DEF LockInv, TypeOK, Evaluation
<1> QED BY <1>1, <1>2, <1>3, <1>4, SameFold, SMTT(30) DEF Folds!Fold, Healths

\* A request that ends replaces some assignments, or none.
LEMMA RequestReplaces ==
  ASSUME LockInv, NEW c \in Clients
  PROVE  /\ SetEnabled(c) => UNCHANGED <<present, Healths>>
         /\ Patch(c) \/ Delete(c) =>
              \E gone, added \in SUBSET Regions : Folds!Replace(gone, added)
<1>1. ASSUME SetEnabled(c) PROVE UNCHANGED <<present, Healths>>
  BY <1>1 DEF SetEnabled, Healths, LockInv, TypeOK
<1>2. ASSUME Patch(c)
      PROVE  \E gone, added \in SUBSET Regions : Folds!Replace(gone, added)
  <2> DEFINE q == request[c]
             gone == IF DeletesRows(q) THEN Locked(c) ELSE {}
             added == IF InsertsRows(q) THEN q.regions ELSE {}
  <2>1. gone \subseteq present /\ gone \in SUBSET Regions
    BY DEF LockInv, ClientLocks, TypeOK
  <2>2. added \in SUBSET Regions
    BY <1>2, StatusAssumption DEF LockInv, TypeOK, Patch, Ready, Request
  <2>3. /\ present' = (present \ gone) \cup added
        /\ rows' = [r \in Regions |-> IF r \in gone \/ r \notin present THEN FreshRow ELSE rows[r]]
    BY <1>2 DEF Patch
  <2> HIDE DEF gone, added
  <2>4. Healths' = [r \in Regions |-> IF r \in gone \/ r \notin present
                                      THEN initialHealth ELSE Healths[r]]
    BY <2>3 DEF Healths, FreshRow
  <2>5. Folds!Replace(gone, added)
    BY <2>1, <2>3, <2>4, SameFold DEF Folds!Replace, Healths
  <2> QED BY <2>1, <2>2, <2>5 DEF Folds!Replace
<1>3. ASSUME Delete(c)
      PROVE  \E gone, added \in SUBSET Regions : Folds!Replace(gone, added)
  <2>1. /\ present' = (present \ present) \cup {}
        /\ Healths' = [r \in Regions |-> IF r \in present \/ r \notin present
                                         THEN initialHealth ELSE Healths[r]]
    BY <1>3 DEF Delete, Healths, FreshRow
  <2>2. Folds!Replace(present, {})
    BY <2>1, SameFold DEF Folds!Replace, Healths
  <2> QED BY <2>2 DEF LockInv, TypeOK
<1> QED BY <1>1, <1>2, <1>3

\* POST /monitors inserts the first assignments.
LEMMA CreateReplaces ==
  ASSUME LockInv, NEW new \in Creations, Create(new)
  PROVE  \E gone, added \in SUBSET Regions : Folds!Replace(gone, added)
<1>1. present = {} /\ new.regions \in SUBSET Regions
  BY StatusAssumption DEF Create, LockInv, NoOrphans, Creation
<1>2. Healths = [r \in Regions |-> initialHealth] /\ Healths' = Healths
  BY <1>1 DEF Create, LockInv, RowsFresh, FreshRow, Healths
<1>3. present' = (present \ {}) \cup new.regions
  BY <1>1 DEF Create
<1>4. Healths' = [r \in Regions |-> IF r \in {} \/ r \notin present
                                    THEN initialHealth ELSE Healths[r]]
  BY <1>1, <1>2
<1>5. Folds!Replace({}, new.regions)
  BY <1>3, <1>4, SameFold DEF Folds!Replace, Healths
<1> QED BY <1>1, <1>5

\* No result is lost: every behaviour of the evaluation transactions, with their
\* crashes, deadlocks and concurrent requests, is one in which the results of a
\* region are folded one after the other (FOR UPDATE OF a, health-repository.ts).
THEOREM NoResultIsLost == Spec => NoResultLost
<1>1. Init => Folds!Init
  BY SameFold DEF Init, Folds!Init, FreshRow
<1>2. LockInv /\ [Next]_vars => [Folds!Next]_(Folds!vars)
  <2> SUFFICES ASSUME LockInv, [Next]_vars
               PROVE  Folds!Next \/ UNCHANGED <<present, Healths>>
    BY DEF Folds!vars, Healths
  <2>1. ASSUME NEW new \in Creations, Create(new) PROVE Folds!Next
    BY <2>1, CreateReplaces DEF Folds!Next
  <2>2. ASSUME NEW e \in Evaluators, EvaluatorStep(e)
        PROVE  Folds!Next \/ UNCHANGED <<present, Healths>>
    <3>1. CASE Commit(e)
      BY <3>1, CommitFolds DEF Folds!Next
    <3>2. CASE ~Commit(e)
      BY <2>2, <3>2 DEF EvaluatorStep, Begin, Evaluate, Overflow, Publish, CrashEvaluator,
                        AbortEvaluation, db, Healths
    <3> QED BY <3>1, <3>2
  <2>3. ASSUME NEW c \in Clients, ClientStep(c)
        PROVE  Folds!Next \/ UNCHANGED <<present, Healths>>
    <3>1. CASE SetEnabled(c) \/ Patch(c) \/ Delete(c)
      BY <3>1, RequestReplaces DEF Folds!Next
    <3>2. CASE ~(SetEnabled(c) \/ Patch(c) \/ Delete(c))
      BY <2>3, <3>2 DEF ClientStep, StartRequest, LockRow, InsertFails, CrashClient,
                        AbortRequest, db, Healths
    <3> QED BY <3>1, <3>2
  <2>4. ASSUME NEW t \in Txs, DeadlockVictim(t) PROVE UNCHANGED <<present, Healths>>
    BY <2>4 DEF DeadlockVictim, AbortEvaluation, AbortRequest, db, Healths
  <2>5. CASE UNCHANGED vars
    BY <2>5 DEF vars, Healths
  <2> QED BY <2>1, <2>2, <2>3, <2>4, <2>5 DEF Next
<1> QED BY <1>1, <1>2, LockInvariant, PTL DEF Spec, NoResultLost, Folds!Spec

-----------------------------------------------------------------------------
(* Overflows.                                                              *)

\* Counters at their limit have decided the status, in every reachable state.
LEMMA SaturationInvariant == Spec => []RowsSaturated
<1>0. Saturated(initialHealth)
  BY StatusAssumption DEF Saturated, initialHealth
<1>1. Init => RowsSaturated
  <2> SUFFICES ASSUME Init, NEW r \in Regions PROVE Saturated(rows[r].health)
    BY DEF RowsSaturated
  <2>1. rows[r].health = initialHealth
    BY DEF Init, FreshRow
  <2> QED BY <1>0, <2>1
<1>2. LockInv /\ RowsSaturated /\ [Next]_vars => RowsSaturated'
  <2> SUFFICES ASSUME LockInv, RowsSaturated, [Next]_vars PROVE RowsSaturated'
    OBVIOUS
  <2>1. ASSUME NEW e \in Evaluators, Commit(e) PROVE RowsSaturated'
    <3>1. /\ ev[e].region \in Regions /\ ev[e].up \in BOOLEAN /\ ev[e].policy \in Policies
          /\ rows[ev[e].region].health \in Health /\ ev[e].health = Folded(e)
      BY <2>1 DEF LockInv, TypeOK, Evaluation, EvaluatorLocks, Commit
    <3>2. Saturated(Folded(e))
      BY <3>1, FoldSaturated DEF RowsSaturated, Folded
    <3>3. \A r \in Regions : rows'[r].health = IF r = ev[e].region THEN ev[e].health
                                               ELSE rows[r].health
      BY <2>1 DEF Commit, LockInv, TypeOK
    <3> QED BY <3>1, <3>2, <3>3 DEF RowsSaturated
  <2>2. ASSUME NEW c \in Clients, SetEnabled(c) PROVE RowsSaturated'
    <3>1. \A r \in Regions : rows'[r].health = rows[r].health
      BY <2>2 DEF SetEnabled, LockInv, TypeOK
    <3> QED BY <3>1 DEF RowsSaturated
  <2>3. ASSUME NEW c \in Clients, Patch(c) \/ Delete(c) PROVE RowsSaturated'
    <3>1. \A r \in Regions : rows'[r] \in {FreshRow, rows[r]}
      BY <2>3 DEF Patch, Delete
    <3> QED BY <1>0, <3>1 DEF RowsSaturated, FreshRow
  <2>4. CASE UNCHANGED rows
    BY <2>4 DEF RowsSaturated
  <2> QED BY <2>1, <2>2, <2>3, <2>4, ZenonT(30)
       DEF Next, EvaluatorStep, ClientStep, Create, Begin, Evaluate, Overflow, Publish,
           CrashEvaluator, AbortEvaluation, StartRequest, LockRow, InsertFails, CrashClient,
           AbortRequest, DeadlockVictim, db, vars
<1> QED BY <1>1, <1>2, LockInvariant, PTL DEF Spec

\* A result discarded by the overflow of a SMALLINT counter only repeats what its
\* region already shows.
LEMMA OverflowRepeats ==
  ASSUME LockInv, RowsSaturated, NEW e \in Evaluators, Overflow(e)
  PROVE  rows[ev[e].region].health.status = (IF ev[e].up THEN "up" ELSE "down")
<1> DEFINE h == rows[ev[e].region].health
<1>1. h \in Health /\ ev[e].up \in BOOLEAN /\ Saturated(h)
  BY DEF LockInv, TypeOK, Evaluation, RowsSaturated
<1>2. ~Fits(evaluateHealth(h, ev[e].up, ev[e].policy))
  BY DEF Overflow, Folded
<1>3. /\ h.failures \in Nat /\ h.successes \in Nat /\ MaxCount \in Nat
      /\ h.failures <= MaxCount /\ h.successes <= MaxCount
  BY <1>1, StatusAssumption DEF Health
<1> HIDE DEF h
<1>4. CASE ev[e].up
  <2>1. ~(h.successes + 1 <= MaxCount)
    BY <1>2, <1>3, <1>4 DEF Fits, evaluateHealth, NextFailures, NextSuccesses
  <2>2. h.successes >= MaxCount
    BY <1>3, <2>1
  <2> QED BY <1>1, <1>4, <2>2 DEF Saturated, h
<1>5. CASE ~ev[e].up
  <2>1. ~(h.failures + 1 <= MaxCount)
    BY <1>2, <1>3, <1>5 DEF Fits, evaluateHealth, NextFailures, NextSuccesses
  <2>2. h.failures >= MaxCount
    BY <1>3, <2>1
  <2> QED BY <1>1, <1>5, <2>2 DEF Saturated, h
<1> QED BY <1>4, <1>5

\* Folded into its row or not, it makes no difference to any tally.
LEMMA RepeatsTallyAlike ==
  ASSUME LockInv, NEW e \in Evaluators,
         rows[ev[e].region].health.status = (IF ev[e].up THEN "up" ELSE "down"),
         NEW quorum
  PROVE  OverallStatus(Tallied(e), present, quorum) = OverallStatus(rows, present, quorum)
<1> DEFINE h == rows[ev[e].region].health
           after == Tallied(e)
<1>1. /\ ev[e].region \in Regions /\ ev[e].up \in BOOLEAN /\ present \subseteq Regions
      /\ rows \in [Regions -> [enabled: BOOLEAN, health: Health]]
  BY DEF LockInv, TypeOK, Evaluation
<1>2. Folded(e).status = h.status
  BY <1>1 DEF Folded, evaluateHealth
<1>3. \A r \in Regions : after[r].enabled = rows[r].enabled /\ after[r].health.status = rows[r].health.status
  BY <1>1, <1>2 DEF Tallied
<1> HIDE DEF after
<1>4. DownRegions(after, present) = DownRegions(rows, present)
  BY <1>1, <1>3 DEF DownRegions
<1>5. ReportingRegions(after, present) = ReportingRegions(rows, present)
  BY <1>1, <1>3 DEF ReportingRegions
<1>6. OverallStatus(after, present, quorum) = OverallStatus(rows, present, quorum)
  BY <1>4, <1>5 DEF OverallStatus
<1> QED BY <1>6 DEF after

\* However long the streaks and whatever policies applied while they grew, an overflow
\* discards no change of a region and leaves the tally what it would have been
\* (updateAssignmentHealth).
THEOREM OverflowsTallyAlike == Spec => OverflowKeepsTally
<1> DEFINE A == \A e \in Evaluators :
                  Overflow(e) =>
                    /\ rows[ev[e].region].health.status = (IF ev[e].up THEN "up" ELSE "down")
                    /\ \A quorum \in {monitor.quorum, ev[e].quorum} :
                         OverallStatus(Tallied(e), present, quorum) = OverallStatus(rows, present, quorum)
<1>1. LockInv /\ RowsSaturated => A
  BY OverflowRepeats, RepeatsTallyAlike
<1>2. Spec => [][A]_vars
  BY <1>1, LockInvariant, SaturationInvariant, PTL DEF Spec
<1> QED BY <1>2 DEF OverflowKeepsTally

-----------------------------------------------------------------------------
(* Evaluations that nothing overlaps.                                      *)

\* An evaluator whose evaluation has just ended knows nothing.
LEMMA EndedKnowsNothing ==
  ASSUME AloneKnows, NEW e \in Evaluators,
         UNCHANGED <<monitor, present, rows>>,
         ~Active(e)', \A x \in Evaluators \ {e} : ev'[x] = ev[x],
         \A x \in Evaluators \ {e} : x \in overlapped' <=> x \in overlapped
  PROVE  AloneKnows'
<1> SUFFICES ASSUME NEW x \in Evaluators \ overlapped', Active(x)'
    PROVE  /\ ev'[x].status = monitor.status /\ ev'[x].quorum = monitor.quorum
           /\ ev'[x].stage = "evaluated" =>
                ev'[x].overall = OverallStatus(Tallied(x)', present, monitor.quorum)
  BY DEF AloneKnows, Active, OverallStatus, ReportingRegions, DownRegions
<1>1. x # e /\ ev'[x] = ev[x] /\ x \in Evaluators \ overlapped /\ Active(x)
  BY DEF Active
<1>2. Tallied(x)' = Tallied(x)
  BY <1>1 DEF Tallied, Folded
<1> QED BY <1>1, <1>2 DEF AloneKnows

\* A commit overlaps every evaluation still active, so nobody is left alone who
\* does not know it.
LEMMA OverlappedByCommit ==
  ASSUME \A x \in Evaluators \ overlapped' : ~Active(x)'
  PROVE  AloneKnows'
BY DEF AloneKnows, Active

\* What an evaluation read of the monitor row, and tallied, is still so when it
\* commits, unless something overlapped it.
LEMMA AloneInvariant == Spec => []AloneKnows
<1>1. Init => AloneKnows
  BY DEF Init, AloneKnows, Active, NoWork
<1>2. LockInv /\ AloneKnows /\ [Next]_vars => AloneKnows'
  <2> SUFFICES ASSUME LockInv, AloneKnows, [Next]_vars PROVE AloneKnows'
    OBVIOUS
  <2>1. ASSUME NEW new \in Creations, Create(new) PROVE AloneKnows'
    <3>1. \A x \in Evaluators : ~Active(x)'
      BY <2>1 DEF Create, LockInv, NoOrphans, Active
    <3> QED BY <3>1, OverlappedByCommit
  <2>2. ASSUME NEW e \in Evaluators, NEW r \in Regions, NEW up \in BOOLEAN, Begin(e, r, up)
        PROVE  AloneKnows'
    <3>1. /\ ev'[e].stage = "waiting" /\ ev'[e].status = monitor.status
          /\ ev'[e].quorum = monitor.quorum
          /\ \A x \in Evaluators \ {e} : ev'[x] = ev[x]
      BY <2>2 DEF Begin, LockInv, TypeOK, NoWork
    <3>2. UNCHANGED <<monitor, present, rows, overlapped>>
      BY <2>2 DEF Begin, db
    <3>3. \A x \in Evaluators \ {e} : Tallied(x)' = Tallied(x)
      BY <3>1, <3>2 DEF Tallied, Folded
    <3> SUFFICES ASSUME NEW x \in Evaluators \ overlapped
        PROVE  /\ Active(x)' => ev'[x].status = monitor.status /\ ev'[x].quorum = monitor.quorum
               /\ ev'[x].stage = "evaluated" =>
                    ev'[x].overall = OverallStatus(Tallied(x)', present, monitor.quorum)
      BY <3>2 DEF AloneKnows, OverallStatus, ReportingRegions, DownRegions
    <3>4. CASE x = e
      BY <3>1, <3>4
    <3>5. CASE x # e
      BY <3>1, <3>3, <3>5 DEF AloneKnows, Active
    <3> QED BY <3>4, <3>5
  <2>3. ASSUME NEW e \in Evaluators, Evaluate(e) PROVE AloneKnows'
    <3>1. /\ ev'[e].region = ev[e].region /\ ev'[e].up = ev[e].up
          /\ ev'[e].policy = ev[e].policy
          /\ ev'[e].status = ev[e].status /\ ev'[e].quorum = ev[e].quorum
          /\ ev'[e].overall = OverallStatus(Tallied(e), present, ev[e].quorum)
          /\ \A x \in Evaluators \ {e} : ev'[x] = ev[x]
      BY <2>3 DEF Evaluate, LockInv, TypeOK, Evaluation
    <3>2. UNCHANGED <<monitor, present, rows, overlapped>>
      BY <2>3 DEF Evaluate, db
    <3>3. \A x \in Evaluators : Tallied(x)' = Tallied(x)
      BY <3>1, <3>2 DEF Tallied, Folded
    <3> SUFFICES ASSUME NEW x \in Evaluators \ overlapped
        PROVE  /\ Active(x)' => ev'[x].status = monitor.status /\ ev'[x].quorum = monitor.quorum
               /\ ev'[x].stage = "evaluated" =>
                    ev'[x].overall = OverallStatus(Tallied(x)', present, monitor.quorum)
      BY <3>2 DEF AloneKnows, OverallStatus, ReportingRegions, DownRegions
    <3>4. CASE x = e
      <4>1. Active(e)
        BY <2>3 DEF Evaluate, Active
      <4>2. ev[e].status = monitor.status /\ ev[e].quorum = monitor.quorum
        BY <3>4, <4>1 DEF AloneKnows
      <4> QED BY <3>1, <3>3, <3>4, <4>2
    <3>5. CASE x # e
      BY <3>1, <3>3, <3>5 DEF AloneKnows, Active
    <3> QED BY <3>4, <3>5
  <2>4. ASSUME NEW e \in Evaluators, Overflow(e) \/ Publish(e) \/ AbortEvaluation(e)
        PROVE  AloneKnows'
    <3>1. /\ ev'[e] = NoWork /\ \A x \in Evaluators \ {e} : ev'[x] = ev[x]
          /\ UNCHANGED <<monitor, present, rows>>
          /\ \A x \in Evaluators \ {e} : x \in overlapped' <=> x \in overlapped
      BY <2>4 DEF Overflow, Publish, AbortEvaluation, LockInv, TypeOK, db
    <3>2. ~Active(e)'
      BY <3>1 DEF Active, NoWork
    <3> QED BY <3>1, <3>2, EndedKnowsNothing
  <2>5. ASSUME NEW e \in Evaluators, Commit(e) PROVE AloneKnows'
    <3>1. /\ ev'[e].stage \in {"idle", "committed"}
          /\ \A x \in Evaluators \ {e} : ev'[x] = ev[x]
          /\ overlapped' = (overlapped \cup OverlapsOf(e)) \ {e}
      BY <2>5 DEF Commit, LockInv, TypeOK, NoWork
    <3>2. \A x \in Evaluators \ overlapped' : ~Active(x)'
      BY <3>1 DEF OverlapsOf, Active
    <3> QED BY <3>2, OverlappedByCommit
  <2>6. ASSUME NEW c \in Clients, SetEnabled(c) \/ Patch(c) \/ Delete(c) PROVE AloneKnows'
    <3>1. PICK gone : DropWaiters(gone)
      BY <2>6 DEF SetEnabled, Patch, Delete
    <3>2. \A x \in Evaluators \ overlapped' : ~Active(x)'
      BY <3>1, SMTT(30) DEF DropWaiters, Active, NoWork
    <3> QED BY <3>2, OverlappedByCommit
  <2>7. CASE UNCHANGED <<monitor, present, rows, ev, overlapped>>
    <3>1. UNCHANGED <<monitor, present, rows, ev, overlapped>>
      BY <2>7
    <3> QED BY <3>1 DEF AloneKnows, Active, OverallStatus, ReportingRegions, DownRegions,
                        Tallied, Folded
  <2>8. ASSUME NEW c \in Clients, ClientStep(c) PROVE AloneKnows'
    BY <2>6, <2>7, <2>8
       DEF ClientStep, StartRequest, LockRow, InsertFails, CrashClient, AbortRequest, db
  <2>9. ASSUME NEW e \in Evaluators, EvaluatorStep(e) PROVE AloneKnows'
    BY <2>2, <2>3, <2>4, <2>5, <2>9 DEF EvaluatorStep, CrashEvaluator
  <2>10. ASSUME NEW t \in Txs, DeadlockVictim(t) PROVE AloneKnows'
    BY <2>4, <2>7, <2>10 DEF DeadlockVictim, Txs, AbortRequest, db
  <2>11. CASE UNCHANGED vars
    BY <2>7, <2>11 DEF vars
  <2> QED BY <2>1, <2>8, <2>9, <2>10, <2>11 DEF Next
<1> QED BY <1>1, <1>2, LockInvariant, PTL DEF Spec

\* Only overlapping commits can leave a monitor in the wrong status: an evaluation
\* that ran alone leaves the status that the quorum gives over the committed
\* regions, and an incident exactly while that is down.
THEOREM AloneIsRight == Spec => AloneDerivesStatus
<1> DEFINE A == \A e \in Evaluators :
                  Commit(e) /\ e \notin overlapped =>
                    /\ monitor'.status = OverallStatus(rows', present', monitor'.quorum)
                    /\ (incident <=> monitor.status = "down") =>
                         (incident' <=> monitor'.status = "down")
<1>1. LockInv /\ AloneKnows => A
  <2> SUFFICES ASSUME LockInv, AloneKnows, NEW e \in Evaluators, Commit(e), e \notin overlapped
      PROVE  /\ monitor'.status = OverallStatus(rows', present', monitor'.quorum)
             /\ (incident <=> monitor.status = "down") =>
                  (incident' <=> monitor'.status = "down")
    OBVIOUS
  <2>1. /\ ev[e].status = monitor.status
        /\ ev[e].overall = OverallStatus(Tallied(e), present, monitor.quorum)
    BY DEF AloneKnows, Commit, Active
  <2>2. /\ monitor'.status = ev[e].overall /\ monitor'.quorum = monitor.quorum
        /\ present' = present
    BY DEF Commit, LockInv, TypeOK, Monitor
  <2>3. rows' = Tallied(e)
    BY DEF Commit, Tallied, LockInv, EvaluatorLocks
  <2>4. (incident <=> monitor.status = "down") => (incident' <=> monitor'.status = "down")
    BY <2>1, <2>2 DEF Commit, IncidentAfter, Changed, LockInv, TypeOK
  <2>5. OverallStatus(rows', present', monitor'.quorum)
          = OverallStatus(Tallied(e), present, monitor.quorum)
    BY <2>2, <2>3 DEF OverallStatus, ReportingRegions, DownRegions
  <2> QED BY <2>1, <2>2, <2>4, <2>5
<1>2. Spec => [][A]_vars
  BY <1>1, LockInvariant, AloneInvariant, PTL DEF Spec
<1> QED BY <1>2 DEF AloneDerivesStatus

-----------------------------------------------------------------------------
(* Evaluations that come one after the other.                              *)

\* No two evaluations are between the read of the monitor row and the commit.
OneAtATime == \A e, f \in Evaluators : Active(e) /\ Active(f) => e = f

\* Nor does one begin before the event of the last one is published.
OneJobAtATime ==
  \A e, f \in Evaluators : ev[e].stage # "idle" /\ ev[f].stage # "idle" => e = f

NobodyPauses ==
  \A c \in Clients : request[c] # NoRequest => request[c].kind \notin {"pause", "resume"}

\* Such an evaluation knows the status of the monitor, whoever patches it meanwhile.
StatusKnown == \A e \in Evaluators : Active(e) => ev[e].status = monitor.status

\* What is not announced yet is the status that a committed evaluation will publish.
AnnouncedNext ==
  /\ \A e \in Evaluators : ev[e].stage = "committed" => ev[e].overall = monitor.status
  /\ (\A e \in Evaluators : ev[e].stage # "committed") => announced = monitor.status
  /\ monitor.life = "absent" =>
       announced = "pending" /\ \A e \in Evaluators : ev[e].stage # "committed"

\* A pause or a resume is the only request that writes the status, and a commit the only
\* step of an evaluation that does.
LEMMA StatusWriters ==
  ASSUME LockInv, NobodyPauses, [Next]_vars
  PROVE  \/ \E new \in Creations : Create(new)
         \/ \E e \in Evaluators : Commit(e)
         \/ \E c \in Clients : Delete(c)
         \/ /\ monitor'.status = monitor.status /\ monitor'.life = monitor.life
            /\ UNCHANGED incident
<1> DEFINE Kept == /\ monitor'.status = monitor.status /\ monitor'.life = monitor.life
                   /\ UNCHANGED incident
<1>1. CASE UNCHANGED vars
  BY <1>1 DEF vars
<1>2. ASSUME NEW e \in Evaluators, EvaluatorStep(e), ~Commit(e) PROVE Kept
  BY <1>2 DEF EvaluatorStep, Begin, Evaluate, Overflow, Publish, CrashEvaluator, AbortEvaluation, db
<1>3. ASSUME NEW c \in Clients, ClientStep(c), ~Delete(c) PROVE Kept
  <2>1. ~SetEnabled(c)
    BY DEF SetEnabled, Ready, NobodyPauses
  <2>2. CASE Patch(c)
    BY <2>2 DEF Patch, PatchedMonitor, LockInv, TypeOK, Monitor
  <2> QED BY <1>3, <2>1, <2>2
        DEF ClientStep, StartRequest, LockRow, InsertFails, CrashClient, AbortRequest, db
<1>4. ASSUME NEW t \in Txs, DeadlockVictim(t) PROVE Kept
  BY <1>4 DEF DeadlockVictim, AbortEvaluation, AbortRequest, db
<1> QED BY <1>1, <1>2, <1>3, <1>4 DEF Next

\* What a step does to an evaluation, apart from its commit.
LEMMA EvaluationSteps ==
  ASSUME LockInv, [Next]_vars, NEW e \in Evaluators
  PROVE  \/ ev'[e] = ev[e]
         \/ ev'[e] = NoWork /\ (Active(e) \/ Faults \/ Publish(e))
         \/ Commit(e)
         \/ ev[e].stage = "idle" /\ ev'[e].stage = "waiting" /\ ev'[e].status = monitor.status
         \/ ev[e].stage = "waiting" /\ ev'[e].stage = "evaluated" /\ ev'[e].status = ev[e].status
<1> DEFINE Goal == \/ ev'[e] = ev[e]
                   \/ ev'[e] = NoWork /\ (Active(e) \/ Faults \/ Publish(e))
                   \/ Commit(e)
                   \/ ev[e].stage = "idle" /\ ev'[e].stage = "waiting"
                      /\ ev'[e].status = monitor.status
                   \/ ev[e].stage = "waiting" /\ ev'[e].stage = "evaluated"
                      /\ ev'[e].status = ev[e].status
<1>1. ev \in [Evaluators -> Evaluation]
  BY DEF LockInv, TypeOK
<1>2. ASSUME NEW f \in Evaluators, EvaluatorStep(f) PROVE Goal
  <2>1. CASE f # e
    BY <1>1, <1>2, <2>1 DEF EvaluatorStep, Begin, Evaluate, Overflow, Commit, Publish,
                            CrashEvaluator, AbortEvaluation
  <2>2. CASE f = e
    <3>1. ASSUME NEW r \in Regions, NEW up \in BOOLEAN, Begin(e, r, up) PROVE Goal
      BY <1>1, <3>1 DEF Begin, NoWork
    <3>2. CASE Evaluate(e)
      BY <1>1, <3>2 DEF Evaluate, Evaluation
    <3>3. CASE Overflow(e) \/ Publish(e) \/ CrashEvaluator(e)
      BY <1>1, <3>3 DEF Overflow, Publish, CrashEvaluator, AbortEvaluation, Active
    <3> QED BY <1>2, <2>2, <3>1, <3>2, <3>3 DEF EvaluatorStep
  <2> QED BY <2>1, <2>2
<1>3. ASSUME NEW gone, DropWaiters(gone) PROVE Goal
  BY <1>3 DEF DropWaiters, Active
<1>4. ASSUME NEW c \in Clients, ClientStep(c) PROVE Goal
  BY <1>3, <1>4 DEF ClientStep, StartRequest, LockRow, SetEnabled, Patch, Delete, InsertFails,
                    CrashClient, AbortRequest
<1>5. ASSUME NEW t \in Txs, DeadlockVictim(t) PROVE Goal
  <2>1. CASE t \in Evaluators
    <3>1. Active(t)
      BY <1>5, <2>1, DistinctTxs DEF DeadlockVictim, Deadlocked, WaitsFor, Active
    <3> QED BY <1>1, <1>5, <2>1, <3>1 DEF DeadlockVictim, AbortEvaluation
  <2> QED BY <1>5, <2>1 DEF DeadlockVictim, AbortRequest
<1>6. CASE UNCHANGED ev
  BY <1>6
<1>7. ASSUME NEW new \in Creations, Create(new) PROVE Goal
  BY <1>7 DEF Create
<1> QED BY <1>2, <1>4, <1>5, <1>6, <1>7 DEF Next, vars

\* As long as evaluations come one after the other and nobody pauses the monitor, the open
\* incident follows the status: overlapping evaluations (StatusEvaluator.evaluate) and pauses
\* (MonitorService.setPaused) are all that can part them.
THEOREM SerialIncidents ==
  Spec /\ []OneAtATime /\ []NobodyPauses => []IncidentTracksStatus
<1> DEFINE Inv == StatusKnown /\ IncidentTracksStatus
<1>1. Init => Inv
  BY DEF Init, StatusKnown, IncidentTracksStatus, Active, NoWork
<1>2. LockInv /\ OneAtATime /\ NobodyPauses /\ Inv /\ [Next]_vars => Inv'
  <2> SUFFICES ASSUME LockInv, OneAtATime, NobodyPauses, Inv, [Next]_vars PROVE Inv'
    OBVIOUS
  <2>1. ASSUME NEW new \in Creations, Create(new) PROVE Inv'
    BY <2>1 DEF Create, LockInv, NoOrphans, Active, StatusKnown, IncidentTracksStatus
  <2>2. ASSUME NEW f \in Evaluators, Commit(f) PROVE Inv'
    <3>1. /\ Active(f) /\ monitor.life = "live" /\ ev[f].status = monitor.status
          /\ incident <=> monitor.status = "down"
      BY <2>2 DEF Commit, Active, LockInv, NoOrphans, StatusKnown, IncidentTracksStatus
    <3>2. /\ monitor'.status = ev[f].overall /\ monitor'.life = "live"
          /\ ~Active(f)' /\ \A x \in Evaluators \ {f} : ev'[x] = ev[x]
      BY <2>2, <3>1 DEF Commit, LockInv, TypeOK, Monitor, NoWork, Active
    <3>3. \A x \in Evaluators : ~Active(x)'
      BY <3>1, <3>2 DEF OneAtATime, Active
    <3>4. incident' <=> monitor'.status = "down"
      BY <2>2, <3>1, <3>2 DEF Commit, IncidentAfter, Changed, LockInv, TypeOK
    <3> QED BY <3>3, <3>4 DEF StatusKnown, IncidentTracksStatus
  <2>3. CASE /\ monitor'.status = monitor.status
             /\ monitor'.life # "live" \/ (monitor'.life = monitor.life /\ UNCHANGED incident)
             /\ \A f \in Evaluators : ~Commit(f)
    <3>1. StatusKnown'
      BY <2>3, EvaluationSteps DEF StatusKnown, Active, NoWork
    <3> QED BY <2>3, <3>1 DEF IncidentTracksStatus
  <2>4. ASSUME NEW c \in Clients, Delete(c), \A f \in Evaluators : ~Commit(f) PROVE Inv'
    <3>1. monitor'.status = monitor.status /\ monitor'.life = "deleted"
      BY <2>4 DEF Delete, LockInv, TypeOK, Monitor
    <3> HIDE DEF Inv
    <3> QED BY <2>3, <2>4, <3>1
  <2>5. \/ \E new \in Creations : Create(new)
        \/ \E f \in Evaluators : Commit(f)
        \/ \E c \in Clients : Delete(c)
        \/ /\ monitor'.status = monitor.status /\ monitor'.life = monitor.life
           /\ UNCHANGED incident
    BY StatusWriters
  <2> HIDE DEF Inv
  <2> QED BY <2>1, <2>2, <2>3, <2>4, <2>5
<1> QED BY <1>1, <1>2, LockInvariant, PTL DEF Spec

\* If moreover each job is published before the next one starts, and no worker dies in
\* between, the last event tells the status the monitor shows.
THEOREM SerialAnnouncements ==
  ASSUME ~Faults
  PROVE  Spec /\ []OneJobAtATime /\ []NobodyPauses => []AnnouncementsCurrent
<1> DEFINE Inv == StatusKnown /\ AnnouncedNext
<1>1. Init => Inv
  BY DEF Init, StatusKnown, AnnouncedNext, Active, NoWork
<1>2. LockInv /\ OneJobAtATime /\ NobodyPauses /\ Inv /\ [Next]_vars => Inv'
  <2> SUFFICES ASSUME LockInv, OneJobAtATime, NobodyPauses, Inv, [Next]_vars PROVE Inv'
    OBVIOUS
  <2>1. ASSUME NEW new \in Creations, Create(new) PROVE Inv'
    BY <2>1 DEF Create, LockInv, NoOrphans, Active, StatusKnown, AnnouncedNext
  <2>2. ASSUME NEW f \in Evaluators, Commit(f) PROVE Inv'
    <3>1. /\ Active(f) /\ monitor.life = "live" /\ ev[f].status = monitor.status
          /\ \A x \in Evaluators \ {f} : ev[x].stage = "idle"
      BY <2>2 DEF Commit, Active, LockInv, NoOrphans, StatusKnown, OneJobAtATime
    <3>2. announced = monitor.status
      BY <2>2, <3>1 DEF AnnouncedNext, Commit
    <3>3. /\ monitor'.status = ev[f].overall /\ monitor'.life = "live"
          /\ ~Active(f)' /\ \A x \in Evaluators \ {f} : ev'[x].stage = "idle"
          /\ announced' = announced
      BY <2>2, <3>1 DEF Commit, LockInv, TypeOK, Monitor, NoWork, Active
    <3>4. \/ ev'[f].stage = "committed" /\ ev'[f].overall = ev[f].overall
          \/ ev'[f].stage # "committed" /\ ev[f].overall = ev[f].status
      BY <2>2 DEF Commit, Changed, LockInv, TypeOK, NoWork
    <3>5. StatusKnown'
      BY <3>3 DEF StatusKnown, Active
    <3> QED BY <3>1, <3>2, <3>3, <3>4, <3>5 DEF AnnouncedNext
  <2>3. CASE /\ monitor'.status = monitor.status
             /\ monitor'.life = monitor.life \/ monitor'.life = "deleted"
             /\ \A f \in Evaluators : ~Commit(f)
    <3>1. StatusKnown'
      BY <2>3, EvaluationSteps DEF StatusKnown, Active, NoWork
    <3>2. ASSUME NEW f \in Evaluators, Publish(f) PROVE AnnouncedNext'
      <4>1. /\ ev[f].stage = "committed" /\ announced' = ev[f].overall
            /\ ev'[f].stage # "committed"
            /\ \A x \in Evaluators \ {f} : ev'[x] = ev[x] /\ ev[x].stage = "idle"
        BY <3>2 DEF Publish, OneJobAtATime, LockInv, TypeOK, NoWork
      <4> QED BY <2>3, <4>1 DEF AnnouncedNext
    <3>3. CASE \A f \in Evaluators : ~Publish(f)
      <4>1. announced' = announced
        BY <2>3, <3>3 DEF Next, Create, EvaluatorStep, Begin, Evaluate, Overflow, CrashEvaluator,
                          AbortEvaluation, ClientStep, StartRequest, LockRow, SetEnabled, Patch,
                          Delete, InsertFails, CrashClient, AbortRequest, DeadlockVictim, vars
      <4>2. \A x \in Evaluators :
              /\ ev'[x].stage = "committed" <=> ev[x].stage = "committed"
              /\ ev'[x].stage = "committed" => ev'[x].overall = ev[x].overall
        BY <2>3, <3>3, EvaluationSteps DEF Active, NoWork
      <4> QED BY <2>3, <3>1, <4>1, <4>2 DEF AnnouncedNext
    <3> QED BY <3>1, <3>2, <3>3
  <2>4. ASSUME NEW c \in Clients, Delete(c), \A f \in Evaluators : ~Commit(f) PROVE Inv'
    <3>1. monitor'.status = monitor.status /\ monitor'.life = "deleted"
      BY <2>4 DEF Delete, LockInv, TypeOK, Monitor
    <3> HIDE DEF Inv
    <3> QED BY <2>3, <2>4, <3>1
  <2>5. \/ \E new \in Creations : Create(new)
        \/ \E f \in Evaluators : Commit(f)
        \/ \E c \in Clients : Delete(c)
        \/ /\ monitor'.status = monitor.status /\ monitor'.life = monitor.life
           /\ UNCHANGED incident
    BY StatusWriters
  <2> HIDE DEF Inv
  <2> QED BY <2>1, <2>2, <2>3, <2>4, <2>5
<1>3. Inv => AnnouncementsCurrent
  BY DEF AnnouncedNext, AnnouncementsCurrent
<1> QED BY <1>1, <1>2, <1>3, LockInvariant, PTL DEF Spec

=============================================================================
