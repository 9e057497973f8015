-------------------------- MODULE StatusEvaluation --------------------------
(***************************************************************************)
(* The life of one monitor's rows in the database while workers evaluate   *)
(* check results and API clients edit the monitor.                         *)
(*                                                                         *)
(* Every evaluation (StatusEvaluator.evaluate) and every request           *)
(* (MonitorService.update, setPaused, delete) is a READ COMMITTED          *)
(* transaction.  What one transaction has written is invisible to the      *)
(* others until it commits, so its writes are applied at its commit step;  *)
(* what stands between are its row locks and what it read before.  A step  *)
(* that takes a lock is merged with the reads that need it, and the last   *)
(* lock a transaction needs with its commit: acquiring a lock commutes to  *)
(* the right of other transactions' steps, releasing it to the left.       *)
(***************************************************************************)
EXTENDS HealthStateMachine, FiniteSets

CONSTANTS
  Regions,      \* the probe regions (rows of probe_regions)
  Evaluators,   \* check jobs being evaluated at the same time, in any worker
  Clients,      \* API requests being served at the same time
  NoTx,         \* no transaction: a lock that is free
  NoRequest,    \* no request: an API client between two requests
  Policies,     \* retry policies in use
  Creations,    \* the POST /monitors bodies tried: [policy, quorum, regions]
  Requests,     \* the other requests tried: [kind, policy, quorum, regions]
  MaxCount,     \* the largest value of a consecutive_* column (32767: SMALLINT)
  Faults        \* may a process crash or lose its connection?

Creation == [policy: Policies, quorum: Nat, regions: (SUBSET Regions) \ {{}}]

\* "policy", "regions" and "policyAndRegions" are the three shapes of a PATCH:
\* with columns of the monitor row only, with regionIds only, and with both.
RequestKind == {"pause", "resume", "policy", "regions", "policyAndRegions", "delete"}
Request == [kind: RequestKind, policy: Policies, quorum: Nat, regions: SUBSET Regions]

\* The thresholds fit the counters' columns: schemas.ts:57 admits at most 10.
ASSUME StatusAssumption ==
  /\ IsFiniteSet(Regions) /\ Regions # {}
  /\ Evaluators \cap Clients = {}
  /\ NoTx \notin Evaluators \cup Clients
  /\ Policies \subseteq RetryPolicy /\ Policies # {}
  /\ Creations \subseteq Creation
  /\ Requests \subseteq Request
  /\ NoRequest \notin Requests
  /\ MaxCount \in Nat \ {0}
  /\ \A p \in Policies : p.failureThreshold <= MaxCount /\ p.recoveryThreshold <= MaxCount
  /\ Faults \in BOOLEAN

Txs == Evaluators \cup Clients

VARIABLES
  monitor,      \* the row of monitors, as last committed
  present,      \* the regions that have a monitor_assignments row
  rows,         \* those rows: the mirrored flag and the region's health
  incident,     \* is there an incident with resolved_at IS NULL?
  rowLock,      \* who holds the lock of each assignment row
  monitorLock,  \* who holds the lock of the monitor row
  ev,           \* the evaluation each evaluator is running
  request,      \* the request each client is running
  todo,         \* the assignment rows a client's statement has still to lock
  announced,    \* the `to` of the last event published
  overlapped    \* history: evaluations during which something else committed

db    == <<monitor, present, rows, incident>>
locks == <<rowLock, monitorLock>>
api   == <<request, todo>>
vars  == <<monitor, present, rows, incident, rowLock, monitorLock, ev, request,
           todo, announced, overlapped>>

-----------------------------------------------------------------------------
(* Rows and statuses.                                                      *)

AnyRegion == CHOOSE r \in Regions : TRUE
AnyPolicy == CHOOSE p \in Policies : TRUE

\* A row just inserted: the column defaults of monitor_assignments.
FreshRow == [enabled |-> TRUE, health |-> initialHealth]

Health == [status: RegionStatus, failures: 0..MaxCount, successes: 0..MaxCount]

\* Mutation: counters without a column limit.
FitsAlways(health) == TRUE

\* The counters still fit their columns.
Fits(health) == health.failures <= MaxCount /\ health.successes <= MaxCount

\* tallyRegions: only enabled rows count; pending ones have nothing to report.
DownRegions(rs, S) == {r \in S : rs[r].enabled /\ rs[r].health.status = "down"}
ReportingRegions(rs, S) ==
  {r \in S : rs[r].enabled /\ rs[r].health.status \in {"down", "up"}}

\* The overall status that a tally gives under a quorum.
OverallStatus(rs, S, quorum) ==
  IF ReportingRegions(rs, S) = {} THEN "pending"
  ELSE IF Cardinality(DownRegions(rs, S)) >= quorum THEN "down"
  ELSE "up"

\* clampQuorum: between 1 and the number of regions.
ClampQuorum(quorum, count) ==
  LET low == AtLeastOne(quorum)
      high == AtLeastOne(count)
  IN IF low < high THEN low ELSE high

\* The evaluation of an evaluator that has nothing to do.
NoWork == [stage |-> "idle", region |-> AnyRegion, up |-> TRUE,
           status |-> "pending", policy |-> AnyPolicy, quorum |-> 0,
           health |-> initialHealth, overall |-> "pending"]

Evaluation == [stage: {"idle", "waiting", "evaluated", "committed"},
               region: Regions, up: BOOLEAN,
               status: MonitorStatus, policy: Policies, quorum: Nat,
               health: Health, overall: RegionStatus]

Monitor == [life: {"absent", "live", "deleted"}, enabled: BOOLEAN,
            status: MonitorStatus, policy: Policies, quorum: Nat]

TypeOK ==
  /\ monitor \in Monitor
  /\ present \in SUBSET Regions
  /\ rows \in [Regions -> [enabled: BOOLEAN, health: Health]]
  /\ incident \in BOOLEAN
  /\ rowLock \in [Regions -> Txs \cup {NoTx}]
  /\ monitorLock \in Clients \cup {NoTx}
  /\ ev \in [Evaluators -> Evaluation]
  /\ request \in [Clients -> Requests \cup {NoRequest}]
  /\ todo \in [Clients -> SUBSET Regions]
  /\ announced \in RegionStatus
  /\ overlapped \in SUBSET Evaluators

Init ==
  /\ monitor = [life |-> "absent", enabled |-> TRUE, status |-> "pending",
                policy |-> AnyPolicy, quorum |-> 0]
  /\ present = {}
  /\ rows = [r \in Regions |-> FreshRow]
  /\ incident = FALSE
  /\ rowLock = [r \in Regions |-> NoTx]
  /\ monitorLock = NoTx
  /\ ev = [e \in Evaluators |-> NoWork]
  /\ request = [c \in Clients |-> NoRequest]
  /\ todo = [c \in Clients |-> {}]
  /\ announced = "pending"
  /\ overlapped = {}

-----------------------------------------------------------------------------
(* Locks and transactions.                                                 *)

Active(e) == ev[e].stage \in {"waiting", "evaluated"}

\* The locks as they are once transaction t has ended.
RowLocksWithout(t) == [r \in Regions |-> IF rowLock[r] = t THEN NoTx ELSE rowLock[r]]
\* Mutation: a transaction that ends without COMMIT or ROLLBACK.
MonitorLockLeaked(t) == monitorLock
MonitorLockWithout(t) == IF monitorLock = t THEN NoTx ELSE monitorLock

\* The rows a client's statements have locked so far.
Locked(c) == {r \in Regions : rowLock[r] = c}

\* Evaluations other than e that a commit overlaps from now on.
OverlapsOf(e) == {x \in Evaluators \ {e} : Active(x)}

\* Mutation: lockAssignmentContext without FOR UPDATE.
RowAlwaysFree(e) == TRUE

\* Is the row lock of this evaluation's region free for it?
RowFree(e) == rowLock[ev[e].region] = NoTx

\* An update of the monitor row waits for the transaction that wrote it last.
MonitorFree == monitorLock = NoTx

-----------------------------------------------------------------------------
(* POST /monitors: the monitor row and its assignments in one transaction. *)

Create(new) ==
  /\ monitor.life = "absent"
  /\ monitor' = [life |-> "live", enabled |-> TRUE, status |-> "pending",
                 policy |-> new.policy,
                 quorum |-> ClampQuorum(new.quorum, Cardinality(new.regions))]
  /\ present' = new.regions
  /\ UNCHANGED <<rows, incident, locks, ev, api, announced, overlapped>>

-----------------------------------------------------------------------------
(* One evaluation: JobProcessor.process from the probe's outcome on.       *)

\* lockAssignmentContext starts: its snapshot fixes what this transaction will
\* know of the monitor row.  The assignment row is read again once its lock is
\* granted (FOR UPDATE OF a), the monitor row is not.
Begin(e, r, up) ==
  /\ ev[e].stage = "idle"
  /\ r \in present
  /\ ev' = [ev EXCEPT ![e] = [NoWork EXCEPT !.stage = "waiting",
                                            !.region = r,
                                            !.up = up,
                                            !.status = monitor.status,
                                            !.policy = monitor.policy,
                                            !.quorum = monitor.quorum]]
  /\ UNCHANGED <<db, locks, api, announced, overlapped>>

\* The health the evaluation computes from the locked row.
Folded(e) == evaluateHealth(rows[ev[e].region].health, ev[e].up, ev[e].policy)

\* Mutation: the regions are tallied before the update.
TalliedBefore(e) == rows

\* The rows as the evaluation sees them after updateAssignmentHealth: its own
\* write and whatever the others have committed.
Tallied(e) == [rows EXCEPT ![ev[e].region].health = Folded(e)]

\* The row lock is granted, the region's health folded and written, and the
\* regions tallied.  Nothing of it is visible yet.
Evaluate(e) ==
  /\ ev[e].stage = "waiting"
  /\ RowFree(e)
  /\ Fits(Folded(e))
  /\ rowLock' = [rowLock EXCEPT ![ev[e].region] = e]
  /\ ev' = [ev EXCEPT ![e].stage = "evaluated",
                      ![e].health = Folded(e),
                      ![e].overall = OverallStatus(Tallied(e), present, ev[e].quorum)]
  /\ UNCHANGED <<db, monitorLock, api, announced, overlapped>>

\* A streak has outgrown its SMALLINT column: the update fails, the transaction
\* rolls back, and the job stays pending in the queue.
Overflow(e) ==
  /\ ev[e].stage = "waiting"
  /\ RowFree(e)
  /\ ~Fits(Folded(e))
  /\ ev' = [ev EXCEPT ![e] = NoWork]
  /\ overlapped' = overlapped \ {e}
  /\ UNCHANGED <<db, locks, api, announced>>

\* Mutation: a first result is not treated as a change.
ChangedUnlessFirst(e) == ev[e].overall # ev[e].status /\ ev[e].status # "pending"

\* Does the evaluation see the overall status change?
Changed(e) == ev[e].overall # ev[e].status

\* Mutation: incidents are resolved by a change to up only.
IncidentUntilUp(e) ==
  IF Changed(e) /\ ev[e].overall = "down" THEN TRUE
  ELSE IF Changed(e) /\ ev[e].overall = "up" THEN FALSE
  ELSE incident

\* openIncident on a change to down (nothing happens if one is open),
\* resolveOpenIncident on a change from down.
IncidentAfter(e) ==
  IF Changed(e) /\ ev[e].overall = "down" THEN TRUE
  ELSE IF Changed(e) /\ ev[e].status = "down" THEN FALSE
  ELSE incident

\* updateMonitorAfterCheck, the incident, and COMMIT.  The monitor row gets the
\* tallied status whatever it shows now; a change is left to be published.
Commit(e) ==
  /\ ev[e].stage = "evaluated"
  /\ MonitorFree
  /\ rows' = [rows EXCEPT ![ev[e].region].health = ev[e].health]
  /\ monitor' = [monitor EXCEPT !.status = ev[e].overall]
  /\ incident' = IncidentAfter(e)
  /\ rowLock' = RowLocksWithout(e)
  /\ ev' = [ev EXCEPT ![e] = IF Changed(e)
                             THEN [NoWork EXCEPT !.stage = "committed",
                                                 !.status = ev[e].status,
                                                 !.overall = ev[e].overall]
                             ELSE NoWork]
  /\ overlapped' = (overlapped \cup OverlapsOf(e)) \ {e}
  /\ UNCHANGED <<present, monitorLock, api, announced>>

\* eventBus.publish, after the commit and outside of it.
Publish(e) ==
  /\ ev[e].stage = "committed"
  /\ announced' = ev[e].overall
  /\ ev' = [ev EXCEPT ![e] = NoWork]
  /\ UNCHANGED <<db, locks, api, overlapped>>

\* The transaction of evaluation e is rolled back, or its worker dies.  What was
\* committed stays; an event not yet published is lost.
AbortEvaluation(e) ==
  /\ ev' = [ev EXCEPT ![e] = NoWork]
  /\ rowLock' = RowLocksWithout(e)
  /\ overlapped' = overlapped \ {e}
  /\ UNCHANGED <<db, monitorLock, api, announced>>

CrashEvaluator(e) ==
  /\ Faults
  /\ ev[e].stage # "idle"
  /\ AbortEvaluation(e)

-----------------------------------------------------------------------------
(* One API request on the monitor.                                         *)

WritesMonitor(q) == q.kind # "regions"
\* Mutation: a delete that leaves the assignments to themselves.
DeleteSkipsRows(q) == q.kind \notin {"policy", "delete"}
WritesRows(q) == q.kind # "policy"
DeletesRows(q) == q.kind \in {"regions", "policyAndRegions", "delete"}
InsertsRows(q) == q.kind \in {"regions", "policyAndRegions"}

\* The request finds the monitor, takes its row's lock if it writes it, and its
\* statement on the assignments finds the rows it has to lock.
StartRequest(c, q) ==
  /\ request[c] = NoRequest
  /\ monitor.life = "live"
  /\ WritesMonitor(q) => MonitorFree
  /\ request' = [request EXCEPT ![c] = q]
  /\ monitorLock' = IF WritesMonitor(q) THEN c ELSE monitorLock
  /\ todo' = [todo EXCEPT ![c] = IF WritesRows(q) THEN present ELSE {}]
  /\ UNCHANGED <<db, rowLock, ev, announced, overlapped>>

\* The statement gets the lock of one more row.
LockRow(c, r) ==
  /\ r \in todo[c]
  /\ rowLock[r] = NoTx
  /\ rowLock' = [rowLock EXCEPT ![r] = c]
  /\ todo' = [todo EXCEPT ![c] = @ \ {r}]
  /\ UNCHANGED <<db, monitorLock, ev, request, announced, overlapped>>

\* Client c holds every lock its request needs.
Ready(c, kinds) ==
  /\ request[c] # NoRequest
  /\ request[c].kind \in kinds
  /\ todo[c] = {}

\* What every end of client c's transaction does to the locks.
EndRequest(c, gone) ==
  /\ request' = [request EXCEPT ![c] = NoRequest]
  /\ todo' = [d \in Clients |-> IF d = c THEN {} ELSE todo[d] \ gone]
  /\ rowLock' = RowLocksWithout(c)
  /\ monitorLock' = MonitorLockWithout(c)

\* Evaluations that wait for a deleted row find no row and return null.
DropWaiters(gone) ==
  LET lost == {e \in Evaluators : ev[e].stage = "waiting" /\ ev[e].region \in gone}
  IN /\ ev' = [e \in Evaluators |-> IF e \in lost THEN NoWork ELSE ev[e]]
     /\ overlapped' = (overlapped \cup {e \in Evaluators : Active(e)}) \ lost

\* setEnabled: pause or resume.  The health of the regions is left alone.
SetEnabled(c) ==
  LET resume == request[c].kind = "resume" IN
  /\ Ready(c, {"pause", "resume"})
  /\ monitor' = [monitor EXCEPT !.enabled = resume,
                                !.status = IF resume THEN "pending" ELSE "paused"]
  /\ rows' = [r \in Regions |-> IF r \in Locked(c)
                                THEN [rows[r] EXCEPT !.enabled = resume]
                                ELSE rows[r]]
  /\ DropWaiters({})
  /\ EndRequest(c, {})
  /\ UNCHANGED <<present, incident, announced>>

\* Columns of the monitor row that a PATCH sets.  The quorum is not clamped.
PatchedMonitor(q) ==
  IF q.kind = "regions" THEN monitor
  ELSE [monitor EXCEPT !.policy = q.policy, !.quorum = q.quorum]

\* The foreign key of an inserted row keeps the monitor row from going away: the
\* insert waits for a transaction that deletes it.
DeletedBy(c) == request[c] # NoRequest /\ request[c].kind = "delete"
InsertWaits(c) ==
  \E d \in Clients \ {c} : monitorLock = d /\ DeletedBy(d)

\* update, and replaceAssignments: the rows this statement locked are deleted,
\* the requested ones inserted unless they exist (ON CONFLICT DO NOTHING).
Patch(c) ==
  LET q == request[c]
      gone == IF DeletesRows(q) THEN Locked(c) ELSE {}
      added == IF InsertsRows(q) THEN q.regions ELSE {}
  IN
  /\ Ready(c, {"policy", "regions", "policyAndRegions"})
  /\ monitor.life = "live"
  /\ InsertsRows(q) => ~InsertWaits(c)
  /\ monitor' = PatchedMonitor(q)
  /\ present' = (present \ gone) \cup added
  /\ rows' = [r \in Regions |-> IF r \in gone \/ r \notin present THEN FreshRow ELSE rows[r]]
  /\ DropWaiters(gone)
  /\ EndRequest(c, gone)
  /\ UNCHANGED <<incident, announced>>

\* DELETE cascades to the assignments and the incidents.
Delete(c) ==
  /\ Ready(c, {"delete"})
  /\ monitor' = [monitor EXCEPT !.life = "deleted"]
  /\ present' = {}
  /\ rows' = [r \in Regions |-> FreshRow]
  /\ incident' = FALSE
  /\ DropWaiters(Regions)
  /\ EndRequest(c, Regions)
  /\ UNCHANGED announced

\* The transaction of client c is rolled back.
AbortRequest(c) ==
  /\ EndRequest(c, {})
  /\ UNCHANGED <<db, ev, announced, overlapped>>

\* The insert of a regionIds PATCH finds that the monitor is gone.
InsertFails(c) ==
  /\ Ready(c, {"regions"})
  /\ monitor.life = "deleted"
  /\ AbortRequest(c)

CrashClient(c) ==
  /\ Faults
  /\ request[c] # NoRequest
  /\ AbortRequest(c)

-----------------------------------------------------------------------------
(* PostgreSQL's deadlock detector.                                         *)

WaitsFor(t, u) ==
  /\ t # u
  /\ \/ /\ t \in Evaluators
        /\ ev[t].stage = "waiting"
        /\ rowLock[ev[t].region] = u
     \/ /\ t \in Evaluators
        /\ ev[t].stage = "evaluated"
        /\ monitorLock = u
     \/ /\ t \in Clients
        /\ \E r \in todo[t] : rowLock[r] = u
     \/ /\ t \in Clients
        /\ Ready(t, {"regions"})
        /\ monitorLock = u
        /\ DeletedBy(u)

\* Transactions in a cycle of waiting, or on a path between two.
Deadlocked(t) ==
  \E D \in SUBSET Txs :
    /\ t \in D
    /\ \A x \in D : (\E y \in D : WaitsFor(x, y)) /\ (\E y \in D : WaitsFor(y, x))

\* One of them is chosen and rolled back; its caller sees error 40P01.
DeadlockVictim(t) ==
  /\ Deadlocked(t)
  /\ IF t \in Evaluators THEN AbortEvaluation(t) ELSE AbortRequest(t)

-----------------------------------------------------------------------------
EvaluatorStep(e) ==
  \/ \E r \in Regions, up \in BOOLEAN : Begin(e, r, up)
  \/ Evaluate(e)
  \/ Overflow(e)
  \/ Commit(e)
  \/ Publish(e)
  \/ CrashEvaluator(e)

ClientStep(c) ==
  \/ \E q \in Requests : StartRequest(c, q)
  \/ \E r \in Regions : LockRow(c, r)
  \/ SetEnabled(c)
  \/ Patch(c)
  \/ Delete(c)
  \/ InsertFails(c)
  \/ CrashClient(c)

Next ==
  \/ \E new \in Creations : Create(new)
  \/ \E e \in Evaluators : EvaluatorStep(e)
  \/ \E c \in Clients : ClientStep(c)
  \/ \E t \in Txs : DeadlockVictim(t)

Spec == Init /\ [][Next]_vars

-----------------------------------------------------------------------------
(* Safety.                                                                 *)

Folds == INSTANCE RegionFolds WITH
           health <- [r \in Regions |-> rows[r].health]

\* However many workers evaluate results of the same region at once, and whatever
\* the API does meanwhile, each result is folded exactly once into the health left
\* by the one before it: no update is lost and none is applied to a row that was
\* replaced (the FOR UPDATE OF a of lockAssignmentContext).
NoResultLost == Folds!Spec

\* A monitor that is gone leaves no assignment and no open incident behind, even
\* when the delete raced an evaluation about to open an incident or a PATCH about
\* to insert assignments (the cascades and foreign keys of 0001_init.sql).
NoOrphans ==
  monitor.life # "live" =>
    /\ present = {}
    /\ ~incident
    /\ \A e \in Evaluators : ~Active(e)

\* A result thrown away by the SMALLINT overflow of a counter only repeats the status
\* of its region, and the regions' tally is the same with it as without it, under the
\* quorum in force and under the one the evaluation read, whatever policies the monitor
\* has had: no change of a region is lost.  This says nothing of monitors.status, which
\* the evaluation would have recomputed too (updateAssignmentHealth, tallyRegions): what
\* an edit left stale there stays stale.
OverflowKeepsTally ==
  [][\A e \in Evaluators :
       Overflow(e) =>
         /\ rows[ev[e].region].health.status = (IF ev[e].up THEN "up" ELSE "down")
         /\ \A quorum \in {monitor.quorum, ev[e].quorum} :
              OverallStatus(Tallied(e), present, quorum) = OverallStatus(rows, present, quorum)]_vars

\* An evaluation that no other commit overlaps leaves the monitor with the status
\* that the quorum gives over the committed regions, and an incident that agreed
\* with the status before agrees with it after: overlapping commits are the only
\* way evaluate() can leave a monitor in the wrong status.
AloneDerivesStatus ==
  [][\A e \in Evaluators :
       Commit(e) /\ e \notin overlapped =>
         /\ monitor'.status = OverallStatus(rows', present', monitor'.quorum)
         /\ (incident <=> monitor.status = "down") =>
              (incident' <=> monitor'.status = "down")]_vars

\* An incident is open exactly while the overall status is down ("one row per
\* overall-DOWN period", docs/ARCHITECTURE.md:48).
IncidentTracksStatus ==
  monitor.life = "live" => (incident <=> monitor.status = "down")

\* Between two evaluations the last event published carries the status that the
\* monitor shows, so a consumer that saw every event knows it (events.ts:17).
AnnouncementsCurrent ==
  monitor.life = "live" /\ (\A e \in Evaluators : ev[e].stage # "committed") =>
    announced = monitor.status

-----------------------------------------------------------------------------
(* Liveness.  A worker runs each statement of a transaction when the       *)
(* previous one has returned, and so does the API: weak fairness.  A lock  *)
(* waited for is granted in turn (PostgreSQL queues the waiters of a row), *)
(* hence strong fairness for the steps that take one.  Every deadlock is   *)
(* detected, whichever victim is chosen.                                   *)

Fairness ==
  /\ \A e \in Evaluators : /\ SF_vars(Evaluate(e) \/ Overflow(e))
                           /\ SF_vars(Commit(e))
                           /\ WF_vars(Publish(e))
  /\ \A c \in Clients : /\ SF_vars(\E r \in Regions : LockRow(c, r))
                        /\ SF_vars(Patch(c))
                        /\ WF_vars(SetEnabled(c) \/ Delete(c) \/ InsertFails(c))
  /\ WF_vars(\E t \in Txs : DeadlockVictim(t))

FairSpec == Spec /\ Fairness

\* Every evaluation that starts ends, and every request too: row locks taken in
\* opposite orders (assignment then monitor by evaluate, monitor then assignments
\* by setEnabled, update and delete) never leave a transaction waiting for ever.
TransactionsEnd ==
  /\ \A e \in Evaluators : []<>(ev[e].stage = "idle")
  /\ \A c \in Clients : []<>(request[c] = NoRequest)

=============================================================================
