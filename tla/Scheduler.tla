------------------------------ MODULE Scheduler ------------------------------
(***************************************************************************)
(* The scheduler replicas: every tick claims a batch of due assignments,   *)
(* in one statement that locks them, skipping those that are locked, and   *)
(* moves their next_check_at into the future; then the jobs are pushed to  *)
(* the streams of their regions, one region after the other.               *)
(*                                                                         *)
(* Time is abstracted to what claimDue asks of it: which assignments are   *)
(* due, and in which order of next_check_at.                               *)
(***************************************************************************)
EXTENDS Naturals, FiniteSets

CONSTANTS
  Assignments,  \* the rows of monitor_assignments
  RegionOf,     \* the region of each
  Schedulers,   \* the scheduler replicas
  Nobody,       \* holder of a row lock that is free
  BatchSize,    \* assignments claimed per tick
  MaxFaults,    \* bound: crashes, failures, rows found locked by an evaluation
  MaxEdits      \* bound: pauses, resumes and replacements by the API

ASSUME SchedulerAssumption ==
  /\ IsFiniteSet(Assignments) /\ IsFiniteSet(Schedulers)
  /\ RegionOf \in [Assignments -> Nat]
  /\ Nobody \notin Schedulers
  /\ BatchSize \in Nat \ {0} /\ MaxFaults \in Nat /\ MaxEdits \in Nat

VARIABLES
  line,      \* the assignments with next_check_at <= now(), in its order: the pairs <<b, a>>
             \* with b no younger than a
  enabled,   \* the assignments whose enabled flag is set
  locked,    \* the replica whose statement holds the lock of each row
  tick,      \* each replica's tick: stage, and the claimed jobs still to push
  credit,    \* history: due windows opened and not yet dispatched, or lost
  faults,    \* how many faults have happened
  edits      \* how many edits have happened

bounds == <<faults, edits>>
vars   == <<line, enabled, locked, tick, credit, faults, edits>>

DueIn(order) == {p[1] : p \in order}
Due == DueIn(line)

\* A tick that is over: the replica waits for the next one.
Waiting == [stage |-> "waiting", batch |-> {}]
Tick == [stage: {"waiting", "claiming", "pushing"}, batch: SUBSET Assignments]

\* A set of pairs that lines up the assignments in it, one after the other.
IsLine(order) ==
  /\ \A p \in order : <<p[1], p[1]>> \in order /\ <<p[2], p[2]>> \in order
  /\ \A a, b \in DueIn(order) : <<a, b>> \in order \/ <<b, a>> \in order
  /\ \A p \in order : <<p[2], p[1]>> \in order => p[1] = p[2]
  /\ \A p, q \in order : p[2] = q[1] => <<p[1], q[2]>> \in order

TypeOK ==
  /\ line \in SUBSET (Assignments \X Assignments) /\ IsLine(line)
  /\ enabled \in SUBSET Assignments
  /\ locked \in [Assignments -> Schedulers \cup {Nobody}]
  /\ tick \in [Schedulers -> Tick]
  /\ credit \in [Assignments -> 0..(1 + Cardinality(Schedulers))]
  /\ faults \in 0..MaxFaults /\ edits \in 0..MaxEdits

\* Every assignment was just inserted: enabled, and due at once.
Init ==
  /\ line \in {order \in SUBSET (Assignments \X Assignments) :
                IsLine(order) /\ DueIn(order) = Assignments}
  /\ enabled = Assignments
  /\ locked = [a \in Assignments |-> Nobody]
  /\ tick = [s \in Schedulers |-> Waiting]
  /\ credit = [a \in Assignments |-> 1]
  /\ faults = 0 /\ edits = 0

Fault == faults < MaxFaults /\ faults' = faults + 1 /\ UNCHANGED edits
Edit == edits < MaxEdits /\ edits' = edits + 1 /\ UNCHANGED faults

-----------------------------------------------------------------------------
(* The assignments.                                                        *)

\* Mutation: claimDue locks nothing (no FOR UPDATE SKIP LOCKED).
SeesEverything(a) == TRUE
\* A row that a statement has locked is skipped by the next claim, and waited for
\* by an edit.
Unlocked(a) == locked[a] = Nobody

\* Mutation: the renewed or claimed row keeps its old place.
KeepsPlace(S) == line
\* The order of next_check_at without some of the rows.
Without(S) == {p \in line : p[1] \notin S /\ p[2] \notin S}

\* A row joins the end of the line.
AtTheEnd(order, a) == order \cup {<<b, a>> : b \in DueIn(order) \cup {a}}

\* The next check of an assignment falls due.
FallDue(a) ==
  /\ a \notin Due
  /\ line' = AtTheEnd(line, a)
  /\ credit' = [credit EXCEPT ![a] = @ + 1]
  /\ UNCHANGED <<enabled, locked, tick, bounds>>

\* setEnabled(false): next_check_at stays as it is.
Pause(a) ==
  /\ Edit
  /\ Unlocked(a)
  /\ a \in enabled
  /\ enabled' = enabled \ {a}
  /\ UNCHANGED <<line, locked, tick, credit>>

\* setEnabled(true), or a row deleted and inserted by replaceAssignments: enabled,
\* with next_check_at = now().
Renew(a) ==
  /\ Edit
  /\ Unlocked(a)
  /\ enabled' = enabled \cup {a}
  /\ line' = AtTheEnd(Without({a}), a)
  /\ credit' = [credit EXCEPT ![a] = IF a \in Due THEN @ ELSE @ + 1]
  /\ UNCHANGED <<locked, tick>>

-----------------------------------------------------------------------------
(* One tick.                                                               *)

\* Mutation: the batch is taken in no particular order.
FirstOfAny(S) == CHOOSE T \in SUBSET S : T = S \/ Cardinality(T) = BatchSize
\* ORDER BY next_check_at LIMIT.
FirstOf(S) == {a \in S : Cardinality({b \in S : <<b, a>> \in line}) <= BatchSize}

\* The first half of claimDue: the due, enabled rows nobody has locked are locked,
\* oldest first.  A row may also be locked by an evaluation (busy), and is skipped.
SelectDue(s, busy) ==
  LET batch == FirstOf({a \in (Due \cap enabled) \ busy : Unlocked(a)})
  IN /\ tick[s].stage = "waiting"
     /\ batch # {}
     /\ tick' = [tick EXCEPT ![s] = [stage |-> "claiming", batch |-> batch]]
     /\ locked' = [a \in Assignments |-> IF a \in batch THEN s ELSE locked[a]]
     /\ UNCHANGED <<line, enabled, credit>>

Select(s) ==
  \/ SelectDue(s, {}) /\ UNCHANGED bounds
  \/ \E a \in Due : SelectDue(s, {a}) /\ Fault

Unlock(s) == locked' = [a \in Assignments |-> IF locked[a] = s THEN Nobody ELSE locked[a]]

\* The claimed rows are due one interval from now.
Advanced(batch) == Without(batch)

\* The second half: next_check_at is advanced, and the statement commits.
Claim(s) ==
  /\ tick[s].stage = "claiming"
  /\ line' = Advanced(tick[s].batch)
  /\ Unlock(s)
  /\ tick' = [tick EXCEPT ![s].stage = "pushing"]
  /\ UNCHANGED <<enabled, credit, bounds>>

\* The jobs of a set of claimed assignments are pushed, or lost.
Settle(s, S) ==
  /\ credit' = [a \in Assignments |-> IF a \in S THEN credit[a] - 1 ELSE credit[a]]
  /\ LET left == tick[s].batch \ S
     IN tick' = [tick EXCEPT ![s] = IF left = {} THEN Waiting ELSE [@ EXCEPT !.batch = left]]

InRegion(s, r) == {a \in tick[s].batch : RegionOf[a] = r}

\* enqueue: one region's jobs are pushed in one round trip, the regions one after
\* the other.  What Redis refuses is lost: the results of pipe.exec() are not
\* looked at.
Push(s, r) ==
  /\ tick[s].stage = "pushing"
  /\ InRegion(s, r) # {}
  /\ Settle(s, InRegion(s, r))
  /\ UNCHANGED <<line, enabled, locked, bounds>>

\* The tick is cut short, by an error or because the process is stopped or dies.
\* The statement may have been executed nevertheless; the jobs not yet pushed are
\* lost, and their assignments are not due before the next interval.
CutShort(s) ==
  /\ Fault
  /\ tick[s].stage # "waiting"
  /\ Unlock(s)
  /\ \/ /\ tick[s].stage = "claiming"
        /\ tick' = [tick EXCEPT ![s] = Waiting]
        /\ UNCHANGED <<line, credit>>
     \/ /\ line' = IF tick[s].stage = "claiming" THEN Advanced(tick[s].batch) ELSE line
        /\ Settle(s, tick[s].batch)
  /\ UNCHANGED enabled

-----------------------------------------------------------------------------
Next ==
  \/ \E a \in Assignments : FallDue(a) \/ Pause(a) \/ Renew(a)
  \/ \E s \in Schedulers :
       \/ Select(s)
       \/ Claim(s)
       \/ \E a \in Assignments : Push(s, RegionOf[a])
       \/ CutShort(s)

Spec == Init /\ [][Next]_vars

\* The tick timer is armed again after every tick, statements return, and Redis
\* takes the jobs.
Fairness ==
  \A s \in Schedulers :
    /\ WF_vars(SelectDue(s, {}) /\ UNCHANGED bounds)
    /\ WF_vars(Claim(s))
    /\ WF_vars(\E a \in Assignments : Push(s, RegionOf[a]))

FairSpec == Spec /\ Fairness

-----------------------------------------------------------------------------
\* The replicas that have claimed an assignment and not pushed its job yet.
Pushing(a) == {s \in Schedulers : tick[s].stage = "pushing" /\ a \in tick[s].batch}

\* Every due window of an assignment is either still open, or in the hands of
\* exactly one replica, or over: "no assignment is ever enqueued twice per due
\* window" (scheduler.ts:13-14) and none is forgotten, whichever replicas overlap,
\* fail or die, and whatever the API does to the rows.  What a replica is about to
\* claim is still due and enabled when the claim takes effect: a pause that is
\* committed first prevents it, one that comes later waits for it.
WindowsAccounted ==
  /\ \A a \in Assignments :
       credit[a] = Cardinality(Pushing(a)) + (IF a \in Due THEN 1 ELSE 0)
  /\ \A s \in Schedulers : tick[s].stage = "claiming" => tick[s].batch \subseteq Due \cap enabled

\* An enabled assignment that is due is claimed in the end, even when more of them
\* fall due than a tick can claim: the oldest go first.
NobodyStarves ==
  \A a \in Assignments : (a \in Due /\ a \in enabled) ~> (a \notin Due \/ a \notin enabled)

=============================================================================
