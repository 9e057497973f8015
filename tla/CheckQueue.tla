----------------------------- MODULE CheckQueue -----------------------------
(***************************************************************************)
(* The check queue of one region: a Redis stream read by the consumer      *)
(* group of the region's workers.  A job is pending from the XREADGROUP    *)
(* that delivers it to the XACK that follows its handling; a job pending   *)
(* for more than a minute is reclaimed by whichever worker looks first.    *)
(*                                                                         *)
(* Jobs are numbered in the order of their stream ids.  Redis itself       *)
(* executes one command at a time and loses nothing; connections fail and  *)
(* workers die.                                                            *)
(***************************************************************************)
EXTENDS Naturals, FiniteSets

CONSTANTS
  Consumers,    \* the workers of the region
  NoConsumer,   \* owner of a job that is not pending
  MaxJobs,      \* bound: how many jobs are ever enqueued
  Malformed,    \* the jobs whose payload does not parse
  Count,        \* jobs per read and per reclaim (WORKER_CONCURRENCY)
  MaxLen,       \* the stream is trimmed to about this length
  MaxFaults,    \* bound: failures and crashes
  MaxStops      \* bound: calls of stop()

Jobs == 1..MaxJobs

ASSUME QueueAssumption ==
  /\ NoConsumer \notin Consumers
  /\ MaxJobs \in Nat /\ Count \in Nat \ {0} /\ MaxLen \in Nat \ {0}
  /\ MaxFaults \in Nat /\ MaxStops \in Nat
  /\ Malformed \subseteq Jobs

VARIABLES
  added,     \* jobs 1..added have been enqueued
  trimmed,   \* jobs 1..trimmed have been trimmed from the stream
  group,     \* does the consumer group exist?
  last,      \* the last job delivered to the group
  owner,     \* the pending entries list: which worker a job is pending for
  idle,      \* the pending jobs older than RECLAIM_IDLE_MS
  worker,    \* each worker's consume loop
  handled,   \* history: the jobs some onJob has handled successfully
  faults,    \* how many failures and crashes have happened
  stops      \* how many times stop() was called

stream == <<added, trimmed>>
pel    == <<owner, idle>>
bounds == <<faults, stops>>
vars   == <<added, trimmed, group, last, owner, idle, worker, handled, faults, stops>>

Stage == {"dead", "stopped", "reclaiming", "reading", "handling", "backoff"}

\* A worker's loop: what it is at, what the batch came from, whether stop() was
\* called, the jobs onJob still runs for and those to acknowledge.
Loop == [stage: Stage, from: {"reclaiming", "reading"}, running: BOOLEAN,
         todo: SUBSET Jobs, acked: SUBSET Jobs]

Dead == [stage |-> "dead", from |-> "reclaiming", running |-> FALSE,
         todo |-> {}, acked |-> {}]

TypeOK ==
  /\ added \in 0..MaxJobs /\ trimmed \in 0..added /\ last \in 0..added
  /\ group \in BOOLEAN
  /\ owner \in [Jobs -> Consumers \cup {NoConsumer}]
  /\ idle \in SUBSET {m \in Jobs : owner[m] # NoConsumer}
  /\ worker \in [Consumers -> Loop]
  /\ handled \in SUBSET (1..last)
  /\ faults \in 0..MaxFaults /\ stops \in 0..MaxStops

Init ==
  /\ added = 0 /\ trimmed = 0 /\ last = 0
  /\ group = FALSE
  /\ owner = [m \in Jobs |-> NoConsumer]
  /\ idle = {}
  /\ worker = [c \in Consumers |-> Dead]
  /\ handled = {}
  /\ faults = 0 /\ stops = 0

Fault == faults < MaxFaults /\ faults' = faults + 1 /\ UNCHANGED stops

-----------------------------------------------------------------------------
(* Redis.                                                                  *)

\* XADD MAXLEN ~: the stream may be trimmed, never below MaxLen entries.
Enqueue ==
  /\ added < MaxJobs
  /\ added' = added + 1
  /\ trimmed' \in {trimmed} \cup {n \in trimmed..added : added + 1 - n >= MaxLen}
  /\ UNCHANGED <<group, last, pel, worker, handled, bounds>>

\* A minute passes for a pending job.
GrowIdle(m) ==
  /\ owner[m] # NoConsumer
  /\ m \notin idle
  /\ idle' = idle \cup {m}
  /\ UNCHANGED <<stream, group, last, owner, worker, handled, bounds>>

\* The first Count members of a set of jobs, in stream order.
Page(S) == {m \in S : Cardinality({n \in S : n < m}) < Count}

\* Jobs not yet delivered to anyone.
NewJobs == {m \in Jobs : last < m /\ trimmed < m /\ m <= added}

\* XREADGROUP >: the batch it delivers, and its effect on the group.
ReadBatch == Page(NewJobs)
Delivered(c) ==
  /\ last' = CHOOSE n \in ReadBatch : \A m \in ReadBatch : m <= n
  /\ owner' = [m \in Jobs |-> IF m \in ReadBatch THEN c ELSE owner[m]]
  /\ UNCHANGED idle

\* XAUTOCLAIM from the start of the pending list: one page of it.  Jobs whose
\* entry was trimmed are dropped from the list, idle ones change hands.
ClaimPage == Page({m \in Jobs : owner[m] # NoConsumer /\ (m <= trimmed \/ m \in idle)})
ClaimBatch == {m \in ClaimPage : m > trimmed}
Claimed(c) ==
  /\ owner' = [m \in Jobs |-> IF m \notin ClaimPage THEN owner[m]
                              ELSE IF m <= trimmed THEN NoConsumer ELSE c]
  /\ idle' = idle \ ClaimPage
  /\ UNCHANGED last

\* XACK: whoever the jobs are pending for by now.
Acknowledged(S) ==
  /\ owner' = [m \in Jobs |-> IF m \in S THEN NoConsumer ELSE owner[m]]
  /\ idle' = idle \ S

-----------------------------------------------------------------------------
(* The consume loop of one worker.                                         *)

\* Mutation: the group starts past the end of the stream.
GroupPastEnd == added + 1
\* ensureGroup creates the group at '0', the start of the stream.
GroupStart == 0

\* A worker process starts: ensureGroup, then run().
Start(c) ==
  /\ worker[c].stage \in {"dead", "stopped"}
  /\ worker' = [worker EXCEPT ![c] = [Dead EXCEPT !.stage = "reclaiming", !.running = TRUE]]
  /\ group' = TRUE
  /\ last' = IF group THEN last ELSE GroupStart
  /\ UNCHANGED <<stream, pel, handled, bounds>>

\* Mutation: only the first cycle of a loop reclaims.
AfterReclaimOnce(c, from) == IF worker[c].running THEN "reading" ELSE "stopped"
\* Where the loop goes once the batch of a stage is done: `running` is tested
\* before each new command.
After(c, from) ==
  IF ~worker[c].running THEN "stopped"
  ELSE IF from = "reclaiming" THEN "reading" ELSE "reclaiming"

\* parseEntries: malformed jobs are skipped, and stay pending.
Parsed(S) == S \ Malformed

\* processEntries: onJob is called for every job of the batch at once.
Process(c, from, S) ==
  worker' = [worker EXCEPT
    ![c].stage = IF Parsed(S) = {} THEN After(c, from) ELSE "handling",
    ![c].from = from,
    ![c].todo = Parsed(S),
    ![c].acked = {}]

reclaimStuck(c) ==
  /\ worker[c].stage = "reclaiming"
  /\ Claimed(c)
  /\ Process(c, "reclaiming", ClaimBatch)
  /\ UNCHANGED <<stream, group, handled, bounds>>

\* XREADGROUP returns a batch, or nothing after blockMs.
readNew(c) ==
  /\ worker[c].stage = "reading"
  /\ IF ReadBatch # {} THEN Delivered(c) ELSE UNCHANGED <<last, pel>>
  /\ Process(c, "reading", ReadBatch)
  /\ UNCHANGED <<stream, group, handled, bounds>>

\* onJob returns for one job of the batch.
Handle(c, m) ==
  /\ m \in worker[c].todo
  /\ worker' = [worker EXCEPT ![c].todo = @ \ {m}, ![c].acked = @ \cup {m}]
  /\ handled' = handled \cup {m}
  /\ UNCHANGED <<stream, group, last, pel, bounds>>

\* Mutation: a job is acknowledged whether or not it succeeded.
AckedAnyway(acked, m) == acked \cup {m}
\* A failed job is left out of the acknowledgement.
AckedAfterError(acked, m) == acked

\* onJob throws: the job is left pending.
HandleFails(c, m) ==
  /\ Fault
  /\ m \in worker[c].todo
  /\ worker' = [worker EXCEPT ![c].todo = @ \ {m}, ![c].acked = AckedAfterError(@, m)]
  /\ UNCHANGED <<stream, group, last, pel, handled>>

\* The jobs XACK names when the batch is done.
ToAck(c) == worker[c].acked

\* Every onJob of the batch has settled: acknowledge the successful ones.
Ack(c) ==
  /\ worker[c].stage = "handling"
  /\ worker[c].todo = {}
  /\ Acknowledged(ToAck(c))
  /\ worker' = [worker EXCEPT ![c].stage = After(c, worker[c].from), ![c].acked = {}]
  /\ UNCHANGED <<stream, group, last, handled, bounds>>

\* A command fails, before or after Redis has executed it, and the loop backs off.
CommandFails(c) ==
  /\ Fault
  /\ \/ worker[c].stage = "reclaiming" /\ (Claimed(c) \/ UNCHANGED <<last, pel>>)
     \/ /\ worker[c].stage = "reading"
        /\ \/ ReadBatch # {} /\ Delivered(c)
           \/ UNCHANGED <<last, pel>>
     \/ /\ worker[c].stage = "handling" /\ worker[c].todo = {} /\ worker[c].acked # {}
        /\ Acknowledged(ToAck(c)) \/ UNCHANGED pel
        /\ UNCHANGED last
  /\ worker' = [worker EXCEPT ![c].stage = "backoff", ![c].acked = {}]
  /\ UNCHANGED <<stream, group, handled>>

\* A second later the loop goes on, if it may.
Resume(c) ==
  /\ worker[c].stage = "backoff"
  /\ worker' = [worker EXCEPT ![c].stage =
                  IF worker[c].running THEN "reclaiming" ELSE "stopped"]
  /\ UNCHANGED <<stream, group, last, pel, handled, bounds>>

\* stop(), on SIGTERM: the current cycle is completed.
Stop(c) ==
  /\ stops < MaxStops /\ stops' = stops + 1
  /\ worker[c].running
  /\ worker' = [worker EXCEPT ![c].running = FALSE]
  /\ UNCHANGED <<stream, group, last, pel, handled, faults>>

Crash(c) ==
  /\ Fault
  /\ worker[c].stage \notin {"dead", "stopped"}
  /\ worker' = [worker EXCEPT ![c] = Dead]
  /\ UNCHANGED <<stream, group, last, pel, handled>>

-----------------------------------------------------------------------------
WorkerStep(c) ==
  \/ Start(c)
  \/ reclaimStuck(c)
  \/ readNew(c)
  \/ \E m \in Jobs : Handle(c, m) \/ HandleFails(c, m)
  \/ Ack(c)
  \/ CommandFails(c)
  \/ Resume(c)
  \/ Stop(c)
  \/ Crash(c)

Next ==
  \/ Enqueue
  \/ \E m \in Jobs : GrowIdle(m)
  \/ \E c \in Consumers : WorkerStep(c)

Spec == Init /\ [][Next]_vars

\* Workers are restarted when they end (restart: unless-stopped), their loops go
\* on, every probe has a timeout, and minutes pass.
Fairness ==
  /\ \A c \in Consumers :
       /\ WF_vars(Start(c))
       /\ WF_vars(reclaimStuck(c) \/ readNew(c) \/ Ack(c) \/ Resume(c))
       /\ \A m \in Jobs : WF_vars(Handle(c, m))
  /\ \A m \in Jobs : WF_vars(GrowIdle(m))

FairSpec == Spec /\ Fairness

-----------------------------------------------------------------------------
\* No job slips out of the queue: one that was delivered and is no longer pending
\* was handled successfully, unless the stream was trimmed under it; whatever
\* failed, crashed, was reclaimed or acknowledged twice in between.  And a worker
\* that was stopped while nothing failed leaves none of the jobs it handled behind
\* to be handled again ("resolves when stop() completes the current cycle",
\* check-queue.ts:69).
NoJobForgotten ==
  /\ \A m \in (trimmed + 1)..last : owner[m] # NoConsumer \/ m \in handled
  /\ \A c \in Consumers, m \in handled :
       worker[c].stage = "stopped" /\ faults = 0 => owner[m] # c

\* At-least-once delivery (check-queue.ts:7-8): every job that parses is handled
\* in the end, unless it is trimmed; the messages a crashed worker never
\* acknowledged are recovered.  That takes fewer malformed entries than a page:
\* a whole page of them, idle again in every cycle, is all that is ever reclaimed.
EveryJobHandled ==
  Cardinality(Malformed) < Count =>
    \A m \in Jobs \ Malformed : added >= m ~> (m \in handled \/ m <= trimmed)

=============================================================================
