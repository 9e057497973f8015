-------------------------- MODULE CheckQueue_proofs --------------------------
(***************************************************************************)
(* At-least-once delivery, for any number of workers and jobs: whatever is *)
(* reclaimed, lost, repeated or cut short, no job that was delivered leaves *)
(* the pending list before somebody has handled it.                        *)
(***************************************************************************)
EXTENDS CheckQueue, FiniteSetTheorems, WellFoundedInduction, TLAPS

\* Only what was delivered is pending, and only to a group that exists.
PendingDelivered ==
  /\ group \/ last = 0
  /\ \A m \in Jobs : owner[m] # NoConsumer => m <= last

\* What a worker has in hand was delivered and parses; what it will acknowledge was
\* handled; between batches it has nothing in hand; a worker that runs has seen to the
\* group.
BatchesSound ==
  \A c \in Consumers :
    /\ worker[c].todo \cup worker[c].acked \subseteq (1..last) \ Malformed
    /\ worker[c].acked \subseteq handled
    /\ worker[c].stage # "handling" => worker[c].todo = {} /\ worker[c].acked = {}
    /\ worker[c].stage # "dead" => group

\* A job that does not parse is never handled.
HandledParsed == handled \cap Malformed = {}

\* The first half of NoJobForgotten.
KeptUntilHandled == \A m \in (trimmed + 1)..last : owner[m] # NoConsumer \/ m \in handled

\* As long as nothing has failed, a worker has in hand every job it owns that parses.
OwnersAtWork ==
  faults = 0 =>
    \A c \in Consumers, m \in Jobs \ Malformed :
      owner[m] = c => m \in worker[c].todo \cup worker[c].acked

QueueInv ==
  /\ TypeOK
  /\ PendingDelivered
  /\ BatchesSound
  /\ HandledParsed
  /\ KeptUntilHandled
  /\ OwnersAtWork

-----------------------------------------------------------------------------
(* Batches.                                                                *)

\* Sets of jobs are finite sets of numbers.
LEMMA JobSets ==
  ASSUME NEW S \in SUBSET Jobs
  PROVE  IsFiniteSet(S) /\ S \subseteq Nat
<1>1. MaxJobs \in Nat
  BY QueueAssumption
<1>2. IsFiniteSet(1..MaxJobs)
  BY <1>1, FS_Interval
<1>3. IsFiniteSet(S)
  BY <1>2, FS_Subset DEF Jobs
<1> QED BY <1>1, <1>3 DEF Jobs

\* A set of jobs that is not empty has a last one: of the sets of the jobs after one
\* of them, a smallest is empty.
LEMMA LastOfBatch ==
  ASSUME NEW S \in SUBSET Jobs, S # {}
  PROVE  \E n \in S : \A m \in S : m <= n
<1> DEFINE Later(n) == {m \in S : n < m}
           T == {Later(n) : n \in S}
<1>1. IsFiniteSet(S) /\ S \subseteq Nat
  BY JobSets
<1>2. IsWellFoundedOn(StrictSubsetOrdering(S), FiniteSubsetsOf(S))
  BY FS_StrictSubsetOrderingWellFounded
<1>3. T \subseteq FiniteSubsetsOf(S) /\ T # {}
  <2>1. FiniteSubsetsOf(S) = SUBSET S
    BY <1>1, FS_FiniteSubsetsOfFinite
  <2>2. \A n \in S : Later(n) \in SUBSET S
    OBVIOUS
  <2>3. T \subseteq SUBSET S
    BY <2>2
  <2>4. PICK n \in S : TRUE
    OBVIOUS
  <2>5. Later(n) \in T
    BY <2>4
  <2> QED BY <2>1, <2>3, <2>5
<1>4. PICK x \in T : \A y \in T : <<y, x>> \notin StrictSubsetOrdering(S)
  <2> HIDE DEF T
  <2> QED BY <1>2, <1>3, WFMin
<1>5. PICK n \in S : x = Later(n)
  BY <1>4
<1>6. ASSUME NEW m \in S, n < m
      PROVE  FALSE
  <2>1. m \in Later(n) /\ m \notin Later(m)
    BY <1>1, <1>6
  <2>2. \A k \in S : m < k => n < k
    BY <1>1, <1>6
  <2>3. <<Later(m), Later(n)>> \in StrictSubsetOrdering(S)
    BY <2>1, <2>2 DEF StrictSubsetOrdering
  <2> QED BY <1>4, <1>5, <2>3
<1> QED BY <1>1, <1>6

\* A page has no gaps: with a job of the set it has those before it.
LEMMA PageHasNoGaps ==
  ASSUME NEW S \in SUBSET Jobs, NEW m \in Page(S), NEW n \in S, n < m
  PROVE  n \in Page(S)
<1> DEFINE Before(k) == {j \in S : j < k}
<1>1. IsFiniteSet(S) /\ S \subseteq Nat
  BY JobSets
<1>2. m \in S /\ Cardinality(Before(m)) < Count
  BY DEF Page
<1>3. \A j \in S : j < n => j < m
  BY <1>1, <1>2
<1>4. Before(n) \in SUBSET Before(m)
  BY <1>3
<1>5. IsFiniteSet(Before(m)) /\ IsFiniteSet(Before(n))
  BY <1>1, FS_Subset
<1>6. Cardinality(Before(n)) <= Cardinality(Before(m))
  BY <1>4, <1>5, FS_Subset
<1>7. Cardinality(Before(n)) < Count
  BY <1>2, <1>5, <1>6, FS_CardinalityType, QueueAssumption
<1> QED BY <1>7 DEF Page

\* What XREADGROUP delivers: new jobs, all of them up to the group's new last id.
LEMMA ReadDelivers ==
  ASSUME TypeOK, ReadBatch # {}, NEW c \in Consumers, Delivered(c)
  PROVE  /\ ReadBatch \subseteq Jobs
         /\ last' \in ReadBatch /\ last < last' /\ last' <= added
         /\ \A m \in ReadBatch : last < m /\ trimmed < m /\ m <= last'
         /\ \A m \in (last + 1)..last' : trimmed < m => m \in ReadBatch
<1>1. ReadBatch \subseteq NewJobs /\ NewJobs \subseteq Jobs
  BY DEF ReadBatch, Page, NewJobs
<1>2. \E n \in ReadBatch : \A m \in ReadBatch : m <= n
  BY <1>1, LastOfBatch
<1>3. last' \in ReadBatch /\ \A m \in ReadBatch : m <= last'
  BY <1>2 DEF Delivered
<1>4. \A m \in ReadBatch : last < m /\ trimmed < m /\ m <= added
  BY <1>1 DEF NewJobs
<1>5. ASSUME NEW m \in (last + 1)..last', trimmed < m
      PROVE  m \in ReadBatch
  <2>1. m \in NewJobs
    BY <1>1, <1>3, <1>4, <1>5, QueueAssumption DEF NewJobs, Jobs, TypeOK
  <2>2. CASE m = last'
    BY <1>3, <2>2
  <2>3. CASE m < last'
    BY <1>1, <1>3, <2>1, <2>3, PageHasNoGaps DEF ReadBatch
  <2> QED BY <1>1, <1>3, <2>2, <2>3, QueueAssumption DEF Jobs, TypeOK
<1> QED BY <1>1, <1>3, <1>4, <1>5

\* A page is made of members of the set.
LEMMA PageOf ==
  ASSUME NEW S
  PROVE  Page(S) \subseteq S
BY DEF Page

-----------------------------------------------------------------------------
(* The invariant.                                                          *)

LEMMA QueueInit == Init => QueueInv
<1> SUFFICES ASSUME Init PROVE QueueInv
  OBVIOUS
<1>1. TypeOK
  <2>1. worker \in [Consumers -> Loop]
    BY DEF Init, Dead, Loop, Stage
  <2>2. owner \in [Jobs -> Consumers \cup {NoConsumer}]
    BY DEF Init
  <2>3. MaxJobs \in Nat /\ MaxFaults \in Nat /\ MaxStops \in Nat
    BY QueueAssumption
  <2>4. 0 \in 0..MaxJobs /\ 0 \in 0..0 /\ 0 \in 0..MaxFaults /\ 0 \in 0..MaxStops
    BY <2>3
  <2> QED BY <2>1, <2>2, <2>4 DEF Init, TypeOK
<1>2. PendingDelivered
  BY DEF Init, PendingDelivered
<1>3. BatchesSound
  BY DEF Init, BatchesSound, Dead
<1>4. HandledParsed /\ KeptUntilHandled
  BY DEF Init, HandledParsed, KeptUntilHandled
<1>5. OwnersAtWork
  BY QueueAssumption DEF Init, OwnersAtWork
<1> QED BY <1>1, <1>2, <1>3, <1>4, <1>5 DEF QueueInv

LEMMA TrimmingShrinks ==
  ASSUME NEW a \in Nat, NEW b \in Nat, NEW n \in Nat, a <= b
  PROVE  (b + 1)..n \subseteq (a + 1)..n
OBVIOUS

\* Trimming only takes jobs out of what is promised.
LEMMA EnqueueKeeps ==
  ASSUME QueueInv, Enqueue
  PROVE  QueueInv'
<1> USE DEF QueueInv, Enqueue, pel, bounds
<1>0. added \in Nat /\ trimmed \in Nat /\ trimmed <= added
  BY QueueAssumption DEF TypeOK
<1>1. added' = added + 1 /\ trimmed' \in Nat /\ trimmed <= trimmed' /\ trimmed' <= added
  BY <1>0
<1>2. TypeOK'
  BY <1>1, QueueAssumption DEF TypeOK
<1>3. (PendingDelivered /\ BatchesSound /\ HandledParsed /\ OwnersAtWork)'
  BY DEF PendingDelivered, BatchesSound, HandledParsed, OwnersAtWork
<1>4. KeptUntilHandled'
  <2>1. last \in Nat /\ last' = last
    BY <1>0, QueueAssumption DEF TypeOK
  <2>2. (trimmed' + 1)..last' \subseteq (trimmed + 1)..last
    BY <1>0, <1>1, <2>1, TrimmingShrinks
  <2> QED BY <2>2 DEF KeptUntilHandled
<1> QED BY <1>2, <1>3, <1>4

LEMMA GrowIdleKeeps ==
  ASSUME QueueInv, NEW m \in Jobs, GrowIdle(m)
  PROVE  QueueInv'
<1> USE DEF QueueInv, GrowIdle, stream, bounds
<1>1. TypeOK'
  BY DEF TypeOK
<1>2. (PendingDelivered /\ BatchesSound /\ HandledParsed /\ OwnersAtWork)'
  BY DEF PendingDelivered, BatchesSound, HandledParsed, OwnersAtWork
<1>3. KeptUntilHandled'
  BY DEF KeptUntilHandled
<1> QED BY <1>1, <1>2, <1>3

\* A worker that starts has nothing in hand, as before; the group it may create starts
\* where the stream does.
LEMMA StartKeeps ==
  ASSUME QueueInv, NEW c \in Consumers, Start(c)
  PROVE  QueueInv'
<1> USE DEF QueueInv, Start, stream, pel, bounds, GroupStart
<1>1. last' = last
  BY DEF PendingDelivered
<1>2. worker'[c].todo = {} /\ worker'[c].acked = {} /\ worker'[c].stage = "reclaiming"
  BY DEF TypeOK, Dead
<1>3. worker[c].todo = {} /\ worker[c].acked = {}
  BY DEF BatchesSound
<1>4. \A d \in Consumers \ {c} : worker'[d] = worker[d]
  BY DEF TypeOK
<1>5. TypeOK'
  BY <1>1 DEF TypeOK, Dead, Loop, Stage
<1>6. PendingDelivered' /\ HandledParsed' /\ KeptUntilHandled'
  BY <1>1 DEF PendingDelivered, HandledParsed, KeptUntilHandled
<1>7. BatchesSound'
  BY <1>1, <1>2, <1>4 DEF BatchesSound
<1>8. OwnersAtWork'
  BY <1>2, <1>3, <1>4 DEF OwnersAtWork
<1> QED BY <1>5, <1>6, <1>7, <1>8

\* What a reclaim leaves of the pending list, and what it gives the worker.
LEMMA ClaimKeeps ==
  ASSUME QueueInv, NEW c \in Consumers, Claimed(c)
  PROVE  /\ last' = last
         /\ owner' \in [Jobs -> Consumers \cup {NoConsumer}]
         /\ idle' \in SUBSET {m \in Jobs : owner'[m] # NoConsumer}
         /\ ClaimBatch \in SUBSET (1..last)
         /\ \A m \in Jobs : owner'[m] # NoConsumer => owner[m] # NoConsumer
         /\ \A m \in Jobs : owner[m] # NoConsumer /\ trimmed < m => owner'[m] # NoConsumer
         /\ \A m \in Jobs, d \in Consumers :
              owner'[m] = d => owner[m] = d \/ (d = c /\ m \in ClaimBatch)
<1> DEFINE Lost == {m \in Jobs : owner[m] # NoConsumer /\ (m <= trimmed \/ m \in idle)}
<1>1. ClaimPage \subseteq Lost
  BY DEF ClaimPage, Page
<1>2. /\ last \in Nat /\ trimmed \in Nat /\ Jobs \subseteq Nat
      /\ owner \in [Jobs -> Consumers \cup {NoConsumer}]
      /\ idle \in SUBSET {m \in Jobs : owner[m] # NoConsumer}
  BY QueueAssumption DEF QueueInv, TypeOK, Jobs
<1>3. ClaimBatch \in SUBSET (1..last)
  <2>1. \A m \in Lost : m <= last
    BY DEF QueueInv, PendingDelivered
  <2>2. \A m \in Jobs : m \in Nat /\ 1 <= m
    BY QueueAssumption DEF Jobs
  <2>3. \A m \in Lost : m \in 1..last
    BY <1>2, <2>1, <2>2
  <2> QED BY <1>1, <2>3 DEF ClaimBatch
<1>4. \A m \in Jobs : owner'[m] =
         IF m \notin ClaimPage THEN owner[m] ELSE IF m <= trimmed THEN NoConsumer ELSE c
  BY <1>2 DEF Claimed
<1>5. owner' \in [Jobs -> Consumers \cup {NoConsumer}]
  BY <1>2 DEF Claimed
<1>6. idle' \in SUBSET {m \in Jobs : owner'[m] # NoConsumer}
  BY <1>2, <1>4 DEF Claimed
<1>7. \A m \in Jobs : owner'[m] # NoConsumer => owner[m] # NoConsumer
  BY <1>1, <1>4
<1>8. \A m \in Jobs : owner[m] # NoConsumer /\ trimmed < m => owner'[m] # NoConsumer
  BY <1>2, <1>4, QueueAssumption
<1>9. ASSUME NEW m \in Jobs, NEW d \in Consumers, owner'[m] = d, owner[m] # d
      PROVE  d = c /\ m \in ClaimBatch
  BY <1>2, <1>4, <1>9, QueueAssumption DEF ClaimBatch
<1> QED BY <1>3, <1>5, <1>6, <1>7, <1>8, <1>9 DEF Claimed

\* The loop of a worker that has taken a batch.
LEMMA ProcessKeeps ==
  ASSUME TypeOK, NEW c \in Consumers, NEW from \in {"reclaiming", "reading"},
         NEW S \in SUBSET Jobs, Process(c, from, S)
  PROVE  /\ worker' \in [Consumers -> Loop]
         /\ \A d \in Consumers \ {c} : worker'[d] = worker[d]
         /\ worker'[c].todo = S \ Malformed /\ worker'[c].acked = {}
         /\ worker'[c].stage # "handling" => S \ Malformed = {}
<1>1. worker \in [Consumers -> Loop]
  BY DEF TypeOK
<1>2. After(c, from) \in Stage \ {"handling"}
  BY DEF After, Stage
<1>3. Parsed(S) \in SUBSET Jobs
  BY DEF Parsed
<1>4. worker' = [worker EXCEPT ![c] = [worker[c] EXCEPT
                  !.stage = IF Parsed(S) = {} THEN After(c, from) ELSE "handling",
                  !.from = from, !.todo = Parsed(S), !.acked = {}]]
  BY <1>1 DEF Process
<1>5. worker'[c] = [worker[c] EXCEPT
                  !.stage = IF Parsed(S) = {} THEN After(c, from) ELSE "handling",
                  !.from = from, !.todo = Parsed(S), !.acked = {}]
  BY <1>1, <1>4
<1>6. worker'[c] \in Loop
  BY <1>1, <1>2, <1>3, <1>5, ZenonT(30) DEF Loop, Stage
<1>7. worker' \in [Consumers -> Loop]
  BY <1>1, <1>4, <1>5, <1>6
<1>8. \A d \in Consumers \ {c} : worker'[d] = worker[d]
  BY <1>1, <1>4
<1>9. /\ worker'[c].todo = Parsed(S) /\ worker'[c].acked = {}
      /\ worker'[c].stage = IF Parsed(S) = {} THEN After(c, from) ELSE "handling"
  BY <1>1, <1>5 DEF Loop
<1> QED BY <1>2, <1>7, <1>8, <1>9 DEF Parsed

\* A reclaimed batch was delivered before; the others lose at most what was idle.
LEMMA ReclaimKeeps ==
  ASSUME QueueInv, NEW c \in Consumers, reclaimStuck(c)
  PROVE  QueueInv'
<1> USE DEF QueueInv, stream, bounds
<1>1. /\ Claimed(c) /\ Process(c, "reclaiming", ClaimBatch)
      /\ worker[c].stage = "reclaiming"
      /\ UNCHANGED <<added, trimmed, group, handled, faults, stops>>
  BY DEF reclaimStuck
<1>2. /\ last' = last
      /\ owner' \in [Jobs -> Consumers \cup {NoConsumer}]
      /\ idle' \in SUBSET {m \in Jobs : owner'[m] # NoConsumer}
      /\ ClaimBatch \in SUBSET (1..last)
      /\ \A m \in Jobs : owner'[m] # NoConsumer => owner[m] # NoConsumer
      /\ \A m \in Jobs : owner[m] # NoConsumer /\ trimmed < m => owner'[m] # NoConsumer
      /\ \A m \in Jobs, d \in Consumers :
           owner'[m] = d => owner[m] = d \/ (d = c /\ m \in ClaimBatch)
  BY <1>1, ClaimKeeps
<1>3. ClaimBatch \in SUBSET Jobs
  BY DEF ClaimBatch, ClaimPage, Page
<1>4. /\ worker' \in [Consumers -> Loop]
      /\ \A d \in Consumers \ {c} : worker'[d] = worker[d]
      /\ worker'[c].todo = ClaimBatch \ Malformed /\ worker'[c].acked = {}
      /\ worker'[c].stage # "handling" => ClaimBatch \ Malformed = {}
  BY <1>1, <1>3, ProcessKeeps
<1>5. TypeOK'
  BY <1>1, <1>2, <1>4 DEF TypeOK
<1>6. PendingDelivered' /\ HandledParsed'
  BY <1>1, <1>2 DEF PendingDelivered, HandledParsed
<1>7. group
  BY <1>1 DEF BatchesSound
<1>8. BatchesSound'
  BY <1>1, <1>2, <1>4, <1>7 DEF BatchesSound
<1>9. KeptUntilHandled'
  <2>1. \A m \in (trimmed + 1)..last : m \in Jobs /\ trimmed < m
    BY QueueAssumption DEF TypeOK, Jobs
  <2> QED BY <1>1, <1>2, <2>1 DEF KeptUntilHandled
<1>10. OwnersAtWork'
  BY <1>1, <1>2, <1>4 DEF OwnersAtWork, BatchesSound
<1> QED BY <1>5, <1>6, <1>8, <1>9, <1>10

\* A batch XREADGROUP delivered: new jobs, all for this worker.
LEMMA DeliveryKeeps ==
  ASSUME QueueInv, NEW c \in Consumers, ReadBatch # {}, Delivered(c)
  PROVE  /\ last' \in 0..added /\ last <= last'
         /\ owner' \in [Jobs -> Consumers \cup {NoConsumer}]
         /\ idle' \in SUBSET {m \in Jobs : owner'[m] # NoConsumer}
         /\ ReadBatch \in SUBSET (1..last')
         /\ \A m \in Jobs : owner'[m] # NoConsumer => m <= last'
         /\ \A m \in (trimmed + 1)..last' : owner'[m] # NoConsumer \/ m \in handled
         /\ \A m \in Jobs, d \in Consumers :
              owner'[m] = d => owner[m] = d \/ (d = c /\ m \in ReadBatch)
<1>1. /\ ReadBatch \subseteq Jobs
      /\ last' \in ReadBatch /\ last < last' /\ last' <= added
      /\ \A m \in ReadBatch : last < m /\ trimmed < m /\ m <= last'
      /\ \A m \in (last + 1)..last' : trimmed < m => m \in ReadBatch
  BY ReadDelivers DEF QueueInv
<1>2. /\ last \in Nat /\ trimmed \in Nat /\ added \in Nat /\ Jobs \subseteq Nat
      /\ added <= MaxJobs /\ MaxJobs \in Nat
      /\ owner \in [Jobs -> Consumers \cup {NoConsumer}]
      /\ idle \in SUBSET {m \in Jobs : owner[m] # NoConsumer}
  BY QueueAssumption DEF QueueInv, TypeOK, Jobs
<1>3. \A m \in Jobs : owner'[m] = IF m \in ReadBatch THEN c ELSE owner[m]
  BY DEF Delivered
<1>4. owner' \in [Jobs -> Consumers \cup {NoConsumer}]
  BY <1>2 DEF Delivered
<1>5. idle' \in SUBSET {m \in Jobs : owner'[m] # NoConsumer}
  BY <1>2, <1>3, QueueAssumption DEF Delivered
<1>6. ReadBatch \in SUBSET (1..last')
  <2>1. \A m \in ReadBatch : m \in Nat /\ 1 <= m
    BY <1>1, QueueAssumption DEF Jobs
  <2>2. \A m \in ReadBatch : m \in 1..last'
    BY <1>1, <2>1
  <2> QED BY <2>2
<1>7. ASSUME NEW m \in Jobs, owner'[m] # NoConsumer
      PROVE  m <= last'
  <2>1. CASE m \in ReadBatch
    BY <1>1, <2>1
  <2>2. CASE m \notin ReadBatch
    <3>1. m <= last
      BY <1>3, <1>7, <2>2 DEF QueueInv, PendingDelivered
    <3> QED BY <1>1, <1>2, <3>1
  <2> QED BY <2>1, <2>2
<1>8. ASSUME NEW m \in (trimmed + 1)..last'
      PROVE  owner'[m] # NoConsumer \/ m \in handled
  <2>1. m \in Jobs /\ m \in Nat /\ trimmed < m /\ m <= last' /\ last' \in Nat
    BY <1>1, <1>2 DEF Jobs
  <2>2. CASE m <= last
    <3>1. owner[m] # NoConsumer \/ m \in handled
      BY <1>2, <2>1, <2>2 DEF QueueInv, KeptUntilHandled
    <3> QED BY <1>3, <2>1, <3>1, QueueAssumption
  <2>3. CASE last < m
    <3>1. m \in ReadBatch
      BY <1>1, <1>2, <2>1, <2>3
    <3> QED BY <1>3, <2>1, <3>1, QueueAssumption
  <2> QED BY <1>2, <2>1, <2>2, <2>3
<1>9. \A m \in Jobs, d \in Consumers :
        owner'[m] = d => owner[m] = d \/ (d = c /\ m \in ReadBatch)
  BY <1>3
<1>10. last' \in 0..added /\ last <= last'
  BY <1>1, <1>2
<1> QED BY <1>4, <1>5, <1>6, <1>7, <1>8, <1>9, <1>10

\* A read takes what is new, and leaves no gap behind.
LEMMA ReadKeeps ==
  ASSUME QueueInv, NEW c \in Consumers, readNew(c)
  PROVE  QueueInv'
<1> USE DEF QueueInv, stream, bounds
<1>1. /\ Process(c, "reading", ReadBatch)
      /\ worker[c].stage = "reading"
      /\ UNCHANGED <<added, trimmed, group, handled, faults, stops>>
      /\ ReadBatch # {} => Delivered(c)
      /\ ReadBatch = {} => UNCHANGED <<last, owner, idle>>
  BY DEF readNew, pel
<1>2. ReadBatch \in SUBSET Jobs
  BY DEF ReadBatch, Page, NewJobs
<1>3. /\ worker' \in [Consumers -> Loop]
      /\ \A d \in Consumers \ {c} : worker'[d] = worker[d]
      /\ worker'[c].todo = ReadBatch \ Malformed /\ worker'[c].acked = {}
      /\ worker'[c].stage # "handling" => ReadBatch \ Malformed = {}
  BY <1>1, <1>2, ProcessKeeps
<1>4. group
  BY <1>1 DEF BatchesSound
<1>5. CASE ReadBatch = {}
  <2>1. TypeOK'
    BY <1>1, <1>3, <1>5 DEF TypeOK
  <2>2. PendingDelivered' /\ HandledParsed' /\ KeptUntilHandled'
    BY <1>1, <1>5 DEF PendingDelivered, HandledParsed, KeptUntilHandled
  <2>3. BatchesSound'
    BY <1>1, <1>3, <1>4, <1>5 DEF BatchesSound
  <2>4. OwnersAtWork'
    BY <1>1, <1>3, <1>5 DEF OwnersAtWork, BatchesSound
  <2> QED BY <2>1, <2>2, <2>3, <2>4
<1>6. CASE ReadBatch # {}
  <2>1. /\ last' \in 0..added /\ last <= last'
        /\ owner' \in [Jobs -> Consumers \cup {NoConsumer}]
        /\ idle' \in SUBSET {m \in Jobs : owner'[m] # NoConsumer}
        /\ ReadBatch \in SUBSET (1..last')
        /\ \A m \in Jobs : owner'[m] # NoConsumer => m <= last'
        /\ \A m \in (trimmed + 1)..last' : owner'[m] # NoConsumer \/ m \in handled
        /\ \A m \in Jobs, d \in Consumers :
             owner'[m] = d => owner[m] = d \/ (d = c /\ m \in ReadBatch)
    BY <1>1, <1>6, DeliveryKeeps
  <2>2. 1..last \subseteq 1..last'
    BY <2>1, QueueAssumption DEF TypeOK
  <2>3. TypeOK'
    BY <1>1, <1>3, <2>1, <2>2 DEF TypeOK
  <2>4. PendingDelivered' /\ HandledParsed' /\ KeptUntilHandled'
    BY <1>1, <1>4, <2>1 DEF PendingDelivered, HandledParsed, KeptUntilHandled
  <2>5. BatchesSound'
    BY <1>1, <1>3, <1>4, <2>1, <2>2 DEF BatchesSound
  <2>6. OwnersAtWork'
    BY <1>1, <1>3, <2>1 DEF OwnersAtWork, BatchesSound
  <2> QED BY <2>3, <2>4, <2>5, <2>6
<1> QED BY <1>5, <1>6

-----------------------------------------------------------------------------
(* The steps of a batch in hand.                                           *)

LEMMA HandleKeeps ==
  ASSUME QueueInv, NEW c \in Consumers, NEW m \in Jobs, Handle(c, m)
  PROVE  QueueInv'
<1> USE DEF QueueInv, stream, pel, bounds
<1>1. /\ m \in worker[c].todo /\ handled' = handled \cup {m}
      /\ UNCHANGED <<added, trimmed, group, last, owner, idle, faults, stops>>
  BY DEF Handle
<1>2. worker[c] \in Loop
  BY DEF TypeOK
<1>3. /\ worker' \in [Consumers -> Loop]
      /\ \A d \in Consumers \ {c} : worker'[d] = worker[d]
      /\ worker'[c].todo = worker[c].todo \ {m}
      /\ worker'[c].acked = worker[c].acked \cup {m}
      /\ worker'[c].stage = worker[c].stage
  BY <1>2 DEF Handle, TypeOK, Loop
<1>4. m \in (1..last) \ Malformed /\ worker[c].stage = "handling"
  BY <1>1 DEF BatchesSound
<1>5. TypeOK'
  BY <1>1, <1>3, <1>4 DEF TypeOK
<1>6. PendingDelivered' /\ HandledParsed' /\ KeptUntilHandled'
  BY <1>1, <1>4 DEF PendingDelivered, HandledParsed, KeptUntilHandled
<1>7. BatchesSound'
  BY <1>1, <1>3, <1>4 DEF BatchesSound
<1>8. OwnersAtWork'
  BY <1>1, <1>3 DEF OwnersAtWork
<1> QED BY <1>5, <1>6, <1>7, <1>8

\* A failure is counted.
LEMMA FaultCounted ==
  ASSUME TypeOK, Fault
  PROVE  faults' \in 0..MaxFaults /\ faults' # 0 /\ stops' = stops
BY QueueAssumption DEF TypeOK, Fault

LEMMA HandleFailsKeeps ==
  ASSUME QueueInv, NEW c \in Consumers, NEW m \in Jobs, HandleFails(c, m)
  PROVE  QueueInv'
<1> USE DEF QueueInv, stream, pel
<1>1. /\ m \in worker[c].todo /\ Fault
      /\ UNCHANGED <<added, trimmed, group, last, owner, idle, handled>>
  BY DEF HandleFails
<1>2. worker[c] \in Loop
  BY DEF TypeOK
<1>3. /\ worker' \in [Consumers -> Loop]
      /\ \A d \in Consumers \ {c} : worker'[d] = worker[d]
      /\ worker'[c].todo = worker[c].todo \ {m}
      /\ worker'[c].acked = worker[c].acked
      /\ worker'[c].stage = worker[c].stage
  BY <1>2 DEF HandleFails, AckedAfterError, TypeOK, Loop
<1>4. faults' \in 0..MaxFaults /\ faults' # 0 /\ stops' = stops
  BY <1>1, FaultCounted
<1>5. TypeOK'
  BY <1>1, <1>3, <1>4 DEF TypeOK
<1>6. PendingDelivered' /\ HandledParsed' /\ KeptUntilHandled'
  BY <1>1 DEF PendingDelivered, HandledParsed, KeptUntilHandled
<1>7. BatchesSound'
  BY <1>1, <1>3 DEF BatchesSound
<1>8. OwnersAtWork'
  BY <1>4 DEF OwnersAtWork
<1> QED BY <1>5, <1>6, <1>7, <1>8

\* Where a loop goes after its batch, or after a failure, it has nothing in hand.
LEMMA LoopGoesOn ==
  ASSUME TypeOK, NEW c \in Consumers, NEW next \in Stage \ {"handling", "dead"},
         worker[c].todo = {},
         worker' = [worker EXCEPT ![c].stage = next, ![c].acked = {}]
  PROVE  /\ worker' \in [Consumers -> Loop]
         /\ \A d \in Consumers \ {c} : worker'[d] = worker[d]
         /\ worker'[c].todo = {} /\ worker'[c].acked = {}
         /\ worker'[c].stage = next
<1>1. worker[c] \in Loop /\ worker \in [Consumers -> Loop]
  BY DEF TypeOK
<1>2. worker' = [worker EXCEPT ![c] = [worker[c] EXCEPT !.stage = next, !.acked = {}]]
  BY <1>1
<1>3. worker'[c] = [worker[c] EXCEPT !.stage = next, !.acked = {}]
  BY <1>1, <1>2
<1>4. worker'[c] \in Loop
  BY <1>1, <1>3 DEF Loop
<1>5. /\ worker'[c].todo = worker[c].todo /\ worker'[c].acked = {}
      /\ worker'[c].stage = next
  BY <1>1, <1>3 DEF Loop
<1> QED BY <1>1, <1>2, <1>3, <1>4, <1>5

\* An acknowledgement takes jobs that were handled off the pending list, and no other.
LEMMA AckKeepsPending ==
  ASSUME QueueInv, NEW c \in Consumers, Acknowledged(ToAck(c))
  PROVE  /\ owner' \in [Jobs -> Consumers \cup {NoConsumer}]
         /\ idle' \in SUBSET {m \in Jobs : owner'[m] # NoConsumer}
         /\ \A m \in Jobs : owner'[m] # NoConsumer => owner[m] # NoConsumer
         /\ \A m \in Jobs : owner'[m] = owner[m] \/ m \in handled
         /\ \A m \in Jobs, d \in Consumers : owner'[m] = d => owner[m] = d
         /\ \A m \in Jobs : owner'[m] = c => m \notin worker[c].acked
<1>1. /\ owner \in [Jobs -> Consumers \cup {NoConsumer}]
      /\ idle \in SUBSET {m \in Jobs : owner[m] # NoConsumer}
      /\ NoConsumer \notin Consumers
  BY QueueAssumption DEF QueueInv, TypeOK
<1>2. \A m \in Jobs : owner'[m] = IF m \in worker[c].acked THEN NoConsumer ELSE owner[m]
  BY DEF Acknowledged, ToAck
<1>3. worker[c].acked \subseteq handled
  BY DEF QueueInv, BatchesSound
<1>4. owner' \in [Jobs -> Consumers \cup {NoConsumer}]
  BY <1>1 DEF Acknowledged
<1>5. idle' \in SUBSET {m \in Jobs : owner'[m] # NoConsumer}
  BY <1>1, <1>2 DEF Acknowledged, ToAck
<1> QED BY <1>1, <1>2, <1>3, <1>4, <1>5

\* A worker acknowledges what it has handled, and whatever else it owned it had already
\* given up: with nothing failed, it owned nothing else.
LEMMA AckKeeps ==
  ASSUME QueueInv, NEW c \in Consumers, Ack(c)
  PROVE  QueueInv'
<1> USE DEF QueueInv, stream, bounds
<1>1. /\ worker[c].stage = "handling" /\ worker[c].todo = {}
      /\ Acknowledged(ToAck(c))
      /\ UNCHANGED <<added, trimmed, group, last, handled, faults, stops>>
  BY DEF Ack
<1>2. /\ owner' \in [Jobs -> Consumers \cup {NoConsumer}]
      /\ idle' \in SUBSET {m \in Jobs : owner'[m] # NoConsumer}
      /\ \A m \in Jobs : owner'[m] # NoConsumer => owner[m] # NoConsumer
      /\ \A m \in Jobs : owner'[m] = owner[m] \/ m \in handled
      /\ \A m \in Jobs, d \in Consumers : owner'[m] = d => owner[m] = d
      /\ \A m \in Jobs : owner'[m] = c => m \notin worker[c].acked
  BY <1>1, AckKeepsPending
<1>3. After(c, worker[c].from) \in Stage \ {"handling", "dead"}
  BY DEF After, Stage
<1>4. /\ worker' \in [Consumers -> Loop]
      /\ \A d \in Consumers \ {c} : worker'[d] = worker[d]
      /\ worker'[c].todo = {} /\ worker'[c].acked = {}
      /\ worker'[c].stage = After(c, worker[c].from)
  BY <1>1, <1>3, LoopGoesOn DEF Ack
<1>5. TypeOK'
  BY <1>1, <1>2, <1>4 DEF TypeOK
<1>6. PendingDelivered' /\ HandledParsed'
  BY <1>1, <1>2 DEF PendingDelivered, HandledParsed
<1>7. BatchesSound'
  BY <1>1, <1>4 DEF BatchesSound
<1>8. KeptUntilHandled'
  <2>1. \A m \in (trimmed + 1)..last : m \in Jobs
    BY QueueAssumption DEF TypeOK, Jobs
  <2> QED BY <1>1, <1>2, <2>1 DEF KeptUntilHandled
<1>9. OwnersAtWork'
  BY <1>1, <1>2, <1>4 DEF OwnersAtWork
<1> QED BY <1>5, <1>6, <1>7, <1>8, <1>9

\* A command that fails may have had its effect or none; a job it delivered or reclaimed
\* stays pending, a job it acknowledged was handled.
LEMMA CommandFailsKeeps ==
  ASSUME QueueInv, NEW c \in Consumers, CommandFails(c)
  PROVE  QueueInv'
<1> USE DEF QueueInv, stream
<1>1. /\ Fault /\ UNCHANGED <<added, trimmed, group, handled>>
      /\ worker[c].stage \in {"reclaiming", "reading", "handling"}
      /\ worker[c].todo = {}
  BY DEF CommandFails, BatchesSound
<1>2. faults' \in 0..MaxFaults /\ faults' # 0 /\ stops' = stops
  BY <1>1, FaultCounted
<1>3. "backoff" \in Stage \ {"handling", "dead"}
  BY DEF Stage
<1>4. /\ worker' \in [Consumers -> Loop]
      /\ \A d \in Consumers \ {c} : worker'[d] = worker[d]
      /\ worker'[c].todo = {} /\ worker'[c].acked = {}
      /\ worker'[c].stage = "backoff"
  <2>1. worker' = [worker EXCEPT ![c].stage = "backoff", ![c].acked = {}]
    BY DEF CommandFails
  <2> QED BY <1>1, <1>3, <2>1, LoopGoesOn
<1>5. /\ last' \in 0..added /\ last <= last'
      /\ owner' \in [Jobs -> Consumers \cup {NoConsumer}]
      /\ idle' \in SUBSET {m \in Jobs : owner'[m] # NoConsumer}
      /\ \A m \in Jobs : owner'[m] # NoConsumer => m <= last'
      /\ \A m \in (trimmed + 1)..last' : owner'[m] # NoConsumer \/ m \in handled
      /\ last' # last => group
  <2>1. last \in Nat /\ \A m \in (trimmed + 1)..last : m \in Jobs /\ trimmed < m
    BY QueueAssumption DEF TypeOK, Jobs
  <2>2. CASE Claimed(c)
    BY <1>1, <2>1, <2>2, ClaimKeeps DEF TypeOK, PendingDelivered, KeptUntilHandled
  <2>3. CASE worker[c].stage = "reading" /\ ReadBatch # {} /\ Delivered(c)
    BY <1>1, <2>3, DeliveryKeeps DEF BatchesSound
  <2>4. CASE Acknowledged(ToAck(c)) /\ last' = last
    BY <1>1, <2>1, <2>4, AckKeepsPending DEF TypeOK, PendingDelivered, KeptUntilHandled
  <2>5. CASE UNCHANGED <<last, owner, idle>>
    BY <2>1, <2>5 DEF TypeOK, PendingDelivered, KeptUntilHandled
  <2> QED BY <2>2, <2>3, <2>4, <2>5 DEF CommandFails, pel
<1>6. 1..last \subseteq 1..last'
  BY <1>5, QueueAssumption DEF TypeOK
<1>7. TypeOK'
  BY <1>1, <1>2, <1>4, <1>5, <1>6 DEF TypeOK
<1>8. PendingDelivered' /\ HandledParsed' /\ KeptUntilHandled'
  BY <1>1, <1>5 DEF PendingDelivered, HandledParsed, KeptUntilHandled
<1>9. BatchesSound'
  BY <1>1, <1>4, <1>6 DEF BatchesSound
<1>10. OwnersAtWork'
  BY <1>2 DEF OwnersAtWork
<1> QED BY <1>7, <1>8, <1>9, <1>10

-----------------------------------------------------------------------------
(* The life of a loop.                                                     *)

LEMMA ResumeKeeps ==
  ASSUME QueueInv, NEW c \in Consumers, Resume(c)
  PROVE  QueueInv'
<1> USE DEF QueueInv, stream, pel, bounds
<1>1. UNCHANGED <<added, trimmed, group, last, owner, idle, handled, faults, stops>>
  BY DEF Resume
<1>2. worker[c] \in Loop /\ worker[c].stage = "backoff"
  BY DEF TypeOK, Resume
<1>3. /\ worker' \in [Consumers -> Loop]
      /\ \A d \in Consumers \ {c} : worker'[d] = worker[d]
      /\ worker'[c].todo = worker[c].todo /\ worker'[c].acked = worker[c].acked
      /\ worker'[c].stage \in {"reclaiming", "stopped"}
  BY <1>2 DEF Resume, TypeOK, Loop, Stage
<1>4. TypeOK'
  BY <1>1, <1>3 DEF TypeOK
<1>5. PendingDelivered' /\ HandledParsed' /\ KeptUntilHandled'
  BY <1>1 DEF PendingDelivered, HandledParsed, KeptUntilHandled
<1>6. BatchesSound'
  BY <1>1, <1>2, <1>3 DEF BatchesSound
<1>7. OwnersAtWork'
  BY <1>1, <1>3 DEF OwnersAtWork
<1> QED BY <1>4, <1>5, <1>6, <1>7

LEMMA StopKeeps ==
  ASSUME QueueInv, NEW c \in Consumers, Stop(c)
  PROVE  QueueInv'
<1> USE DEF QueueInv, stream, pel
<1>1. UNCHANGED <<added, trimmed, group, last, owner, idle, handled, faults>>
  BY DEF Stop
<1>2. worker[c] \in Loop
  BY DEF TypeOK
<1>3. /\ worker' \in [Consumers -> Loop]
      /\ \A d \in Consumers \ {c} : worker'[d] = worker[d]
      /\ worker'[c].todo = worker[c].todo /\ worker'[c].acked = worker[c].acked
      /\ worker'[c].stage = worker[c].stage
  BY <1>2 DEF Stop, TypeOK, Loop, Stage
<1>4. stops' \in 0..MaxStops
  BY QueueAssumption DEF TypeOK, Stop
<1>5. TypeOK'
  BY <1>1, <1>3, <1>4 DEF TypeOK
<1>6. PendingDelivered' /\ HandledParsed' /\ KeptUntilHandled'
  BY <1>1 DEF PendingDelivered, HandledParsed, KeptUntilHandled
<1>7. BatchesSound'
  BY <1>1, <1>3 DEF BatchesSound
<1>8. OwnersAtWork'
  BY <1>1, <1>3 DEF OwnersAtWork
<1> QED BY <1>5, <1>6, <1>7, <1>8

\* What a crashed worker had in hand stays pending.
LEMMA CrashKeeps ==
  ASSUME QueueInv, NEW c \in Consumers, Crash(c)
  PROVE  QueueInv'
<1> USE DEF QueueInv, stream, pel
<1>1. Fault /\ UNCHANGED <<added, trimmed, group, last, owner, idle, handled>>
  BY DEF Crash
<1>2. /\ worker' \in [Consumers -> Loop]
      /\ \A d \in Consumers \ {c} : worker'[d] = worker[d]
      /\ worker'[c].todo = {} /\ worker'[c].acked = {} /\ worker'[c].stage = "dead"
  BY DEF Crash, TypeOK, Dead, Loop, Stage
<1>3. faults' \in 0..MaxFaults /\ faults' # 0 /\ stops' = stops
  BY <1>1, FaultCounted
<1>4. TypeOK'
  BY <1>1, <1>2, <1>3 DEF TypeOK
<1>5. PendingDelivered' /\ HandledParsed' /\ KeptUntilHandled'
  BY <1>1 DEF PendingDelivered, HandledParsed, KeptUntilHandled
<1>6. BatchesSound'
  BY <1>1, <1>2 DEF BatchesSound
<1>7. OwnersAtWork'
  BY <1>3 DEF OwnersAtWork
<1> QED BY <1>4, <1>5, <1>6, <1>7

-----------------------------------------------------------------------------

LEMMA QueueStep == QueueInv /\ [Next]_vars => QueueInv'
<1> SUFFICES ASSUME QueueInv, [Next]_vars PROVE QueueInv'
  OBVIOUS
<1>1. CASE Enqueue
  BY <1>1, EnqueueKeeps
<1>2. ASSUME NEW m \in Jobs, GrowIdle(m)
      PROVE  QueueInv'
  BY <1>2, GrowIdleKeeps
<1>3. ASSUME NEW c \in Consumers, WorkerStep(c)
      PROVE  QueueInv'
  <2>1. CASE \E m \in Jobs : Handle(c, m) \/ HandleFails(c, m)
    BY <2>1, HandleKeeps, HandleFailsKeeps
  <2> QED BY <1>3, <2>1, StartKeeps, ReclaimKeeps, ReadKeeps, AckKeeps, CommandFailsKeeps,
             ResumeKeeps, StopKeeps, CrashKeeps DEF WorkerStep
<1>4. CASE UNCHANGED vars
  BY <1>4 DEF vars, QueueInv, TypeOK, PendingDelivered, BatchesSound, HandledParsed,
              KeptUntilHandled, OwnersAtWork
<1> QED BY <1>1, <1>2, <1>3, <1>4 DEF Next

LEMMA QueueInvariant == Spec => []QueueInv
BY QueueInit, QueueStep, PTL DEF Spec

\* Every variable keeps its type, whatever fails; CheckQueue.TypeOK.
THEOREM TypeCorrect == Spec => []TypeOK
<1>1. QueueInv => TypeOK
  BY DEF QueueInv
<1> QED BY <1>1, QueueInvariant, PTL

\* No delivered job leaves the pending list unhandled, and a worker that was stopped
\* while nothing failed owns nothing it has handled; CheckQueue.NoJobForgotten.
THEOREM NoJobIsForgotten == Spec => []NoJobForgotten
<1>1. ASSUME QueueInv
      PROVE  NoJobForgotten
  <2>1. ASSUME NEW c \in Consumers, NEW m \in handled,
               worker[c].stage = "stopped", faults = 0, owner[m] = c
        PROVE  FALSE
    <3>1. m \in Jobs \ Malformed
      BY <1>1, QueueAssumption DEF QueueInv, TypeOK, HandledParsed, Jobs
    <3>2. m \in worker[c].todo \cup worker[c].acked
      BY <1>1, <2>1, <3>1 DEF QueueInv, OwnersAtWork
    <3> QED BY <1>1, <2>1, <3>2 DEF QueueInv, BatchesSound
  <2> QED BY <1>1, <2>1 DEF QueueInv, KeptUntilHandled, NoJobForgotten
<1> QED BY <1>1, QueueInvariant, PTL
=============================================================================
