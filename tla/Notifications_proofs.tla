------------------------ MODULE Notifications_proofs ------------------------
(***************************************************************************)
(* What the notifier promises, for any number of processes, channels and   *)
(* events: no channel is alerted twice to an event, one process keeps its   *)
(* alerts in the order of the batches, and what no fault has hit is logged  *)
(* once for each channel it was meant for.                                 *)
(***************************************************************************)
EXTENDS Notifications, FiniteSetTheorems, TLAPS

Loop == [stage: {"down", "reading", "handling", "backoff"}, running: BOOLEAN,
         batch: SUBSET Events, todo: SUBSET Events, failed: SUBSET Events,
         sending: SUBSET Pairs, recordSent: SUBSET Pairs, recordFailed: SUBSET Pairs]

TypeOK ==
  /\ bus \in Seq(Transitions) /\ Len(bus) <= MaxEvents
  /\ trimmed \in Nat
  /\ last \in 0..Len(bus) /\ (group \/ last = 0)
  /\ pending \in SUBSET Events
  /\ notifier \in [Notifiers -> Loop]
  /\ routes \in SUBSET Channels /\ deleted \in SUBSET Channels
  /\ log \in SUBSET (Events \X Channels \X BOOLEAN)
  /\ alerts \in [Channels -> Seq(Events)]
  /\ targets \in [Events -> SUBSET Channels]
  /\ batches \in Seq(SUBSET Events)
  /\ hit \in SUBSET Events

\* The deliveries a process has begun and not finished.
Hand(n) == notifier[n].sending \cup notifier[n].recordSent \cup notifier[n].recordFailed

\* A process that runs has seen to the group; one that handles no batch has nothing in hand.  What it has in hand belongs to
\* its batch, which was read and is pending, to an event that was looked up, and to one
\* step of the delivery; and no other process has it.
BatchesApart ==
  \A n \in Notifiers :
    /\ notifier[n].stage # "down" => group
    /\ notifier[n].stage # "handling" => notifier[n].batch = {}
    /\ notifier[n].todo \subseteq notifier[n].batch
    /\ notifier[n].batch \subseteq pending
    /\ \A e \in notifier[n].batch : e <= last
    /\ \A p \in Hand(n) :
         p[1] \in notifier[n].batch \ notifier[n].todo /\ p[2] \in targets[p[1]]
    /\ notifier[n].sending \cap notifier[n].recordSent = {}
    /\ notifier[n].sending \cap notifier[n].recordFailed = {}
    /\ notifier[n].recordSent \cap notifier[n].recordFailed = {}
    /\ \A m \in Notifiers \ {n} : notifier[n].batch \cap notifier[m].batch = {}

\* An event has no channels before it is looked up.
TargetsSound ==
  \A e \in Events :
    e > last \/ (\E n \in Notifiers : e \in notifier[n].todo) => targets[e] = {}

Arrived(e, c) == \E i \in DOMAIN alerts[c] : alerts[c][i] = e

\* An alert went to a channel of its event, once, and is not about to be sent again; what
\* is about to be recorded as sent did arrive.
AlertsSound ==
  /\ \A c \in Channels : \A i \in DOMAIN alerts[c] :
       /\ c \in targets[alerts[c][i]]
       /\ \A n \in Notifiers : <<alerts[c][i], c>> \notin notifier[n].sending
  /\ \A c \in Channels : \A i, j \in DOMAIN alerts[c] : alerts[c][i] = alerts[c][j] => i = j
  /\ \A n \in Notifiers : \A p \in notifier[n].recordSent : Arrived(p[1], p[2])

\* An entry of the log is about a channel of its event that exists.
LogSound ==
  /\ \A d \in log : d[2] \notin deleted /\ d[2] \in targets[d[1]]
  /\ \A d \in log : d[3] => Arrived(d[1], d[2])

Entries(e, c) == {d \in log : d[1] = e /\ d[2] = c}

\* A delivery that no fault has hit is in hand, or else in the log, once.
DeliveriesTracked ==
  \A e \in Events \ hit : \A c \in targets[e] \ deleted :
    IF \E n \in Notifiers : <<e, c>> \in Hand(n) THEN Entries(e, c) = {}
    ELSE \E sent \in BOOLEAN : Entries(e, c) = {<<e, c, sent>>}

\* The batches of one process follow each other; its alerts are of those it has read, and
\* when one overtook another, both were in the same.
BatchesFollow ==
  /\ \A n \in Notifiers : notifier[n].batch # {} =>
       Len(batches) > 0 /\ notifier[n].batch = batches[Len(batches)]
  /\ \A k \in DOMAIN batches : \A e \in batches[k] : e <= last
  /\ \A k, l \in DOMAIN batches : k < l => \A e \in batches[k], f \in batches[l] : e < f
  /\ \A c \in Channels : \A i \in DOMAIN alerts[c] :
       \E k \in DOMAIN batches : alerts[c][i] \in batches[k]
  /\ \A c \in Channels : \A i, j \in DOMAIN alerts[c] :
       i < j /\ alerts[c][i] > alerts[c][j] =>
         \E k \in DOMAIN batches : {alerts[c][i], alerts[c][j]} \subseteq batches[k]

OneProcess == \A m, n \in Notifiers : m = n

NotifierInv ==
  /\ TypeOK
  /\ BatchesApart
  /\ TargetsSound
  /\ AlertsSound
  /\ LogSound
  /\ DeliveriesTracked
  /\ OneProcess => BatchesFollow

-----------------------------------------------------------------------------
(* The operators.                                                          *)

\* A connector that resolves has delivered.
LEMMA ResolvedArrived ==
  ASSUME NEW type \in Types, NEW outcome \in createConnector(type)
  PROVE  outcome.resolved => outcome.arrived
<1>1. PICK x \in Exchanges :
        outcome = [arrived |-> Arrives(x),
                   resolved |-> CASE type = "webhook"  -> webhookSend(x)
                                  [] type = "telegram" -> telegramSend(x)
                                  [] type = "smtp"     -> smtpSend(x)]
  BY DEF createConnector
<1>2. outcome.resolved => x = "accepted"
  BY <1>1 DEF Types, webhookSend, telegramSend, smtpSend
<1>3. outcome.arrived = Arrives(x)
  BY <1>1
<1> QED BY <1>2, <1>3 DEF Arrives

\* The group moves on to the last event of the batch, and past no event that it leaves out.
LEMMA ReadDelivers ==
  ASSUME TypeOK, ReadBatch # {}, Delivered
  PROVE  /\ last' \in 0..Len(bus) /\ last < last'
         /\ ReadBatch \in SUBSET Events
         /\ \A e \in ReadBatch : last < e /\ e <= last'
<1>1. /\ last \in Nat /\ trimmed \in Nat /\ Len(bus) \in Nat /\ Count \in Nat
      /\ Events \subseteq Nat
  BY NotificationsAssumption DEF TypeOK, Events
<1>2. ReadAfter \in Nat /\ last <= ReadAfter
  BY <1>1 DEF ReadAfter
<1> DEFINE end == IF ReadAfter + Count <= Len(bus) THEN ReadAfter + Count ELSE Len(bus)
<1>3. PICK f \in ReadBatch : TRUE
  OBVIOUS
<1>4. f \in Events /\ ReadAfter < f /\ f <= ReadAfter + Count /\ f <= Len(bus)
  BY DEF ReadBatch
<1>5. end \in ReadBatch
  <2>1. end \in Nat /\ f <= end
    BY <1>1, <1>2, <1>4
  <2>2. end \in Events
    BY <1>1, <1>4, <2>1, NotificationsAssumption DEF Events, TypeOK
  <2> QED BY <1>1, <1>2, <1>4, <2>1, <2>2 DEF ReadBatch
<1>6. \A e \in ReadBatch : e <= end
  BY <1>1, <1>2 DEF ReadBatch
<1> HIDE DEF end
<1>7. last' \in ReadBatch /\ \A e \in ReadBatch : e <= last'
  BY <1>5, <1>6 DEF Delivered
<1>8. ReadBatch \subseteq Events
  BY DEF ReadBatch
<1>9. \A e \in ReadBatch : last < e /\ e <= Len(bus)
  BY <1>1, <1>2 DEF ReadBatch
<1> QED BY <1>1, <1>7, <1>8, <1>9

\* An alert is appended to those of a channel.
LEMMA AlertAppended ==
  ASSUME TypeOK, NEW e \in Events, NEW c \in Channels,
         alerts' = [alerts EXCEPT ![c] = Append(@, e)]
  PROVE  /\ alerts' \in [Channels -> Seq(Events)]
         /\ \A d \in Channels : \A i \in DOMAIN alerts[d] :
              i \in Nat /\ i \in DOMAIN alerts'[d] /\ alerts'[d][i] = alerts[d][i]
         /\ \A d \in Channels : \A i \in DOMAIN alerts'[d] :
              \/ i \in DOMAIN alerts[d]
              \/ d = c /\ alerts'[d][i] = e /\ i \in Nat /\ \A j \in DOMAIN alerts[d] : j < i
         /\ \E i \in DOMAIN alerts'[c] : alerts'[c][i] = e
         /\ \A d \in Channels, f \in Events : Arrived(f, d) => Arrived(f, d)'
<1>1. alerts \in [Channels -> Seq(Events)]
  BY DEF TypeOK
<1>2. alerts'[c] = Append(alerts[c], e) /\ \A d \in Channels \ {c} : alerts'[d] = alerts[d]
  BY <1>1
<1>3. alerts' \in [Channels -> Seq(Events)]
  BY <1>1
<1>4. /\ DOMAIN alerts[c] = 1..Len(alerts[c]) /\ Len(alerts[c]) \in Nat
      /\ DOMAIN alerts'[c] = 1..(Len(alerts[c]) + 1)
      /\ alerts'[c][Len(alerts[c]) + 1] = e
      /\ \A i \in 1..Len(alerts[c]) : alerts'[c][i] = alerts[c][i]
  BY <1>1, <1>2
<1>5. \A d \in Channels : DOMAIN alerts[d] \subseteq Nat
  <2> TAKE d \in Channels
  <2>1. alerts[d] \in Seq(Events)
    BY <1>1
  <2>2. DOMAIN alerts[d] = 1..Len(alerts[d])
    BY <2>1
  <2> QED BY <2>2
<1>6. \A d \in Channels : \A i \in DOMAIN alerts[d] :
        i \in Nat /\ i \in DOMAIN alerts'[d] /\ alerts'[d][i] = alerts[d][i]
  BY <1>2, <1>4, <1>5
<1>7. ASSUME NEW d \in Channels, NEW i \in DOMAIN alerts'[d], i \notin DOMAIN alerts[d]
      PROVE  d = c /\ alerts'[d][i] = e /\ i \in Nat /\ \A j \in DOMAIN alerts[d] : j < i
  <2>1. d = c
    BY <1>2, <1>7
  <2>2. i = Len(alerts[c]) + 1
    BY <1>4, <1>7, <2>1
  <2> QED BY <1>4, <2>1, <2>2
<1>8. \E i \in DOMAIN alerts'[c] : alerts'[c][i] = e
  <2>1. Len(alerts[c]) + 1 \in DOMAIN alerts'[c]
    BY <1>4
  <2> QED BY <1>4, <2>1
<1>9. \A d \in Channels, f \in Events : Arrived(f, d) => Arrived(f, d)'
  BY <1>6 DEF Arrived
<1> QED BY <1>3, <1>6, <1>7, <1>8, <1>9

\* A process changes, the others do not.
LEMMA OneLoop ==
  ASSUME TypeOK, NEW n \in Notifiers, NEW loop \in Loop,
         notifier' = [notifier EXCEPT ![n] = loop]
  PROVE  /\ notifier' \in [Notifiers -> Loop] /\ notifier'[n] = loop
         /\ \A m \in Notifiers \ {n} : notifier'[m] = notifier[m] /\ Hand(m)' = Hand(m)
BY DEF TypeOK, Hand

\* What a process has in hand are pairs of an event of its batch and a channel.
LEMMA HandSound ==
  ASSUME NotifierInv, NEW n \in Notifiers, NEW p \in Hand(n)
  PROVE  /\ p = <<p[1], p[2]>> /\ p[1] \in Events /\ p[2] \in Channels
         /\ p[1] \in notifier[n].batch \ notifier[n].todo
         /\ p[2] \in targets[p[1]]
         /\ \A m \in Notifiers \ {n} : p \notin Hand(m)
<1>1. /\ notifier[n] \in Loop /\ p \in Pairs
  BY DEF NotifierInv, TypeOK, Loop, Hand
<1>2. p = <<p[1], p[2]>> /\ p[1] \in Events /\ p[2] \in Channels
  BY <1>1 DEF Pairs
<1>3. p[1] \in notifier[n].batch \ notifier[n].todo /\ p[2] \in targets[p[1]]
  BY DEF NotifierInv, BatchesApart
<1>4. ASSUME NEW m \in Notifiers \ {n}, p \in Hand(m)
      PROVE  FALSE
  BY <1>3, <1>4 DEF NotifierInv, BatchesApart
<1> QED BY <1>2, <1>3, <1>4

-----------------------------------------------------------------------------
(* The steps.                                                              *)

LEMMA NotifierInit == Init => NotifierInv
<1> SUFFICES ASSUME Init PROVE NotifierInv
  OBVIOUS
<1>1. \A n \in Notifiers : notifier[n] = Down /\ Hand(n) = {}
  BY DEF Init, Down, Hand
<1>2. Down \in Loop
  BY DEF Down, Loop
<1>3. \A c \in Channels : alerts[c] = <<>> /\ DOMAIN alerts[c] = {}
  BY DEF Init
<1>4. TypeOK
  <2>1. notifier \in [Notifiers -> Loop]
    BY <1>2 DEF Init
  <2>2. Len(bus) = 0 /\ bus \in Seq(Transitions) /\ batches \in Seq(SUBSET Events)
    BY DEF Init
  <2>3. alerts \in [Channels -> Seq(Events)]
    BY DEF Init
  <2> QED BY <2>1, <2>2, <2>3, NotificationsAssumption DEF Init, TypeOK
<1>5. BatchesApart /\ TargetsSound
  BY <1>1 DEF Init, BatchesApart, TargetsSound, Down
<1>6. AlertsSound /\ LogSound
  BY <1>1, <1>3 DEF Init, AlertsSound, LogSound, Down
<1>7. DeliveriesTracked
  BY DEF Init, DeliveriesTracked
<1>8. BatchesFollow
  <2>1. DOMAIN batches = {}
    BY DEF Init
  <2> QED BY <1>1, <1>3, <2>1 DEF BatchesFollow, Down
<1> QED BY <1>4, <1>5, <1>6, <1>7, <1>8 DEF NotifierInv

\* Processes may let go of what they have in hand, if the fault is noted: nothing else
\* depends on it.
LEMMA LettingGoKeeps ==
  ASSUME NotifierInv, TypeOK',
         UNCHANGED <<last, log, alerts, targets, deleted, batches>>, hit \subseteq hit',
         \A n \in Notifiers :
           /\ notifier'[n].sending \subseteq notifier[n].sending
           /\ notifier'[n].recordSent \subseteq notifier[n].recordSent
           /\ notifier'[n].recordFailed \subseteq notifier[n].recordFailed
           /\ notifier'[n].todo \subseteq notifier[n].todo
           /\ notifier'[n].batch \in {{}, notifier[n].batch}
           /\ notifier'[n].batch = {} => notifier'[n].todo = {} /\ Hand(n)' = {}
           /\ notifier'[n].stage # "down" => group'
           /\ notifier'[n].stage # "handling" => notifier'[n].batch = {}
           /\ notifier'[n].batch \subseteq pending'
           /\ \A p \in Hand(n) \ Hand(n)' : p[1] \in hit'
  PROVE  NotifierInv'
<1> USE DEF NotifierInv
<1>1. \A n \in Notifiers : Hand(n)' \subseteq Hand(n)
  BY DEF Hand
<1>2. BatchesApart'
  <2> SUFFICES ASSUME NEW n \in Notifiers
               PROVE  /\ notifier'[n].todo \subseteq notifier'[n].batch
                      /\ \A e \in notifier'[n].batch : e <= last
                      /\ \A p \in Hand(n)' :
                           p[1] \in notifier'[n].batch \ notifier'[n].todo /\ p[2] \in targets[p[1]]
                      /\ notifier'[n].sending \cap notifier'[n].recordSent = {}
                      /\ notifier'[n].sending \cap notifier'[n].recordFailed = {}
                      /\ notifier'[n].recordSent \cap notifier'[n].recordFailed = {}
                      /\ \A m \in Notifiers \ {n} : notifier'[n].batch \cap notifier'[m].batch = {}
    BY DEF BatchesApart
  <2>1. CASE notifier'[n].batch = {}
    BY <2>1 DEF BatchesApart
  <2>2. CASE notifier'[n].batch = notifier[n].batch
    <3>1. \A m \in Notifiers \ {n} : notifier[n].batch \cap notifier[m].batch = {}
      BY DEF BatchesApart
    <3>2. \A m \in Notifiers \ {n} : notifier'[n].batch \cap notifier'[m].batch = {}
      BY <2>2, <3>1
    <3> QED BY <1>1, <2>2, <3>2 DEF BatchesApart
  <2> QED BY <2>1, <2>2
<1>3. TargetsSound'
  BY DEF TargetsSound
<1>4. AlertsSound'
  BY DEF AlertsSound, Arrived
<1>5. LogSound'
  BY DEF LogSound, Arrived
<1>6. DeliveriesTracked'
  <2> SUFFICES ASSUME NEW e \in Events \ hit', NEW c \in targets[e] \ deleted
               PROVE  IF \E n \in Notifiers : <<e, c>> \in Hand(n)' THEN Entries(e, c)' = {}
                      ELSE \E sent \in BOOLEAN : Entries(e, c)' = {<<e, c, sent>>}
    BY DEF DeliveriesTracked
  <2>1. \A n \in Notifiers : <<e, c>> \in Hand(n)' <=> <<e, c>> \in Hand(n)
    BY <1>1
  <2>2. Entries(e, c)' = Entries(e, c)
    BY DEF Entries
  <2> QED BY <2>1, <2>2 DEF DeliveriesTracked
<1>7. OneProcess => BatchesFollow'
  BY DEF BatchesFollow
<1> QED BY <1>2, <1>3, <1>4, <1>5, <1>6, <1>7 DEF OneProcess

\* A deleted channel takes its entries with it, and no others.
LEMMA DeleteChannelKeeps ==
  ASSUME NotifierInv, NEW c \in Channels, DeleteChannel(c)
  PROVE  NotifierInv'
<1> USE DEF NotifierInv
<1>0. /\ UNCHANGED <<bus, trimmed, group, last, pending, notifier, alerts, targets, batches, hit>>
      /\ deleted' = deleted \cup {c} /\ routes' = routes \ {c} /\ log' = {d \in log : d[2] # c}
  BY DEF DeleteChannel, stream, pel, past
<1> USE <1>0
<1>1. TypeOK'
  BY DEF TypeOK
<1>2. BatchesApart' /\ TargetsSound'
  BY DEF BatchesApart, Hand, TargetsSound
<1>5. AlertsSound'
  BY DEF AlertsSound, Arrived
<1>6. OneProcess => BatchesFollow'
  BY DEF BatchesFollow
<1>3. LogSound'
  BY DEF LogSound, Arrived
<1>4. DeliveriesTracked'
  <2> SUFFICES ASSUME NEW e \in Events \ hit, NEW d \in targets[e] \ deleted'
               PROVE  IF \E n \in Notifiers : <<e, d>> \in Hand(n) THEN Entries(e, d)' = {}
                      ELSE \E sent \in BOOLEAN : Entries(e, d)' = {<<e, d, sent>>}
    BY DEF DeliveriesTracked, Hand
  <2>1. Entries(e, d)' = Entries(e, d)
    BY DEF Entries
  <2> QED BY <2>1 DEF DeliveriesTracked
<1> QED BY <1>1, <1>2, <1>3, <1>4, <1>5, <1>6 DEF OneProcess

\* A batch is delivered to a process, or lost on the way: what it holds comes after all
\* that was read before.
LEMMA DeliveryKeeps ==
  ASSUME NotifierInv, NEW n \in Notifiers, NEW loop \in Loop,
         ReadBatch # {}, Delivered, notifier[n].stage = "reading",
         notifier' = [notifier EXCEPT ![n] = loop],
         loop.batch \in {{}, ReadBatch}, loop.todo = loop.batch,
         loop.sending = {}, loop.recordSent = {}, loop.recordFailed = {},
         loop.stage # "handling" => loop.batch = {},
         batches' = Append(batches, ReadBatch), hit' \in SUBSET Events, hit \subseteq hit',
         UNCHANGED <<bus, trimmed, routes, deleted, log, alerts, targets>>
  PROVE  NotifierInv'
<1> USE DEF NotifierInv
<1>1. /\ last' \in 0..Len(bus) /\ last < last'
      /\ ReadBatch \in SUBSET Events
      /\ \A e \in ReadBatch : last < e /\ e <= last'
  BY ReadDelivers
<1>2. last \in Nat /\ last' \in Nat /\ Events \subseteq Nat
  BY <1>1, NotificationsAssumption DEF TypeOK, Events
<1>3. /\ notifier' \in [Notifiers -> Loop] /\ notifier'[n] = loop
      /\ \A m \in Notifiers \ {n} : notifier'[m] = notifier[m] /\ Hand(m)' = Hand(m)
  BY OneLoop
<1>4. notifier[n].batch = {} /\ Hand(n) = {} /\ Hand(n)' = {}
  BY <1>3 DEF BatchesApart, Hand
<1>5. /\ batches \in Seq(SUBSET Events) /\ batches' \in Seq(SUBSET Events)
      /\ Len(batches) \in Nat /\ Len(batches') = Len(batches) + 1
      /\ DOMAIN batches = 1..Len(batches) /\ DOMAIN batches' = 1..Len(batches')
      /\ batches'[Len(batches')] = ReadBatch
      /\ \A k \in DOMAIN batches : batches'[k] = batches[k]
  BY <1>1 DEF TypeOK
<1>6. group /\ group' = group
  BY DEF BatchesApart, Delivered
<1>7. TypeOK'
  <2>1. pending' \in SUBSET Events
    BY <1>1 DEF TypeOK, Delivered
  <2> QED BY <1>1, <1>3, <1>5, <1>6, <2>1 DEF TypeOK
<1>8. BatchesApart'
  <2>1. ASSUME NEW m \in Notifiers \ {n}
        PROVE  \A e \in notifier[m].batch : e <= last /\ e \in Nat
    BY <1>2 DEF BatchesApart, TypeOK, Loop
  <2>2. \A m \in Notifiers \ {n} : notifier[m].batch \cap ReadBatch = {}
    BY <1>1, <1>2, <2>1
  <2>3. /\ loop.todo \subseteq loop.batch /\ loop.batch \subseteq pending'
        /\ \A e \in loop.batch : e <= last'
        /\ \A m \in Notifiers \ {n} : loop.batch \cap notifier[m].batch = {}
    BY <1>1, <2>2 DEF Delivered
  <2>4. ASSUME NEW m \in Notifiers \ {n}
        PROVE  /\ notifier[m].batch \subseteq pending'
               /\ \A e \in notifier[m].batch : e <= last'
               /\ \A k \in Notifiers \ {m} : notifier'[m].batch \cap notifier'[k].batch = {}
    <3>1. notifier[m].batch \subseteq pending'
      BY DEF BatchesApart, Delivered
    <3>2. \A e \in notifier[m].batch : e <= last'
      BY <1>1, <1>2, <2>1
    <3> QED BY <1>3, <2>3, <3>1, <3>2 DEF BatchesApart
  <2> QED BY <1>3, <1>4, <1>6, <2>3, <2>4 DEF BatchesApart
<1>9. TargetsSound'
  BY <1>1, <1>2, <1>3 DEF TargetsSound
<1>10. AlertsSound' /\ LogSound'
  BY <1>3 DEF AlertsSound, LogSound, Arrived
<1>11. DeliveriesTracked'
  <2> SUFFICES ASSUME NEW e \in Events \ hit', NEW c \in targets[e] \ deleted
               PROVE  IF \E m \in Notifiers : <<e, c>> \in Hand(m)' THEN Entries(e, c)' = {}
                      ELSE \E sent \in BOOLEAN : Entries(e, c)' = {<<e, c, sent>>}
    BY DEF DeliveriesTracked
  <2>1. \A m \in Notifiers : Hand(m)' = Hand(m)
    BY <1>3, <1>4
  <2>2. Entries(e, c)' = Entries(e, c)
    BY DEF Entries
  <2> QED BY <2>1, <2>2 DEF DeliveriesTracked
<1>12. ASSUME OneProcess
       PROVE  BatchesFollow'
  <2>0. BatchesFollow /\ alerts' = alerts
    BY <1>12
  <2>1. DOMAIN batches \subseteq DOMAIN batches'
    BY <1>5
  <2>2. \A k \in DOMAIN batches' : k \in DOMAIN batches \/ k = Len(batches')
    BY <1>5
  <2>3. ASSUME NEW k \in DOMAIN batches, NEW e \in batches[k]
        PROVE  e <= last /\ e \in Nat
    <3>1. batches[k] \in SUBSET Events
      BY <1>5
    <3>2. e <= last
      BY <2>0 DEF BatchesFollow
    <3> QED BY <1>2, <3>1, <3>2
  <2>4. ASSUME NEW k \in DOMAIN batches', NEW e \in batches'[k]
        PROVE  e <= last'
    <3>1. CASE k \in DOMAIN batches
      BY <1>1, <1>2, <1>5, <2>3, <3>1
    <3>2. CASE k = Len(batches')
      BY <1>1, <1>5, <3>2
    <3> QED BY <2>2, <3>1, <3>2
  <2>5. ASSUME NEW k \in DOMAIN batches', NEW l \in DOMAIN batches', k < l,
               NEW e \in batches'[k], NEW f \in batches'[l]
        PROVE  e < f
    <3>1. k \in DOMAIN batches
      BY <1>5, <2>5
    <3>2. CASE l \in DOMAIN batches
      BY <1>5, <2>0, <2>5, <3>1, <3>2 DEF BatchesFollow
    <3>3. CASE l = Len(batches')
      <4>1. e <= last /\ e \in Nat
        BY <1>5, <2>3, <2>5, <3>1
      <4>2. last < f /\ f \in Nat
        BY <1>1, <1>2, <1>5, <2>5, <3>3
      <4> QED BY <1>2, <4>1, <4>2
    <3> QED BY <2>2, <3>2, <3>3
  <2>6. \A m \in Notifiers : notifier'[m].batch # {} =>
          Len(batches') > 0 /\ notifier'[m].batch = batches'[Len(batches')]
    BY <1>3, <1>5, <1>12 DEF OneProcess
  <2>7. \A c \in Channels : \A i \in DOMAIN alerts[c] :
          \E k \in DOMAIN batches' : alerts[c][i] \in batches'[k]
    BY <1>5, <2>0, <2>1 DEF BatchesFollow
  <2>8. \A c \in Channels : \A i, j \in DOMAIN alerts[c] :
          i < j /\ alerts[c][i] > alerts[c][j] =>
            \E k \in DOMAIN batches' : {alerts[c][i], alerts[c][j]} \subseteq batches'[k]
    BY <1>5, <2>0, <2>1 DEF BatchesFollow
  <2> QED BY <2>0, <2>4, <2>5, <2>6, <2>7, <2>8 DEF BatchesFollow
<1> QED BY <1>7, <1>8, <1>9, <1>10, <1>11, <1>12 DEF OneProcess

\* An event is looked up once, before anything was done about it.
LEMMA LookupKeeps ==
  ASSUME NotifierInv, NEW n \in Notifiers, NEW e \in Events, Lookup(n, e)
  PROVE  NotifierInv'
<1> USE DEF NotifierInv, stream, pel, api, bounds
<1> DEFINE found == {<<e, c>> : c \in ChannelsFor(e)}
           loop == [notifier[n] EXCEPT !.todo = @ \ {e}, !.sending = @ \cup found]
<1>1. /\ e \in notifier[n].todo /\ targets' = [targets EXCEPT ![e] = ChannelsFor(e)]
      /\ UNCHANGED <<bus, trimmed, group, last, pending, routes, deleted, log, alerts, batches, hit>>
  BY DEF Lookup
<1>2. ChannelsFor(e) \in SUBSET Channels
  BY DEF ChannelsFor, TypeOK
<1>3. notifier[n] \in Loop /\ found \in SUBSET Pairs
  BY <1>2 DEF TypeOK, Pairs
<1>4. loop \in Loop
  BY <1>3 DEF Loop
<1>5. notifier' = [notifier EXCEPT ![n] = loop]
  BY DEF Lookup, TypeOK
<1>6. /\ loop.stage = notifier[n].stage /\ loop.batch = notifier[n].batch
      /\ loop.todo = notifier[n].todo \ {e}
      /\ loop.sending = notifier[n].sending \cup found
      /\ loop.recordSent = notifier[n].recordSent /\ loop.recordFailed = notifier[n].recordFailed
  BY <1>3 DEF Loop
<1> HIDE DEF loop
<1>7. /\ notifier' \in [Notifiers -> Loop] /\ notifier'[n] = loop
      /\ \A m \in Notifiers \ {n} : notifier'[m] = notifier[m] /\ Hand(m)' = Hand(m)
  BY <1>4, <1>5, OneLoop
<1>8. /\ targets' \in [Events -> SUBSET Channels] /\ targets'[e] = ChannelsFor(e)
      /\ \A f \in Events \ {e} : targets'[f] = targets[f]
      /\ targets[e] = {}
  BY <1>1, <1>2 DEF TypeOK, TargetsSound
<1>9. /\ Hand(n)' = Hand(n) \cup found
      /\ \A p \in found : p[1] = e /\ p[2] \in targets'[e]
      /\ \A m \in Notifiers : \A p \in Hand(m) : p[1] # e
  <2>1. Hand(n)' = Hand(n) \cup found
    BY <1>6, <1>7 DEF Hand
  <2>2. \A m \in Notifiers : \A p \in Hand(m) : p[1] # e
    BY <1>8 DEF BatchesApart
  <2> QED BY <1>8, <2>1, <2>2
<1> HIDE DEF found
<1>10. \A m \in Notifiers : \A p \in Hand(m) : p[1] \in Events \ {e}
  BY <1>9, HandSound
<1>11. TypeOK'
  BY <1>1, <1>7, <1>8 DEF TypeOK
<1>12. BatchesApart'
  <2>1. ASSUME NEW p \in Hand(n)'
        PROVE  p[1] \in loop.batch \ loop.todo /\ p[2] \in targets'[p[1]]
    <3>1. CASE p \in found
      BY <1>1, <1>6, <1>9, <3>1 DEF BatchesApart
    <3>2. CASE p \in Hand(n)
      BY <1>6, <1>8, <1>10, <3>2 DEF BatchesApart
    <3> QED BY <1>9, <3>1, <3>2
  <2>2. loop.sending \cap loop.recordSent = {} /\ loop.sending \cap loop.recordFailed = {}
    BY <1>6, <1>9 DEF BatchesApart, Hand
  <2>3. ASSUME NEW m \in Notifiers \ {n}, NEW p \in Hand(m)'
        PROVE  p[2] \in targets'[p[1]]
    BY <1>7, <1>8, <1>10, <2>3 DEF BatchesApart
  <2> QED BY <1>1, <1>6, <1>7, <2>1, <2>2, <2>3 DEF BatchesApart
<1>13. TargetsSound'
  <2>0. e \in notifier[n].batch
    BY <1>1 DEF BatchesApart
  <2>1. e <= last /\ last \in Nat /\ e \in Nat
    BY <2>0, NotificationsAssumption DEF BatchesApart, TypeOK, Events
  <2>2. \A m \in Notifiers : e \notin notifier'[m].todo
    BY <1>1, <1>6, <1>7 DEF BatchesApart
  <2>3. \A m \in Notifiers : notifier'[m].todo \subseteq notifier[m].todo
    BY <1>6, <1>7
  <2> QED BY <1>1, <1>8, <2>1, <2>2, <2>3 DEF TargetsSound
<1>14. \A c \in Channels : \A i \in DOMAIN alerts[c] : alerts[c][i] \in Events \ {e}
  <2> TAKE c \in Channels
  <2> TAKE i \in DOMAIN alerts[c]
  <2>1. alerts[c] \in Seq(Events)
    BY DEF TypeOK
  <2>2. alerts[c][i] \in Events
    BY <2>1
  <2> QED BY <1>8, <2>2 DEF AlertsSound
<1>15. AlertsSound'
  <2>1. ASSUME NEW c \in Channels, NEW i \in DOMAIN alerts[c]
        PROVE  /\ c \in targets'[alerts[c][i]]
               /\ \A m \in Notifiers : <<alerts[c][i], c>> \notin notifier'[m].sending
    <3>1. alerts[c][i] \in Events \ {e}
      BY <1>14
    <3>2. c \in targets'[alerts[c][i]]
      BY <1>8, <3>1 DEF AlertsSound
    <3>3. <<alerts[c][i], c>> \notin found
      BY <1>9, <3>1
    <3> QED BY <1>6, <1>7, <3>2, <3>3 DEF AlertsSound
  <2>2. \A m \in Notifiers : notifier'[m].recordSent = notifier[m].recordSent
    BY <1>6, <1>7
  <2> QED BY <1>1, <2>1, <2>2 DEF AlertsSound, Arrived
<1>16. \A d \in log : d[1] \in Events \ {e}
  BY <1>8 DEF LogSound, TypeOK
<1>17. LogSound'
  BY <1>1, <1>8, <1>16 DEF LogSound, Arrived
<1>18. DeliveriesTracked'
  <2> SUFFICES ASSUME NEW f \in Events \ hit, NEW c \in targets'[f] \ deleted
               PROVE  IF \E m \in Notifiers : <<f, c>> \in Hand(m)' THEN Entries(f, c)' = {}
                      ELSE \E sent \in BOOLEAN : Entries(f, c)' = {<<f, c, sent>>}
    BY <1>1 DEF DeliveriesTracked
  <2>1. Entries(f, c)' = Entries(f, c)
    BY <1>1 DEF Entries
  <2>2. CASE f = e
    <3>1. <<f, c>> \in Hand(n)'
      BY <1>8, <1>9, <2>2 DEF found
    <3>2. Entries(f, c) = {}
      BY <1>16, <2>2 DEF Entries
    <3> QED BY <2>1, <3>1, <3>2
  <2>3. CASE f # e
    <3>1. \A m \in Notifiers : <<f, c>> \in Hand(m)' <=> <<f, c>> \in Hand(m)
      BY <1>7, <1>9, <2>3
    <3>2. c \in targets[f] \ deleted
      BY <1>8, <2>3
    <3> QED BY <2>1, <3>1, <3>2 DEF DeliveriesTracked
  <2> QED BY <2>2, <2>3
<1>19. OneProcess => BatchesFollow'
  BY <1>1, <1>6, <1>7 DEF BatchesFollow
<1> QED BY <1>11, <1>12, <1>13, <1>15, <1>17, <1>18, <1>19 DEF OneProcess

\* A send ends: what it delivered arrives after all that arrived before, and is not sent
\* again.
LEMMA SendKeeps ==
  ASSUME NotifierInv, NEW n \in Notifiers, NEW p \in Pairs, NEW outcome, Send(n, p, outcome)
  PROVE  NotifierInv'
<1> USE DEF NotifierInv
<1> DEFINE e == p[1]
           c == p[2]
           loop == [notifier[n] EXCEPT
                      !.sending = @ \ {p},
                      !.recordSent = IF outcome.resolved THEN @ \cup {p} ELSE @,
                      !.recordFailed = IF outcome.resolved THEN @ ELSE @ \cup {p}]
<1>1. /\ p \in notifier[n].sending /\ p \in Hand(n) /\ p = <<e, c>>
      /\ e \in Events /\ c \in Channels /\ c \in targets[e]
      /\ UNCHANGED <<bus, trimmed, group, last, pending, routes, deleted, log, targets, batches, hit>>
  BY HandSound DEF Send, Hand, stream, pel, api, bounds
<1>2. outcome.resolved => outcome.arrived
  BY <1>1, ResolvedArrived, NotificationsAssumption DEF Send
<1>3. notifier[n] \in Loop
  BY DEF TypeOK
<1>4. loop \in Loop
  BY <1>3 DEF Loop
<1>5. notifier' = [notifier EXCEPT ![n] = loop]
  BY DEF Send, TypeOK
<1>6. /\ loop.stage = notifier[n].stage /\ loop.batch = notifier[n].batch
      /\ loop.todo = notifier[n].todo
      /\ loop.sending = notifier[n].sending \ {p}
      /\ loop.recordSent = IF outcome.resolved THEN notifier[n].recordSent \cup {p}
                           ELSE notifier[n].recordSent
      /\ loop.recordFailed = IF outcome.resolved THEN notifier[n].recordFailed
                             ELSE notifier[n].recordFailed \cup {p}
  BY <1>3 DEF Loop
<1>7. alerts' = IF outcome.arrived THEN [alerts EXCEPT ![c] = Append(@, e)] ELSE alerts
  BY DEF Send
<1> HIDE DEF loop, e, c
<1>8. /\ notifier' \in [Notifiers -> Loop] /\ notifier'[n] = loop
      /\ \A m \in Notifiers \ {n} : notifier'[m] = notifier[m] /\ Hand(m)' = Hand(m)
  BY <1>4, <1>5, OneLoop
<1>9. Hand(n)' = Hand(n)
  BY <1>1, <1>6, <1>8 DEF Hand
<1>10. \A m \in Notifiers : p \notin notifier'[m].sending /\ notifier'[m].sending \subseteq notifier[m].sending
  BY <1>1, <1>6, <1>8, HandSound DEF Hand
<1>11. /\ alerts' \in [Channels -> Seq(Events)]
       /\ \A d \in Channels : \A i \in DOMAIN alerts[d] :
            i \in Nat /\ i \in DOMAIN alerts'[d] /\ alerts'[d][i] = alerts[d][i]
       /\ \A d \in Channels : \A i \in DOMAIN alerts'[d] :
            \/ i \in DOMAIN alerts[d]
            \/ d = c /\ alerts'[d][i] = e /\ i \in Nat /\ \A j \in DOMAIN alerts[d] : j < i
       /\ outcome.arrived => \E i \in DOMAIN alerts'[c] : alerts'[c][i] = e
       /\ \A d \in Channels, f \in Events : Arrived(f, d) => Arrived(f, d)'
  <2>1. CASE outcome.arrived
    BY <1>1, <1>7, <2>1, AlertAppended
  <2>2. CASE ~outcome.arrived
    <3>1. alerts' = alerts
      BY <1>7, <2>2
    <3>2. ASSUME NEW d \in Channels
          PROVE  DOMAIN alerts[d] \subseteq Nat
      <4>1. alerts[d] \in Seq(Events)
        BY DEF TypeOK
      <4>2. DOMAIN alerts[d] = 1..Len(alerts[d])
        BY <4>1
      <4> QED BY <4>2
    <3> QED BY <2>2, <3>1, <3>2 DEF TypeOK, Arrived
  <2> QED BY <2>1, <2>2
<1>12. TypeOK'
  BY <1>1, <1>8, <1>11 DEF TypeOK
<1>13. BatchesApart'
  <2>1. /\ loop.sending \cap loop.recordSent = {} /\ loop.sending \cap loop.recordFailed = {}
        /\ loop.recordSent \cap loop.recordFailed = {}
    BY <1>1, <1>6 DEF BatchesApart
  <2> QED BY <1>1, <1>6, <1>8, <1>9, <2>1 DEF BatchesApart
<1>14. TargetsSound'
  BY <1>1, <1>6, <1>8 DEF TargetsSound
<1>15. AlertsSound'
  <2>1. ASSUME NEW d \in Channels, NEW i \in DOMAIN alerts'[d]
        PROVE  /\ d \in targets[alerts'[d][i]]
               /\ \A m \in Notifiers : <<alerts'[d][i], d>> \notin notifier'[m].sending
    <3>1. CASE i \in DOMAIN alerts[d]
      <4>1. alerts'[d][i] = alerts[d][i]
        BY <1>11, <3>1
      <4>2. /\ d \in targets[alerts[d][i]]
            /\ \A m \in Notifiers : <<alerts[d][i], d>> \notin notifier[m].sending
        BY <3>1 DEF AlertsSound
      <4> QED BY <1>10, <4>1, <4>2
    <3>2. CASE d = c /\ alerts'[d][i] = e
      BY <1>1, <1>10, <3>2
    <3> QED BY <1>11, <3>1, <3>2
  <2>2. ASSUME NEW d \in Channels, NEW i \in DOMAIN alerts[d], d = c
        PROVE  alerts[d][i] # e
    BY <1>1, <2>2 DEF AlertsSound
  <2>3. ASSUME NEW d \in Channels, NEW i \in DOMAIN alerts'[d], NEW j \in DOMAIN alerts'[d],
               alerts'[d][i] = alerts'[d][j]
        PROVE  i = j
    <3>1. CASE i \in DOMAIN alerts[d] /\ j \in DOMAIN alerts[d]
      BY <1>11, <2>3, <3>1 DEF AlertsSound
    <3>2. CASE i \in DOMAIN alerts[d] /\ j \notin DOMAIN alerts[d]
      BY <1>11, <2>2, <2>3, <3>2
    <3>3. CASE i \notin DOMAIN alerts[d] /\ j \in DOMAIN alerts[d]
      BY <1>11, <2>2, <2>3, <3>3
    <3>4. CASE i \notin DOMAIN alerts[d] /\ j \notin DOMAIN alerts[d]
      <4>1. d = c /\ outcome.arrived
        BY <1>7, <1>11, <3>4
      <4>2. alerts[c] \in Seq(Events) /\ alerts'[c] = Append(alerts[c], e)
        BY <1>1, <1>7, <4>1 DEF TypeOK
      <4>3. i = Len(alerts[c]) + 1 /\ j = Len(alerts[c]) + 1
        BY <1>1, <3>4, <4>1, <4>2
      <4> QED BY <4>3
    <3> QED BY <3>1, <3>2, <3>3, <3>4
  <2>4. ASSUME NEW m \in Notifiers, NEW q \in notifier'[m].recordSent
        PROVE  Arrived(q[1], q[2])'
    <3>1. CASE q \in notifier[m].recordSent
      <4>1. q \in Hand(m) /\ Arrived(q[1], q[2])
        BY <3>1 DEF Hand, AlertsSound
      <4>2. q[1] \in Events /\ q[2] \in Channels
        BY <4>1, HandSound
      <4> QED BY <1>11, <4>1, <4>2
    <3>2. CASE q \notin notifier[m].recordSent
      <4>1. m = n /\ q = p /\ outcome.resolved
        BY <1>6, <1>8, <2>4, <3>2
      <4> QED BY <1>2, <1>11, <4>1 DEF Arrived, e, c
    <3> QED BY <3>1, <3>2
  <2> QED BY <1>1, <2>1, <2>3, <2>4 DEF AlertsSound
<1>16. LogSound'
  <2>1. \A d \in log : d[1] \in Events /\ d[2] \in Channels
    BY DEF TypeOK
  <2> QED BY <1>1, <1>11, <2>1 DEF LogSound
<1>17. DeliveriesTracked'
  BY <1>1, <1>8, <1>9 DEF DeliveriesTracked, Entries
<1>18. ASSUME OneProcess
       PROVE  BatchesFollow'
  <2>1. BatchesFollow
    BY <1>18
  <2>2. /\ Len(batches) \in DOMAIN batches /\ e \in batches[Len(batches)]
        /\ \A k \in DOMAIN batches : k \in Nat /\ k <= Len(batches) /\ batches[k] \in SUBSET Events
    <3>1. e \in notifier[n].batch
      BY <1>1, HandSound DEF e
    <3>2. batches \in Seq(SUBSET Events)
      BY DEF TypeOK
    <3>3. Len(batches) > 0 /\ notifier[n].batch = batches[Len(batches)]
      BY <2>1, <3>1 DEF BatchesFollow
    <3> QED BY <3>1, <3>2, <3>3
  <2>3. \A m \in Notifiers : notifier'[m].batch = notifier[m].batch
    BY <1>6, <1>8
  <2>4. \A d \in Channels : \A i \in DOMAIN alerts'[d] :
          \E k \in DOMAIN batches : alerts'[d][i] \in batches[k]
    BY <1>11, <2>1, <2>2 DEF BatchesFollow
  <2>5. ASSUME NEW d \in Channels, NEW i \in DOMAIN alerts'[d], NEW j \in DOMAIN alerts'[d],
               i < j, alerts'[d][i] > alerts'[d][j]
        PROVE  \E k \in DOMAIN batches : {alerts'[d][i], alerts'[d][j]} \subseteq batches[k]
    <3>1. CASE i \in DOMAIN alerts[d] /\ j \in DOMAIN alerts[d]
      BY <1>11, <2>1, <2>5, <3>1 DEF BatchesFollow
    <3>2. CASE i \in DOMAIN alerts[d] /\ j \notin DOMAIN alerts[d]
      <4>1. d = c /\ alerts'[d][j] = e /\ alerts'[d][i] = alerts[d][i]
        BY <1>11, <3>2
      <4>2. PICK k \in DOMAIN batches : alerts[d][i] \in batches[k]
        BY <2>1, <3>2 DEF BatchesFollow
      <4>3. alerts[d][i] \in Nat /\ e \in Nat
        BY <1>1, <2>2, <4>2, NotificationsAssumption DEF Events
      <4>4. ASSUME k < Len(batches)
            PROVE  FALSE
        <5>1. alerts[d][i] < e
          BY <2>1, <2>2, <4>2, <4>4 DEF BatchesFollow
        <5> QED BY <2>5, <4>1, <4>3, <5>1
      <4>5. k = Len(batches)
        BY <2>2, <4>2, <4>4
      <4> QED BY <2>2, <4>1, <4>2, <4>5
    <3>3. CASE i \notin DOMAIN alerts[d]
      <4>1. \A k \in DOMAIN alerts[d] : k < i /\ k \in Nat /\ i \in Nat
        BY <1>11, <3>3
      <4>2. j \notin DOMAIN alerts[d]
        BY <2>5, <4>1
      <4>3. alerts'[d][i] = e /\ alerts'[d][j] = e /\ e \in Nat
        BY <1>1, <1>11, <3>3, <4>2, NotificationsAssumption DEF Events
      <4> QED BY <2>5, <4>3
    <3> QED BY <3>1, <3>2, <3>3
  <2> QED BY <1>1, <2>1, <2>3, <2>4, <2>5 DEF BatchesFollow
<1> QED BY <1>12, <1>13, <1>14, <1>15, <1>16, <1>17, <1>18 DEF OneProcess

\* The delivery of p has been recorded as sent or failed; or its record failed, or has its
\* effect although it failed, and p is to be recorded again.
LEMMA RecordKeeps ==
  ASSUME NotifierInv, NEW n \in Notifiers, NEW sent \in BOOLEAN, NEW loop \in Loop,
         NEW p \in IF sent THEN notifier[n].recordSent ELSE notifier[n].recordFailed,
         notifier' = [notifier EXCEPT ![n] = loop],
         loop.stage = notifier[n].stage, loop.batch = notifier[n].batch,
         loop.todo = notifier[n].todo, loop.sending = notifier[n].sending,
         loop.recordSent = notifier[n].recordSent \ {p},
         \/ loop.recordFailed = notifier[n].recordFailed \ {p}
         \/ loop.recordFailed = notifier[n].recordFailed \cup {p},
         log' \in {log, Logged(p, sent)}, hit' \in {hit, hit \cup {p[1]}},
         \/ p[2] \in deleted
         \/ p[1] \in hit'
         \/ log' = Logged(p, sent) /\ loop.recordFailed = notifier[n].recordFailed \ {p},
         UNCHANGED <<bus, trimmed, group, last, pending, routes, deleted, alerts, targets, batches>>
  PROVE  NotifierInv'
<1> USE DEF NotifierInv
<1>1. p \in Hand(n)
  BY DEF Hand
<1>2. /\ p = <<p[1], p[2]>> /\ p[1] \in Events /\ p[2] \in Channels
      /\ p[2] \in targets[p[1]] /\ p[1] \in notifier[n].batch \ notifier[n].todo
      /\ \A m \in Notifiers \ {n} : p \notin Hand(m)
  BY <1>1, HandSound
<1>3. /\ notifier' \in [Notifiers -> Loop] /\ notifier'[n] = loop
      /\ \A m \in Notifiers \ {n} : notifier'[m] = notifier[m] /\ Hand(m)' = Hand(m)
  BY OneLoop
<1>4. Hand(n)' \subseteq Hand(n) /\ Hand(n) \ {p} \subseteq Hand(n)'
  BY <1>1, <1>3 DEF Hand
<1>5. p \notin notifier[n].sending
  BY DEF BatchesApart
<1>6. log \subseteq log' /\ \A d \in log' \ log : d = <<p[1], p[2], sent>> /\ p[2] \notin deleted
  BY DEF Logged
<1>7. TypeOK'
  <2>1. log' \in SUBSET (Events \X Channels \X BOOLEAN)
    BY <1>2, <1>6 DEF TypeOK
  <2> QED BY <1>2, <1>3, <2>1 DEF TypeOK
<1>8. BatchesApart'
  <2>1. /\ loop.sending \cap loop.recordSent = {} /\ loop.sending \cap loop.recordFailed = {}
        /\ loop.recordSent \cap loop.recordFailed = {}
    BY <1>5 DEF BatchesApart
  <2> QED BY <1>3, <1>4, <2>1 DEF BatchesApart
<1>9. TargetsSound'
  BY <1>3 DEF TargetsSound
<1>10. AlertsSound'
  BY <1>3 DEF AlertsSound, Arrived
<1>11. LogSound'
  <2>1. sent => Arrived(p[1], p[2])
    BY DEF AlertsSound
  <2> QED BY <1>2, <1>6, <2>1 DEF LogSound, Arrived
<1>12. DeliveriesTracked'
  <2> SUFFICES ASSUME NEW e \in Events \ hit', NEW c \in targets[e] \ deleted
               PROVE  IF \E m \in Notifiers : <<e, c>> \in Hand(m)' THEN Entries(e, c)' = {}
                      ELSE \E b \in BOOLEAN : Entries(e, c)' = {<<e, c, b>>}
    BY DEF DeliveriesTracked
  <2>1. e \in Events \ hit
    OBVIOUS
  <2>2. CASE <<e, c>> # p
    <3>1. Entries(e, c)' = Entries(e, c)
      BY <1>2, <1>6, <2>2 DEF Entries
    <3>2. \A m \in Notifiers : <<e, c>> \in Hand(m)' <=> <<e, c>> \in Hand(m)
      BY <1>3, <1>4, <2>2
    <3> QED BY <2>1, <3>1, <3>2 DEF DeliveriesTracked
  <2>3. CASE <<e, c>> = p
    <3>1. p[1] = e /\ p[2] = c
      BY <2>3
    <3>2. log' = log \cup {<<e, c, sent>>} /\ loop.recordFailed = notifier[n].recordFailed \ {p}
      BY <3>1 DEF Logged
    <3>3. Entries(e, c) = {}
      BY <1>1, <2>1, <2>3 DEF DeliveriesTracked
    <3>4. Entries(e, c)' = {<<e, c, sent>>}
      BY <3>2, <3>3 DEF Entries
    <3>5. p \notin Hand(n)'
      BY <1>3, <1>5, <3>2 DEF Hand
    <3>6. \A m \in Notifiers : <<e, c>> \notin Hand(m)'
      BY <1>2, <1>3, <2>3, <3>5
    <3> QED BY <3>4, <3>6
  <2> QED BY <2>2, <2>3
<1>13. OneProcess => BatchesFollow'
  BY <1>3 DEF BatchesFollow
<1> QED BY <1>7, <1>8, <1>9, <1>10, <1>11, <1>12, <1>13 DEF OneProcess

LEMMA RecordingKeeps ==
  ASSUME NotifierInv, NEW n \in Notifiers, NEW p \in Pairs,
         RecordSent(n, p) \/ RecordSentFails(n, p) \/ RecordFailed(n, p)
  PROVE  NotifierInv'
<1> USE DEF NotifierInv, stream, pel, api, past, bounds
<1>1. notifier[n] \in Loop /\ p \in Pairs
  BY DEF TypeOK
<1>2. notifier[n].recordSent \cap notifier[n].recordFailed = {}
  BY DEF BatchesApart
<1>3. CASE RecordSent(n, p)
  <2> DEFINE loop == [notifier[n] EXCEPT !.recordSent = @ \ {p},
                        !.recordFailed = IF p[2] \in deleted THEN @ \cup {p} ELSE @]
  <2>1. /\ p \in notifier[n].recordSent /\ log' = Logged(p, TRUE) /\ hit' = hit
        /\ UNCHANGED <<bus, trimmed, group, last, pending, routes, deleted, alerts, targets, batches>>
    BY <1>3 DEF RecordSent
  <2>2. notifier' = [notifier EXCEPT ![n] = loop]
    BY <1>1, <1>3 DEF RecordSent, TypeOK
  <2>3. /\ loop \in Loop
        /\ loop.stage = notifier[n].stage /\ loop.batch = notifier[n].batch
        /\ loop.todo = notifier[n].todo /\ loop.sending = notifier[n].sending
        /\ loop.recordSent = notifier[n].recordSent \ {p}
        /\ loop.recordFailed = IF p[2] \in deleted THEN notifier[n].recordFailed \cup {p}
                               ELSE notifier[n].recordFailed
    BY <1>1 DEF Loop
  <2> HIDE DEF loop
  <2>4. notifier[n].recordFailed = notifier[n].recordFailed \ {p}
    BY <1>2, <2>1
  <2> QED BY <2>1, <2>2, <2>3, <2>4, RecordKeeps
<1>4. CASE RecordSentFails(n, p)
  <2> DEFINE loop == [notifier[n] EXCEPT !.recordSent = @ \ {p}, !.recordFailed = @ \cup {p}]
  <2>1. /\ p \in notifier[n].recordSent /\ log' \in {log, Logged(p, TRUE)} /\ hit' = hit \cup {p[1]}
        /\ UNCHANGED <<bus, trimmed, group, last, pending, routes, deleted, alerts, targets, batches>>
    BY <1>4 DEF RecordSentFails
  <2>2. notifier' = [notifier EXCEPT ![n] = loop]
    BY <1>1, <1>4 DEF RecordSentFails, TypeOK
  <2>3. /\ loop \in Loop
        /\ loop.stage = notifier[n].stage /\ loop.batch = notifier[n].batch
        /\ loop.todo = notifier[n].todo /\ loop.sending = notifier[n].sending
        /\ loop.recordSent = notifier[n].recordSent \ {p}
        /\ loop.recordFailed = notifier[n].recordFailed \cup {p}
    BY <1>1 DEF Loop
  <2> HIDE DEF loop
  <2> QED BY <2>1, <2>2, <2>3, RecordKeeps
<1>5. CASE RecordFailed(n, p)
  <2> DEFINE loop == [notifier[n] EXCEPT !.recordFailed = @ \ {p}]
  <2>1. /\ p \in notifier[n].recordFailed
        /\ \/ log' = Logged(p, FALSE) /\ hit' = hit
           \/ log' \in {log, Logged(p, FALSE)} /\ hit' = hit \cup {p[1]}
        /\ UNCHANGED <<bus, trimmed, group, last, pending, routes, deleted, alerts, targets, batches>>
    BY <1>5 DEF RecordFailed, LoggedFailure
  <2>2. notifier' = [notifier EXCEPT ![n] = loop]
    BY <1>1, <1>5 DEF RecordFailed, TypeOK
  <2>3. /\ loop \in Loop
        /\ loop.stage = notifier[n].stage /\ loop.batch = notifier[n].batch
        /\ loop.todo = notifier[n].todo /\ loop.sending = notifier[n].sending
        /\ loop.recordSent = notifier[n].recordSent
        /\ loop.recordFailed = notifier[n].recordFailed \ {p}
    BY <1>1 DEF Loop
  <2> HIDE DEF loop
  <2>4. notifier[n].recordSent = notifier[n].recordSent \ {p}
    BY <1>2, <2>1
  <2> QED BY <2>1, <2>2, <2>3, <2>4, RecordKeeps
<1> QED BY <1>3, <1>4, <1>5

\* One process goes on with what it has in hand, or lets go of it.
LEMMA LoopKeeps ==
  ASSUME NotifierInv, NEW n \in Notifiers, NEW loop \in Loop,
         notifier' = [notifier EXCEPT ![n] = loop],
         UNCHANGED <<bus, trimmed, last, routes, deleted, log, alerts, targets, batches>>,
         group => group', loop.stage # "down" => group',
         hit' \in SUBSET Events, hit \subseteq hit',
         pending' \in SUBSET Events, pending \ notifier[n].batch \subseteq pending',
         loop.sending \subseteq notifier[n].sending,
         loop.recordSent \subseteq notifier[n].recordSent,
         loop.recordFailed \subseteq notifier[n].recordFailed,
         loop.todo \subseteq notifier[n].todo,
         loop.batch \in {{}, notifier[n].batch},
         loop.batch = {} => /\ loop.todo = {} /\ loop.sending = {}
                            /\ loop.recordSent = {} /\ loop.recordFailed = {},
         loop.stage # "handling" => loop.batch = {},
         loop.batch \subseteq pending',
         \A p \in Hand(n) : p \in loop.sending \cup loop.recordSent \cup loop.recordFailed
                            \/ p[1] \in hit'
  PROVE  NotifierInv'
<1>1. /\ notifier' \in [Notifiers -> Loop] /\ notifier'[n] = loop
      /\ \A m \in Notifiers \ {n} : notifier'[m] = notifier[m] /\ Hand(m)' = Hand(m)
  BY OneLoop DEF NotifierInv
<1>2. Hand(n)' = loop.sending \cup loop.recordSent \cup loop.recordFailed
  BY <1>1 DEF Hand
<1>3. TypeOK'
  BY <1>1 DEF NotifierInv, TypeOK
<1>4. ASSUME NEW m \in Notifiers \ {n}
      PROVE  /\ notifier'[m].batch = {} => notifier'[m].todo = {} /\ Hand(m)' = {}
             /\ notifier'[m].stage # "down" => group'
             /\ notifier'[m].stage # "handling" => notifier'[m].batch = {}
             /\ notifier'[m].batch \subseteq pending'
  BY <1>1 DEF NotifierInv, BatchesApart
<1> QED BY <1>1, <1>2, <1>3, <1>4, LettingGoKeeps DEF NotifierInv

\* What the producers and the API do is seen at the next read and the next lookup.
LEMMA OthersKeep ==
  ASSUME NotifierInv,
         (\E t \in Transitions : Publish(t)) \/ (\E S \in SUBSET Channels : EditRoutes(S))
  PROVE  NotifierInv'
<1>1. /\ UNCHANGED <<group, last, pending, notifier, deleted, log, alerts, targets, batches, hit>>
      /\ bus' \in Seq(Transitions) /\ Len(bus') <= MaxEvents
      /\ trimmed' \in Nat /\ last \in 0..Len(bus') /\ routes' \in SUBSET Channels
  <2>1. /\ bus \in Seq(Transitions) /\ Len(bus) \in Nat /\ last \in 0..Len(bus)
        /\ Len(bus) <= MaxEvents /\ trimmed \in Nat /\ routes \in SUBSET Channels
        /\ MaxEvents \in Nat
    BY NotificationsAssumption DEF NotifierInv, TypeOK
  <2>2. CASE \E t \in Transitions : Publish(t)
    <3>1. PICK t \in Transitions : Publish(t)
      BY <2>2
    <3>2. bus' = Append(bus, t) /\ Len(bus') = Len(bus) + 1 /\ bus' \in Seq(Transitions)
      BY <2>1, <3>1 DEF Publish
    <3>3. trimmed' \in Nat
      BY <2>1, <3>1 DEF Publish
    <3>4. last \in 0..Len(bus') /\ Len(bus') <= MaxEvents
      BY <2>1, <3>1, <3>2 DEF Publish
    <3> QED BY <2>1, <3>1, <3>2, <3>3, <3>4 DEF Publish, pel, api, past
  <2>3. CASE \E S \in SUBSET Channels : EditRoutes(S)
    BY <2>1, <2>3 DEF EditRoutes, stream, pel, past
  <2> QED BY <2>2, <2>3
<1>2. TypeOK'
  BY <1>1 DEF NotifierInv, TypeOK
<1>3. ASSUME NEW n \in Notifiers
      PROVE  /\ Hand(n)' = Hand(n)
             /\ notifier[n].batch = {} => notifier[n].todo = {} /\ Hand(n) = {}
  BY <1>1 DEF NotifierInv, BatchesApart, Hand
<1> QED BY <1>1, <1>2, <1>3, LettingGoKeeps DEF NotifierInv, BatchesApart

\* A process between two batches has nothing in hand.
LEMMA IdleEmpty ==
  ASSUME NotifierInv, NEW n \in Notifiers, notifier[n].stage # "handling"
  PROVE  /\ notifier[n].batch = {} /\ notifier[n].todo = {} /\ notifier[n].sending = {}
         /\ notifier[n].recordSent = {} /\ notifier[n].recordFailed = {} /\ Hand(n) = {}
BY DEF NotifierInv, BatchesApart, Hand

\* The loop goes round, stops, is started again or dies.
LEMMA LifeKeeps ==
  ASSUME NotifierInv, NEW n \in Notifiers,
         Start(n) \/ ReadNothing(n) \/ Resume(n) \/ Stop(n) \/ Crash(n)
  PROVE  NotifierInv'
<1>1. notifier[n] \in Loop /\ hit \in SUBSET Events /\ pending \in SUBSET Events
  BY DEF NotifierInv, TypeOK
<1>2. Down \in Loop
  BY DEF Down, Loop
<1>3. CASE Start(n)
  <2> DEFINE loop == [Down EXCEPT !.stage = "reading", !.running = TRUE]
  <2>1. last' = last /\ group' = TRUE
    BY <1>3 DEF Start, GroupStart, NotifierInv, TypeOK
  <2>2. loop \in Loop /\ loop.stage = "reading" /\ loop.batch = {} /\ loop.todo = {}
        /\ loop.sending = {} /\ loop.recordSent = {} /\ loop.recordFailed = {}
    BY DEF Down, Loop
  <2>3. /\ notifier' = [notifier EXCEPT ![n] = loop]
        /\ UNCHANGED <<bus, trimmed, pending, routes, deleted, log, alerts, targets, batches, hit>>
    BY <1>3 DEF Start, stream, api, past
  <2>4. Hand(n) = {}
    BY <1>3, IdleEmpty DEF Start
  <2> HIDE DEF loop
  <2> QED BY <1>1, <2>1, <2>2, <2>3, <2>4, LoopKeeps
<1>4. CASE ReadNothing(n)
  <2>1. /\ notifier' = [notifier EXCEPT ![n] = Down]
        /\ UNCHANGED <<bus, trimmed, group, last, pending, routes, deleted, log, alerts, targets,
                       batches, hit>>
    BY <1>4 DEF ReadNothing, stream, pel, api, past
  <2>2. Hand(n) = {}
    BY <1>4, IdleEmpty DEF ReadNothing
  <2>3. /\ Down.stage = "down" /\ Down.batch = {} /\ Down.todo = {} /\ Down.sending = {}
        /\ Down.recordSent = {} /\ Down.recordFailed = {}
    BY DEF Down
  <2> QED BY <1>1, <1>2, <2>1, <2>2, <2>3, LoopKeeps
<1>5. CASE Resume(n)
  <2> DEFINE loop == Again(n)
  <2>1. /\ notifier' = [notifier EXCEPT ![n] = loop]
        /\ UNCHANGED <<bus, trimmed, group, last, pending, routes, deleted, log, alerts, targets,
                       batches, hit>>
    BY <1>5 DEF Resume, stream, pel, api, past
  <2>2. /\ notifier[n].batch = {} /\ notifier[n].todo = {} /\ notifier[n].sending = {}
        /\ notifier[n].recordSent = {} /\ notifier[n].recordFailed = {} /\ Hand(n) = {} /\ group
    BY <1>5, IdleEmpty DEF Resume, NotifierInv, BatchesApart
  <2>3. /\ loop \in Loop /\ loop.stage \in {"reading", "down"} /\ loop.batch = {}
        /\ loop.todo = notifier[n].todo /\ loop.sending = notifier[n].sending
        /\ loop.recordSent = notifier[n].recordSent /\ loop.recordFailed = notifier[n].recordFailed
    BY <1>1 DEF Again, Loop
  <2> HIDE DEF loop
  <2> QED BY <1>1, <2>1, <2>2, <2>3, LoopKeeps
<1>6. CASE Stop(n)
  <2> DEFINE loop == [notifier[n] EXCEPT !.running = FALSE]
  <2>1. /\ notifier' = [notifier EXCEPT ![n] = loop]
        /\ UNCHANGED <<bus, trimmed, group, last, pending, routes, deleted, log, alerts, targets,
                       batches, hit>>
    BY <1>6 DEF Stop, stream, pel, api, past
  <2>2. /\ loop \in Loop /\ loop.stage = notifier[n].stage /\ loop.batch = notifier[n].batch
        /\ loop.todo = notifier[n].todo /\ loop.sending = notifier[n].sending
        /\ loop.recordSent = notifier[n].recordSent /\ loop.recordFailed = notifier[n].recordFailed
    BY <1>1 DEF Loop
  <2> HIDE DEF loop
  <2>3. /\ notifier[n].batch = {} => /\ notifier[n].todo = {} /\ notifier[n].sending = {}
                                     /\ notifier[n].recordSent = {} /\ notifier[n].recordFailed = {}
        /\ notifier[n].stage # "handling" => notifier[n].batch = {}
        /\ notifier[n].stage # "down" => group
        /\ notifier[n].batch \subseteq pending
    BY DEF NotifierInv, BatchesApart, Hand
  <2> QED BY <1>1, <2>1, <2>2, <2>3, LoopKeeps DEF Hand
<1>7. CASE Crash(n)
  <2>1. /\ notifier' = [notifier EXCEPT ![n] = Down]
        /\ hit' = hit \cup notifier[n].batch
        /\ UNCHANGED <<bus, trimmed, group, last, pending, routes, deleted, log, alerts, targets,
                       batches>>
    BY <1>7 DEF Crash, stream, pel, api, past
  <2>2. /\ Down.stage = "down" /\ Down.batch = {} /\ Down.todo = {} /\ Down.sending = {}
        /\ Down.recordSent = {} /\ Down.recordFailed = {}
    BY DEF Down
  <2>3. hit' \in SUBSET Events /\ \A p \in Hand(n) : p[1] \in hit'
    BY <1>1, <2>1 DEF NotifierInv, BatchesApart, Loop
  <2> QED BY <1>1, <1>2, <2>1, <2>2, <2>3, LoopKeeps
<1> QED BY <1>3, <1>4, <1>5, <1>6, <1>7

\* The end of a batch, and what a failure leaves of it.
LEMMA BatchKeeps ==
  ASSUME NotifierInv, NEW n \in Notifiers,
         Read(n) \/ (\E e \in Events : LookupFails(n, e)) \/ Ack(n) \/ CommandFails(n)
  PROVE  NotifierInv'
<1>1. notifier[n] \in Loop /\ hit \in SUBSET Events /\ pending \in SUBSET Events
  BY DEF NotifierInv, TypeOK
<1>2. ReadBatch \in SUBSET Events
  BY DEF ReadBatch
<1>3. CASE Read(n)
  <2> DEFINE loop == [notifier[n] EXCEPT !.stage = "handling", !.batch = ReadBatch, !.todo = ReadBatch]
  <2>1. notifier' = [notifier EXCEPT ![n] = loop]
    BY <1>1, <1>3 DEF Read, NotifierInv, TypeOK
  <2>2. /\ loop \in Loop /\ loop.stage = "handling" /\ loop.batch = ReadBatch
        /\ loop.todo = ReadBatch /\ loop.sending = notifier[n].sending
        /\ loop.recordSent = notifier[n].recordSent /\ loop.recordFailed = notifier[n].recordFailed
    BY <1>1, <1>2 DEF Loop
  <2> HIDE DEF loop
  <2>3. /\ notifier[n].stage = "reading" /\ ReadBatch # {} /\ Delivered
        /\ batches' = Append(batches, ReadBatch)
        /\ UNCHANGED <<bus, trimmed, routes, deleted, log, alerts, targets, hit>>
    BY <1>3 DEF Read, stream, api
  <2>4. notifier[n].sending = {} /\ notifier[n].recordSent = {} /\ notifier[n].recordFailed = {}
    BY <2>3, IdleEmpty
  <2> QED BY <1>1, <2>1, <2>2, <2>3, <2>4, DeliveryKeeps
<1>4. ASSUME NEW e \in Events, LookupFails(n, e)
      PROVE  NotifierInv'
  <2> DEFINE loop == [notifier[n] EXCEPT !.todo = @ \ {e}, !.failed = @ \cup {e}]
  <2>1. /\ notifier' = [notifier EXCEPT ![n] = loop]
        /\ hit' = hit \cup {e}
        /\ UNCHANGED <<bus, trimmed, group, last, pending, routes, deleted, log, alerts, targets,
                       batches>>
    BY <1>1, <1>4 DEF LookupFails, stream, pel, api, past, NotifierInv, TypeOK
  <2>2. /\ loop \in Loop /\ loop.stage = notifier[n].stage /\ loop.batch = notifier[n].batch
        /\ loop.todo = notifier[n].todo \ {e} /\ loop.sending = notifier[n].sending
        /\ loop.recordSent = notifier[n].recordSent /\ loop.recordFailed = notifier[n].recordFailed
    BY <1>1 DEF Loop
  <2> HIDE DEF loop
  <2>3. /\ notifier[n].batch # {}
        /\ notifier[n].stage # "handling" => notifier[n].batch = {}
        /\ notifier[n].stage # "down" => group
        /\ notifier[n].batch \subseteq pending
    BY <1>4 DEF LookupFails, NotifierInv, BatchesApart
  <2> QED BY <1>1, <2>1, <2>2, <2>3, LoopKeeps DEF Hand
<1>5. ASSUME Settled(n)
      PROVE  Hand(n) = {} /\ ToAck(n) \subseteq notifier[n].batch
  BY <1>5 DEF Settled, Hand, ToAck
<1>6. CASE Ack(n)
  <2> DEFINE loop == Again(n)
  <2>1. /\ notifier' = [notifier EXCEPT ![n] = loop] /\ Settled(n)
        /\ pending' = pending \ ToAck(n)
        /\ UNCHANGED <<bus, trimmed, group, last, routes, deleted, log, alerts, targets,
                       batches, hit>>
    BY <1>6 DEF Ack, stream, api, past
  <2>2. /\ loop \in Loop /\ loop.stage \in {"reading", "down"} /\ loop.batch = {}
        /\ loop.todo = {} /\ loop.sending = {} /\ loop.recordSent = {} /\ loop.recordFailed = {}
    BY <1>1, <2>1 DEF Again, Loop, Settled
  <2> HIDE DEF loop
  <2>3. group
    BY <2>1 DEF Settled, NotifierInv, BatchesApart
  <2> QED BY <1>1, <1>5, <2>1, <2>2, <2>3, LoopKeeps
<1>7. CASE CommandFails(n)
  <2> DEFINE loop == [Down EXCEPT !.stage = "backoff", !.running = notifier[n].running]
  <2>1. /\ notifier' = [notifier EXCEPT ![n] = loop]
        /\ UNCHANGED <<bus, trimmed, routes, deleted, log, alerts, targets>>
    BY <1>7 DEF CommandFails, stream, api
  <2>2. /\ loop \in Loop /\ loop.stage = "backoff" /\ loop.batch = {} /\ loop.todo = {}
        /\ loop.sending = {} /\ loop.recordSent = {} /\ loop.recordFailed = {}
    BY <1>1 DEF Down, Loop
  <2> HIDE DEF loop
  <2>3. group
    BY <1>7 DEF CommandFails, Settled, NotifierInv, BatchesApart
  <2>4. CASE notifier[n].stage = "reading" /\ ReadBatch # {} /\ Delivered
              /\ hit' = hit \cup ReadBatch /\ batches' = Append(batches, ReadBatch)
    BY <1>1, <1>2, <2>1, <2>2, <2>4, DeliveryKeeps
  <2>5. CASE notifier[n].stage = "reading" /\ UNCHANGED <<group, last, pending, hit, batches>>
    <3>1. Hand(n) = {}
      BY <2>5, IdleEmpty
    <3> QED BY <1>1, <2>1, <2>2, <2>3, <2>5, <3>1, LoopKeeps
  <2>6. CASE Settled(n) /\ pending' \in {pending, pending \ ToAck(n)}
              /\ hit' = hit \cup notifier[n].batch /\ UNCHANGED <<group, last, batches>>
    <3>1. hit' \in SUBSET Events
      BY <1>1, <2>6 DEF Loop
    <3> QED BY <1>1, <1>5, <2>1, <2>2, <2>3, <2>6, <3>1, LoopKeeps
  <2> QED BY <1>7, <2>4, <2>5, <2>6 DEF CommandFails, pel
<1> QED BY <1>3, <1>4, <1>6, <1>7

-----------------------------------------------------------------------------

LEMMA NotifierStepKeeps == NotifierInv /\ [Next]_vars => NotifierInv'
<1> SUFFICES ASSUME NotifierInv, [Next]_vars PROVE NotifierInv'
  OBVIOUS
<1>1. ASSUME NEW n \in Notifiers, NotifierStep(n)
      PROVE  NotifierInv'
  <2>1. CASE Dispatch(n)
    BY <2>1, LookupKeeps, SendKeeps, RecordingKeeps DEF Dispatch
  <2>2. CASE \E p \in Pairs : RecordSentFails(n, p)
    BY <2>2, RecordingKeeps
  <2> QED BY <1>1, <2>1, <2>2, LifeKeeps, BatchKeeps DEF NotifierStep
<1>2. CASE UNCHANGED vars
  <2>1. UNCHANGED <<bus, trimmed, group, last, pending, notifier, routes, deleted, log, alerts,
                    targets, batches, hit>>
    BY <1>2 DEF vars, stream, pel, api, past
  <2>2. TypeOK' /\ BatchesApart' /\ TargetsSound' /\ AlertsSound' /\ LogSound'
    BY <2>1, SMTT(30) DEF NotifierInv, TypeOK, BatchesApart, Hand, TargetsSound, AlertsSound, LogSound, Arrived
  <2>3. DeliveriesTracked' /\ (OneProcess => BatchesFollow)'
    BY <2>1 DEF NotifierInv, DeliveriesTracked, Entries, Hand, OneProcess, BatchesFollow
  <2> QED BY <2>2, <2>3 DEF NotifierInv
<1> QED BY <1>1, <1>2, OthersKeep, DeleteChannelKeeps DEF Next

LEMMA NotifierInvariant == Spec => []NotifierInv
BY NotifierInit, NotifierStepKeeps, PTL DEF Spec

\* No channel is alerted twice to an event, and with one process an alert overtakes
\* another only within their batch; Notifications.AlertsInOrder.
THEOREM AlertsOnceInOrder == Spec => []AlertsInOrder
<1>1. ASSUME NotifierInv
      PROVE  AlertsInOrder
  <2>1. ASSUME Cardinality(Notifiers) = 1
        PROVE  OneProcess
    <3>1. PICK x : Notifiers = {x}
      BY <2>1, NotificationsAssumption, FS_Singleton
    <3> QED BY <3>1 DEF OneProcess
  <2> QED BY <1>1, <2>1 DEF NotifierInv, AlertsSound, BatchesFollow, AlertsInOrder
<1> QED BY <1>1, NotifierInvariant, PTL

\* What the log says was sent did arrive, and an event that is over, and that no fault hit,
\* is logged once for each of its channels; Notifications.DeliveriesLogged.
THEOREM DeliveriesAreLogged == Spec => []DeliveriesLogged
<1>1. ASSUME NotifierInv
      PROVE  DeliveriesLogged
  <2>1. \A d \in log : d[2] \notin deleted
    BY <1>1 DEF NotifierInv, LogSound
  <2>2. ASSUME NEW e \in Events, NEW c \in Channels, <<e, c, TRUE>> \in log
        PROVE  \E i \in DOMAIN alerts[c] : alerts[c][i] = e
    <3>1. Arrived(<<e, c, TRUE>>[1], <<e, c, TRUE>>[2])
      BY <1>1, <2>2 DEF NotifierInv, LogSound
    <3> QED BY <3>1 DEF Arrived
  <2>3. ASSUME NEW e \in 1..last \ (pending \cup hit), NEW c \in targets[e] \ deleted
        PROVE  Cardinality({d \in log : d[1] = e /\ d[2] = c}) = 1
    <3>1. e \in Events
      BY <1>1, NotificationsAssumption DEF NotifierInv, TypeOK, Events
    <3>2. \A n \in Notifiers : <<e, c>> \notin Hand(n)
      BY <1>1 DEF NotifierInv, BatchesApart
    <3>3. PICK sent \in BOOLEAN : Entries(e, c) = {<<e, c, sent>>}
      BY <1>1, <3>1, <3>2 DEF NotifierInv, DeliveriesTracked
    <3> QED BY <3>3, FS_Singleton DEF Entries
  <2> QED BY <2>1, <2>2, <2>3 DEF DeliveriesLogged
<1> QED BY <1>1, NotifierInvariant, PTL
=============================================================================
