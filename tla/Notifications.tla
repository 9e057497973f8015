---------------------------- MODULE Notifications ----------------------------
(***************************************************************************)
(* The events of one monitor on their way to its alerts: the stream of the *)
(* event bus, the consumer group of the notifier, the dispatch of an event *)
(* to the channels of the monitor, and the delivery log.                   *)
(*                                                                         *)
(* A batch of events is handled concurrently, and so are the channels of   *)
(* an event; the next batch is read when the last one has settled.  Unlike *)
(* the check queue, the group never reclaims.                              *)
(***************************************************************************)
EXTENDS HealthStateMachine, Connectors, Sequences, FiniteSets

CONSTANTS
  Notifiers,    \* the notifier processes; the compose file runs one
  TypeOf,       \* the connector of each channel of the workspace
  Linked,       \* the channels the monitor is linked to at first
  Transitions,  \* the status changes tried: [from, to]
  MaxEvents,    \* bound: events published
  Count,        \* events read at once (BATCH)
  MaxLen,       \* MAXLEN of the stream
  MaxFaults,    \* bound: crashes, stops, commands and statements that fail
  MaxEdits      \* bound: edits of the routes and the channels

Transition == {t \in [from: MonitorStatus, to: RegionStatus] : t.from # t.to}

ASSUME NotificationsAssumption ==
  /\ IsFiniteSet(Channels) /\ IsFiniteSet(Notifiers)
  /\ Linked \subseteq Channels /\ TypeOf \in [Channels -> Types]
  /\ Transitions \subseteq Transition
  /\ MaxEvents \in Nat /\ MaxFaults \in Nat /\ MaxEdits \in Nat
  /\ Count \in Nat \ {0} /\ MaxLen \in Nat \ {0}

Events == 1..MaxEvents

VARIABLES
  bus,        \* every event ever published; its place is its id
  trimmed,    \* how many of them MAXLEN has cut off
  group,      \* does the group exist?
  last,       \* the group's last delivered id
  pending,    \* the group's pending list
  notifier,   \* each process: its place in the loop, and its batch
  routes,     \* the enabled channels linked to the monitor
  deleted,    \* the channels that were deleted
  log,        \* notification_deliveries: [event, channel, sent]
  alerts,     \* history: the alerts that arrived at each channel, in order
  targets,    \* history: the channels found for each event
  batches,    \* history: the batches read, in order
  hit,       \* history: events whose handling a fault has hit
  faults, edits

stream == <<bus, trimmed>>
pel    == <<group, last, pending>>
api    == <<routes, deleted>>
past   == <<alerts, targets, batches>>
bounds == <<faults, edits>>
vars   == <<stream, pel, notifier, api, log, past, hit, bounds>>

Pairs == Events \X Channels

\* A process that does not run.  Each event of a batch is looked up, then each of
\* its channels is sent to, and the delivery recorded; failed are the events whose
\* handler threw.
Down == [stage |-> "down", running |-> FALSE, batch |-> {}, todo |-> {}, failed |-> {},
         sending |-> {}, recordSent |-> {}, recordFailed |-> {}]

Init ==
  /\ bus = <<>> /\ trimmed = 0
  /\ group = FALSE /\ last = 0 /\ pending = {}
  /\ notifier = [n \in Notifiers |-> Down]
  /\ routes = Linked /\ deleted = {}
  /\ log = {}
  /\ alerts = [c \in Channels |-> <<>>]
  /\ targets = [e \in Events |-> {}]
  /\ batches = <<>>
  /\ hit = {}
  /\ faults = 0 /\ edits = 0

Fault == faults < MaxFaults /\ faults' = faults + 1 /\ UNCHANGED edits

-----------------------------------------------------------------------------
(* The producers.                                                          *)

\* publish: XADD MAXLEN ~ may trim the stream, never below MaxLen entries.
Publish(t) ==
  /\ Len(bus) < MaxEvents
  /\ bus' = Append(bus, t)
  /\ trimmed' \in {trimmed} \cup {k \in trimmed..Len(bus) : Len(bus) + 1 - k >= MaxLen}
  /\ UNCHANGED <<pel, notifier, api, log, past, hit, bounds>>

\* A PATCH replaces the channels of the monitor (in one transaction), or a channel
\* is enabled or disabled.
EditRoutes(S) ==
  /\ edits < MaxEdits /\ edits' = edits + 1
  /\ S \subseteq Channels \ deleted
  /\ routes' = S
  /\ UNCHANGED <<stream, pel, notifier, deleted, log, past, hit, faults>>

\* A channel is deleted; its links and its deliveries go with it.
DeleteChannel(c) ==
  /\ edits < MaxEdits /\ edits' = edits + 1
  /\ c \notin deleted
  /\ deleted' = deleted \cup {c}
  /\ routes' = routes \ {c}
  /\ log' = {d \in log : d[2] # c}
  /\ UNCHANGED <<stream, pel, notifier, past, hit, faults>>

-----------------------------------------------------------------------------
(* The consumer loop.                                                      *)

\* ensureGroup: a new group starts at the beginning; BUSYGROUP changes nothing.
GroupStart == IF group THEN last ELSE 0

Start(n) ==
  /\ notifier[n].stage = "down"
  /\ notifier' = [notifier EXCEPT ![n] = [Down EXCEPT !.stage = "reading", !.running = TRUE]]
  /\ group' = TRUE /\ last' = GroupStart
  /\ UNCHANGED <<stream, pending, api, log, past, hit, bounds>>

\* XREADGROUP >: the oldest entries of the stream not yet delivered to the group.
ReadAfter == IF trimmed > last THEN trimmed ELSE last
ReadBatch == {e \in Events : ReadAfter < e /\ e <= ReadAfter + Count /\ e <= Len(bus)}
Delivered ==
  /\ last' = CHOOSE e \in ReadBatch : \A f \in ReadBatch : f <= e
  /\ pending' = pending \cup ReadBatch
  /\ UNCHANGED group

\* A batch is read and handling starts; onEvent is called for all of it at once.
Read(n) ==
  /\ notifier[n].stage = "reading"
  /\ ReadBatch # {}
  /\ Delivered
  /\ notifier' = [notifier EXCEPT ![n].stage = "handling", ![n].batch = ReadBatch,
                                  ![n].todo = ReadBatch]
  /\ batches' = Append(batches, ReadBatch)
  /\ UNCHANGED <<stream, api, log, alerts, targets, hit, bounds>>

\* Where the loop goes: `running` is tested before each read, which also returns
\* when nothing came for a while.
Again(n) == [notifier[n] EXCEPT !.stage = IF notifier[n].running THEN "reading" ELSE "down",
                                !.batch = {}, !.failed = {}]

ReadNothing(n) ==
  /\ notifier[n].stage = "reading"
  /\ ReadBatch = {} /\ ~notifier[n].running
  /\ notifier' = [notifier EXCEPT ![n] = Down]
  /\ UNCHANGED <<stream, pel, api, log, past, hit, bounds>>

-----------------------------------------------------------------------------
(* NotificationDispatcher.handle.                                          *)

shouldNotify(t) == t.to = "down" \/ (t.to = "up" /\ t.from = "down")

\* The channels an event goes to, as they are when it is handled.
ChannelsFor(e) == IF shouldNotify(bus[e]) THEN routes ELSE {}

Lookup(n, e) ==
  /\ e \in notifier[n].todo
  /\ notifier' = [notifier EXCEPT
       ![n].todo = @ \ {e},
       ![n].sending = @ \cup {<<e, c>> : c \in ChannelsFor(e)}]
  /\ targets' = [targets EXCEPT ![e] = ChannelsFor(e)]
  /\ UNCHANGED <<stream, pel, api, log, alerts, batches, hit, bounds>>

\* The lookup fails, and the handler with it: the event is not acknowledged.
LookupFails(n, e) ==
  /\ Fault
  /\ e \in notifier[n].todo
  /\ shouldNotify(bus[e])
  /\ notifier' = [notifier EXCEPT ![n].todo = @ \ {e}, ![n].failed = @ \cup {e}]
  /\ hit' = hit \cup {e}
  /\ UNCHANGED <<stream, pel, api, log, past>>

\* connector.send.
Send(n, p, outcome) ==
  /\ p \in notifier[n].sending
  /\ outcome \in createConnector(TypeOf[p[2]])
  /\ alerts' = IF outcome.arrived THEN [alerts EXCEPT ![p[2]] = Append(@, p[1])] ELSE alerts
  /\ notifier' = [notifier EXCEPT
       ![n].sending = @ \ {p},
       ![n].recordSent = IF outcome.resolved THEN @ \cup {p} ELSE @,
       ![n].recordFailed = IF outcome.resolved THEN @ ELSE @ \cup {p}]
  /\ UNCHANGED <<stream, pel, api, log, targets, batches, hit, bounds>>

\* Inserting a delivery violates the foreign key when the channel is gone.
Logged(p, sent) ==
  IF p[2] \in deleted THEN log ELSE log \cup {<<p[1], p[2], sent>>}

\* recordDelivery(true).  When it fails, the delivery counts as failed.
RecordSent(n, p) ==
  /\ p \in notifier[n].recordSent
  /\ log' = Logged(p, TRUE)
  /\ notifier' = [notifier EXCEPT
       ![n].recordSent = @ \ {p},
       ![n].recordFailed = IF p[2] \in deleted THEN @ \cup {p} ELSE @]
  /\ UNCHANGED <<stream, pel, api, past, hit, bounds>>

RecordSentFails(n, p) ==
  /\ Fault
  /\ p \in notifier[n].recordSent
  /\ notifier' = [notifier EXCEPT ![n].recordSent = @ \ {p}, ![n].recordFailed = @ \cup {p}]
  /\ log' \in {log, Logged(p, TRUE)}
  /\ hit' = hit \cup {p[1]}
  /\ UNCHANGED <<stream, pel, api, past>>

\* Mutation: only what was sent is recorded.
LoggedNothing(p) == log
\* What recordDelivery(false) leaves in the log.
LoggedFailure(p) == Logged(p, FALSE)

\* recordDelivery(false), whose own failure is swallowed.
RecordFailed(n, p) ==
  /\ p \in notifier[n].recordFailed
  /\ notifier' = [notifier EXCEPT ![n].recordFailed = @ \ {p}]
  /\ \/ log' = LoggedFailure(p) /\ UNCHANGED <<hit, bounds>>
     \/ Fault /\ log' \in {log, LoggedFailure(p)} /\ hit' = hit \cup {p[1]}
  /\ UNCHANGED <<stream, pel, api, past>>

-----------------------------------------------------------------------------
(* The end of a batch, and of a process.                                   *)

\* Mutation: the sends are not awaited.
SettledEarly(n) == notifier[n].stage = "handling" /\ notifier[n].todo = {}
\* Every promise of the batch has settled.
Settled(n) ==
  /\ notifier[n].stage = "handling"
  /\ notifier[n].todo = {} /\ notifier[n].sending = {}
  /\ notifier[n].recordSent = {} /\ notifier[n].recordFailed = {}

\* Mutation: only events that gave rise to an alert are acknowledged.
AckAlerted(n) == {e \in notifier[n].batch \ notifier[n].failed : targets[e] # {}}
\* Events whose handler returned, with or without alerts.
ToAck(n) == notifier[n].batch \ notifier[n].failed

Ack(n) ==
  /\ Settled(n)
  /\ pending' = pending \ ToAck(n)
  /\ notifier' = [notifier EXCEPT ![n] = Again(n)]
  /\ UNCHANGED <<stream, group, last, api, log, past, hit, bounds>>

\* A command fails, before or after Redis has executed it; the loop backs off.
CommandFails(n) ==
  /\ Fault
  /\ \/ /\ notifier[n].stage = "reading"
        /\ \/ /\ ReadBatch # {}
              /\ Delivered
              /\ hit' = hit \cup ReadBatch
              /\ batches' = Append(batches, ReadBatch)
           \/ UNCHANGED <<pel, hit, batches>>
     \/ /\ Settled(n)
        /\ ToAck(n) # {}
        /\ pending' \in {pending, pending \ ToAck(n)}
        /\ hit' = hit \cup notifier[n].batch
        /\ UNCHANGED <<group, last, batches>>
  /\ notifier' = [notifier EXCEPT ![n] = [Down EXCEPT !.stage = "backoff",
                                                      !.running = notifier[n].running]]
  /\ UNCHANGED <<stream, api, log, alerts, targets>>

\* A second later the loop goes on, if it may.
Resume(n) ==
  /\ notifier[n].stage = "backoff"
  /\ notifier' = [notifier EXCEPT ![n] = Again(n)]
  /\ UNCHANGED <<stream, pel, api, log, past, hit, bounds>>

\* stop(), on SIGTERM: the batch in progress is completed.
Stop(n) ==
  /\ Fault
  /\ notifier[n].running
  /\ notifier' = [notifier EXCEPT ![n].running = FALSE]
  /\ UNCHANGED <<stream, pel, api, log, past, hit>>

\* The process dies.
Crash(n) ==
  /\ Fault
  /\ notifier[n].stage # "down"
  /\ notifier' = [notifier EXCEPT ![n] = Down]
  /\ hit' = hit \cup notifier[n].batch
  /\ UNCHANGED <<stream, pel, api, log, past>>

-----------------------------------------------------------------------------
Dispatch(n) ==
  \/ \E e \in Events : Lookup(n, e)
  \/ \E p \in Pairs : \/ \E outcome \in Result : Send(n, p, outcome)
                      \/ RecordSent(n, p)
                      \/ RecordFailed(n, p)

NotifierStep(n) ==
  \/ Start(n)
  \/ Read(n)
  \/ ReadNothing(n)
  \/ Dispatch(n)
  \/ \E e \in Events : LookupFails(n, e)
  \/ \E p \in Pairs : RecordSentFails(n, p)
  \/ Ack(n)
  \/ CommandFails(n)
  \/ Resume(n)
  \/ Stop(n)
  \/ Crash(n)

Next ==
  \/ \E t \in Transitions : Publish(t)
  \/ \E S \in SUBSET Channels : EditRoutes(S)
  \/ \E c \in Channels : DeleteChannel(c)
  \/ \E n \in Notifiers : NotifierStep(n)

Spec == Init /\ [][Next]_vars

\* A notifier is restarted when it ends (restart: unless-stopped), its loop goes on,
\* its sends time out, its statements and commands return.
Fairness ==
  \A n \in Notifiers :
    /\ WF_vars(Start(n))
    /\ WF_vars(Read(n) \/ ReadNothing(n) \/ Dispatch(n) \/ Ack(n) \/ Resume(n))

FairSpec == Spec /\ Fairness

-----------------------------------------------------------------------------
\* An alert is sent at most once to a channel for an event, whatever crashes,
\* restarts, stops and fails (the group delivers an event once, and handle()
\* sends once per channel).  With one notifier, two alerts arrive at a channel in the
\* wrong order only when their events were in the same batch: batches do not overlap.
AlertsInOrder ==
  /\ \A c \in Channels : \A i, j \in DOMAIN alerts[c] : alerts[c][i] = alerts[c][j] => i = j
  /\ Cardinality(Notifiers) = 1 =>
       \A c \in Channels : \A i, j \in DOMAIN alerts[c] :
         i < j /\ alerts[c][i] > alerts[c][j] =>
           \E k \in DOMAIN batches : {alerts[c][i], alerts[c][j]} \subseteq batches[k]

\* What the log says was sent did arrive; "recording each delivery (success or
\* failure) without letting one bad channel affect the others" (dispatcher.ts:17-18):
\* once an event is over, and no fault hit its handling, each channel it was meant for
\* has exactly one entry.  No entry names a channel that was deleted.
DeliveriesLogged ==
  /\ \A d \in log : d[2] \notin deleted
  /\ \A e \in Events, c \in Channels :
       <<e, c, TRUE>> \in log => \E i \in DOMAIN alerts[c] : alerts[c][i] = e
  /\ \A e \in 1..last \ (pending \cup hit) : \A c \in targets[e] \ deleted :
       Cardinality({d \in log : d[1] = e /\ d[2] = c}) = 1

\* Every event published is read, dispatched and acknowledged, unless it was
\* trimmed first or a fault hit its own batch: nothing another event or channel
\* does keeps it from that.
EveryEventSettles ==
  \A e \in Events :
    Len(bus) >= e ~> (e <= trimmed \/ e \in hit \/ (e <= last /\ e \notin pending))

=============================================================================
