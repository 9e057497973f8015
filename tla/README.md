# Ping Monitor: formal model

TLA+ models of Ping Monitor, a self-hosted uptime monitor: TypeScript services
around PostgreSQL and Redis Streams, and their web interface. Modules are checked
with TLC on small instances; their safety properties are proved with TLAPS for
every value of the constants.

Paths below are relative to the root of the repository.

    tlc -workers 2 -config Eval_races.cfg MC_StatusEvaluation
    tlapm StatusEvaluation_proofs.tla

`PROJECT.json` lists the runs, the code lines behind every definition, the
hazards and the properties that watch them, and for each property a plausible
bug (a *mutation*, defined in the module next to the definition it replaces)
that makes TLC report a violation.

## 1. The system

    scheduler xN --claimDue--> PostgreSQL <--evaluate, flush-- worker xM (one region each)
        |                         ^  ^                           ^        |
        +--XADD checks:<region>---|--|--> Redis stream ----------+        | XADD events
                                  |  |                                    v
      browser --HTTP--> API xK ---+  +------------- notifier <-- events stream --> API WebSockets

| Component | Code | State it keeps | Operations | What is hard |
|---|---|---|---|---|
| Scheduler | `apps/scheduler/src/scheduler.ts`, `scheduling-repository.ts` | none; it works on `monitor_assignments.next_check_at` | a tick claims a batch of due rows (`FOR UPDATE SKIP LOCKED`), advances them, and pushes one job per row | replicas, rows edited meanwhile, death between the claim and the push, more due than a batch holds |
| Check queue | `packages/queue/src/check-queue.ts` | a stream and a consumer group with its pending list, per region; each worker's loop | enqueue with trimming, `ensureGroup`, reclaim, read, handle, acknowledge, stop | at-least-once delivery, partial batches, lost replies, crashes, slow jobs reclaimed from a live worker |
| Check executors | `packages/checks/src` | none beyond a probe | HTTP, TCP and ping probes with their timers, assertions, classification of errors | silence at any point, timers racing answers, a verdict that depends on what was read |
| Job processor and status evaluation | `apps/worker/src/job-processor.ts`, `status-evaluator.ts`, `health-repository.ts`, `state-machine.ts` | the region's status and counters, the monitor's status, the open incident | probe, buffer, evaluate in a transaction, publish after it | READ COMMITTED with overlapping evaluations and edits, deadlocks, counters that overflow |
| Result buffer and statistics | `apps/worker/src/result-buffer.ts`, `worker.ts`, `results-repository.ts`, `stats-repository.ts` | rows and hourly and daily statistics in memory, then three tables | add, flush (three statements, no transaction), upsert; the queries of charts and lists | incremental statistics merged from several workers, failures in the middle, shutdown, three tables that must agree |
| Workspace data | `apps/api/src/services`, `apps/api/src/routes`, `packages/db/src/repositories` | monitors, groups, tags, channels, status pages, and the links between them | create, PATCH, pause, resume, delete | several statements per request, cascades, ids resolved before they are used, rows locked in another order than the workers do, masked credentials sent back |
| Connection pool | `packages/db/src/pool.ts` | the connections in use | query, transaction, close | requests that need a second connection while they hold one |
| Event bus and notifier | `packages/queue/src/event-bus.ts`, `apps/notifier/src/dispatcher.ts`, `packages/notifications/src` | the event stream and its group, the delivery log | publish, consume, dispatch, send, record | concurrent handling within a batch, no reclaim, failure after the alert was sent |
| WebSocket gateway and API keys | `apps/api/src/app.ts`, `ws/hub.ts`, `api-key-service.ts` | the connected sockets, the read position; the keys | create and revoke a key; admission, heartbeat, revalidation, broadcast | closing during admission, keys that end while a socket streams, events between two blocking reads |
| Accounts and sessions | `auth-service.ts`, `token-repository.ts`, `apps/web/src/lib/api.ts`, `auth.tsx` | accounts, refresh tokens, the tokens in localStorage | register, sign in and out, refresh, change the password | tabs that share tokens, rotation that races itself, checks before a transaction |
| Web interface | `apps/web/src` | the query cache, forms | pages, writes, invalidations, polling | late answers, writes of others, forms opened on old copies |
| Partitions, migrator, seed, configuration, API documentation | `maintenance-repository.ts`, `migrator.ts`, `seed.ts`, `env.ts`, `openapi.ts` | - | - | see "Not modelled" |

The interactions: the scheduler and the API write the same assignment rows; the
scheduler's jobs reach the workers through the queue; a worker's evaluations
lock assignment rows, then the monitor row, while the API's requests lock them
in the opposite order; the worker publishes an event after its commit; the
notifier and every API process read that stream, one with a group and the other
without; the result buffer is filled by every job and flushed by a timer, by jobs
that find it full, and by the shutdown; the interface learns of any of it only by
asking again.

What makes each component correct:

* *retry state machine* - a region flips only on a streak as long as the
  threshold, whatever came before;
* *evaluation* - no result lost or folded twice; the overall status follows the
  quorum; one open incident exactly while the monitor is down; the last event
  tells the current status; every transaction ends;
* *probes* - the verdict is what the target's answer deserves; every probe ends;
* *queue* - a job leaves the pending list only when it was handled; each job is
  handled in the end;
* *buffer and statistics* - the tables hold the statistics of the checks flushed,
  exactly, and what is shown from one agrees with what is shown from another;
  nothing stays in memory;
* *scheduler* - each due window is dispatched at most once; none is forgotten;
  no assignment starves;
* *workspace data* - links join live rows of one workspace; a monitor keeps a
  region; no credential is destroyed by its mask; every request ends;
* *notifier* - an event is alerted at most once per channel; the log tells the
  truth and is complete; every event is dispatched and acknowledged, unless a
  fault hits its own batch;
* *gateway* - places are counted exactly; no socket misses an event or sees one of
  another workspace; none outlives its key or its client;
* *sessions* - nobody is signed out by anything but his own sign-out, expiry or a
  change of password; a change of password ends the other sessions; an account
  and its workspace come together or not at all;
* *interface* - what a tab wrote is in the lists it shows; a form does not revert
  what its user did not touch; polled lists catch up.

## 2. The modules

| Module | Stands for |
|---|---|
| `HealthStateMachine` | `evaluateHealth`, as operators; no state |
| `HealthHistory` | one region's health next to the whole history of its results |
| `Probes` | the checks of one region: the three executors, their timers, assertions, and the fold of each outcome |
| `RegionFolds` | abstract: results are folded into the health of a region one after the other |
| `StatusEvaluation` | one monitor: evaluations and API requests as transactions |
| `StatusEvaluation_proofs` | its theorems |
| `CheckQueue` | the stream of one region, its group, and the loops of its workers |
| `CheckQueue_proofs` | its theorems |
| `ResultPipeline` | the buffers and flushes of the workers, and the three result tables |
| `StatsQueries` | what the API computes from these tables |
| `Outcomes_proofs` | the theorems of `HealthHistory`, `Probes`, `ResultPipeline` and `StatsQueries` |
| `Scheduler` | the replicas' ticks over the assignments |
| `Scheduler_proofs` | its theorems |
| `Connectors` | what a connector reports of an alert it sends |
| `Notifications` | the event stream, the notifier's loop, the dispatch to channels, the delivery log |
| `Notifications_proofs` | its theorems |
| `ApiKeys` | the row of an API key and the questions asked of it |
| `LiveEvents` | the sockets of one API process, its keys, its timers and its broadcaster |
| `LiveEvents_proofs` | its theorems |
| `ChannelSecrets` | masking and unmasking the credentials of a channel |
| `WorkspaceApi` | schemas, routes and services: from an HTTP request to the columns and lists it writes |
| `WorkspaceData` | the rows and links of a workspace, and the requests as transactions over a bounded pool |
| `WorkspaceData_proofs` | its theorems |
| `Sessions` | tabs, their tokens, and the authentication service |
| `Dashboard` | one tab of the web interface |
| `Web_proofs` | the theorems of `Sessions` and `Dashboard` |
| `MC_*` | instances for TLC |

What composes what: `Probes` EXTENDS `HealthHistory`, which EXTENDS
`HealthStateMachine`, so a probe's outcome goes through the state machine.
`StatusEvaluation` EXTENDS `HealthStateMachine` too, and implements `RegionFolds`
(`Folds == INSTANCE RegionFolds WITH health <- ...`, the property
`NoResultLost`). `StatsQueries` EXTENDS `ResultPipeline`, `Notifications` takes the
results of `Connectors`, `LiveEvents` the rows of `ApiKeys`, and `WorkspaceData` the
calls of `WorkspaceApi` and the configs of `ChannelSecrets`.

### HealthStateMachine, HealthHistory

`evaluateHealth` is translated branch by branch: a success clears the failures
and counts up, a failure the reverse, and the status flips when the counter
reaches `max(1, threshold)`. `HealthHistory` adds the list of all results and
says in terms of that list alone what the counters (`CountersMatchHistory`) and
the status (`StatusMatchesHistory`) must be.

### Probes

`job` is the job a worker is processing, `phase` what its probe waits for (a
connection, a certificate, a response, a body, `ping`), `answer` what the target
has said so far, `days` what its certificate has left, `outcome` the result. The
target may answer, break or stay silent in any phase; the timers of the code are
the only way out of silence, and `Fold` hands the outcome to the state machine.
Assertions are the code's tree of rules, with its five sources and eleven operators.
A value is what they can tell of it: whether it is there (neither `undefined` nor
`null`), the number `Number` makes of it or `NaN`, and the text `String` makes of it, so
that `looseEquals` falls back to text, `String(undefined)` is a text like another, a
comparison with `NaN` is false and a pattern that is no regular expression matches
nothing. Numbers are integers; which text includes which, and which pattern matches
which, are relations given as constants (`Includes`, `Matches`).
Trees are evaluated by recursive functions over the constant `Trees`, the assertions of
the jobs and everything in them. The reference for the verdict (`Acceptable`) shares none
of it: it turns the tree into its `Ways`, the sets of rules any of which suffices, looks
a rule's value up in a table of all a response says (`Said`), and reads off the
outcome of one `Comparison` what each operator `Demands`. Redirects, headers sent, the
resolution of a JSON path inside a document, and the parsing of ping's output are abstracted.

### StatusEvaluation

| Variable | Code |
|---|---|
| `monitor` | the committed row of `monitors`: enabled, status, thresholds, quorum |
| `present`, `rows` | the rows of `monitor_assignments` with `enabled`, `status` and the two counters |
| `incident` | whether a row of `incidents` has `resolved_at IS NULL` |
| `rowLock`, `monitorLock` | PostgreSQL's row locks |
| `ev` | each running call of `StatusEvaluator.evaluate`: its stage and what it has read and computed |
| `request`, `todo` | each running request and the assignment rows its next statement has still to lock |
| `announced` | `to` of the last event published |
| `overlapped` | history: evaluations during which another transaction committed |

`Begin` is the read of `lockAssignmentContext`, whose row lock (`FOR UPDATE OF
a`) comes with `Evaluate`: PostgreSQL re-reads the locked assignment then, but
keeps the monitor's columns as the statement first saw them. `Evaluate` also
folds the result and tallies the regions, all of it before anything else can
see it; `Commit` writes everything, when it can get the monitor row; `Overflow`
is the failure of the SMALLINT column; `Publish` comes after the commit.
`StartRequest`, `LockRow`, and `SetEnabled`, `Patch` or `Delete` are the three
parts of a request. `DeadlockVictim` is PostgreSQL's detector, `InsertFails`
the foreign key violated by a PATCH whose monitor was deleted meanwhile, and
`CrashEvaluator`, `CrashClient` the loss of a process or connection. Reads that
precede no lock are merged with the step that needs them, and the last lock of
a transaction with its commit; the head of the module says why that hides no
interleaving. Left out: names, messages, timestamps, durations, the response
time, and the attempts of a job (those are `CheckQueue`'s).

### CheckQueue

The entries of the stream are the jobs `1..added`; `trimmed` is how many the
MAXLEN has cut off, `last` the group's last delivered id, `owner` and `idle` the
pending list. `worker` is each worker's place in the loop of
`createCheckConsumer`: reclaim, handle, acknowledge, read, handle, acknowledge,
with `running` read where the code reads it. `XAUTOCLAIM`, `XREADGROUP` and
`XACK` are external: they are modelled as the code uses them. A command may
fail after Redis has executed it (`CommandFails`).

### ResultPipeline, StatsQueries

One monitor, several workers and regions. `buffer` is each `ResultBuffer`,
`flight` the flush in progress with its next statement, `stage` the life of the
worker (`stop()` waits for the consume loop, flushes, and `main.ts` closes the
pool). `raw`, `hourly` and `daily` are the tables, `checks` and `counted` history:
every check that completed, and which ones each table contains. A check carries
the hour in which its probe began, which may be the one before. `StatsQueries` is
the SELECTs of the statistics over those tables: the window of a query, the
summary, the series of either granularity, the bars and the uptime of the list,
the panel of the workspace, and the recent checks.

### Scheduler

`line` holds the assignments with `next_check_at <= now()` in that order; the
clock is abstracted to `FallDue`. `claimDue` is two steps, `Select` (the locks of
the inner SELECT) and `Claim` (the UPDATE takes effect and commits), so that
edits and other replicas can come between. `Push` sends the jobs of one region;
`CutShort` is any error or death of a tick. `credit` is history: how many windows
have been opened and not yet dispatched or lost.

### Notifications, Connectors

| Variable | Code |
|---|---|
| `bus`, `trimmed` | the event stream and what its MAXLEN has cut off |
| `group`, `last`, `pending` | the consumer group of the notifier |
| `notifier` | each process: its place in the loop of `createEventConsumer`, its batch, and how far each event (`todo`, `failed`) and each channel of it (`sending`, `recordSent`, `recordFailed`) has got |
| `routes`, `deleted` | the enabled channels linked to the monitor; the channels deleted |
| `log` | `notification_deliveries` |
| `alerts`, `targets`, `batches`, `hit` | history: what arrived at each channel, the channels found for each event, the batches read, the events a fault has hit |

The events of a batch are handled at once and so are the channels of an event
(`Promise.allSettled` in both places): each promise is an element of a set and
its steps (`Lookup`, `Send`, `RecordSent`, `RecordFailed`) come in any order.
`Send` is the call of a connector together with the arrival of the alert:
`Connectors` says, for each type, what an exchange with its service can come to
(an alert may arrive and still be reported as failed). The next batch is read only
when all of these sets are empty (`Settled`). A faulty statement, command, stop
or crash counts against `MaxFaults`; edits of the routes and channels, between
any two steps, against `MaxEdits`. Payloads that are no JSON are not
enumerated, because the only producer is `publish`. Left out: the text of an
alert and the encryption of settings.

### LiveEvents, ApiKeys

| Variable | Code |
|---|---|
| `keys` | `api_keys`: created, expiring or not, its allowlist, revoked or expired |
| `conn` | each socket: its connection, its place in the handler of `/ws`, `alive`, and whether its listeners and timers were set up |
| `pendingAuth`, `hub` | the variables of those names, `byWorkspace` for the hub |
| `stream`, `reader` | the event stream; the broadcaster's `lastId` and the read it has under way |
| `sent`, `joined`, `early`, `base` | history: what was sent to each socket, and from where on it should have been |

`Connect`, `Verified`, `AuthTimeout` and `LateAnswer` are the branches of the
admission; `Gone` is the close listener, `Heartbeat` and `Revalidate` the two
intervals. `ClientVanishes` is a peer that is cut off without a word.
The broadcaster blocks (`Block`), delivers (`Deliver`), reads nothing, or
fails and resumes; `Restart` and `Stop` are the death and the end of the process.
An entry of an allowlist is the set of the addresses it matches, so CIDR
arithmetic is abstracted, and a list that is empty is stored as none
(`ApiKeys!create`).

### WorkspaceData, WorkspaceApi, ChannelSecrets

`WorkspaceApi` takes an HTTP request (method, row, fields of the body) through its
schema and service to a call: which columns are written, and which lists are
replaced by what. A field whose value no property looks at matters by being
there, because a PATCH without columns skips the UPDATE, and with it the lock.
`WorkspaceData` runs the calls as transactions: `life`, `group`, `slug`, `config` and
`links` are the tables; `tx` is each request's stage, its locks, and what it has
resolved, seen, deleted and inserted. Public ids are resolved first, and dropped
when they belong to another workspace; the rows may be gone, or going, when the
links are inserted, which is where foreign keys and `ON DELETE CASCADE` come in.
The pool has `pool` connections, some number of `PoolSizes`; `MonitorService.update`
asks for a second one while it holds its first, for the regions always and for tags and
channels unless it is given none (`NeedsSecond`), and gives up after the timeout.
`overlaps` marks a list that two requests replace at the same time without the lock
of the row between them (`Overlapping`): `mixed` are the lists whose last replacement was
one of those. `ChannelSecrets` is `redactConfig` and `restoreRedacted`: what a client is
shown of a credential and what a mask that comes back stands for. A URL is its visible
part and the rest; of the rests, `Unmarked` are those that `maskUrl` drops without a mask.

### Sessions

`call` holds the exchanges: the requests of each tab, and the refresh they share
(`refreshInFlight` is per tab, localStorage per browser). `stored` is localStorage,
`tokens` the table of refresh tokens, `accounts` and `workspaces` the other
tables. Every statement of `AuthService` that another request can come before is a
step: `FindActive`, `Rotate` and `IssueSession` for a refresh, `VerifyPassword`,
`ChangePassword` and `IssueSession` for a change of password, `CheckRegistration`,
`InsertAccount`, `CommitAccount` and `IssueSession` for a registration. The forms
(`LoginPage`, `RegisterPage`, `ChangePasswordCard`) and the pages behind them send
the requests; a tab that still shows the form of somebody signed out can sign in
over the session of another tab. Whether an access token has expired is found out
by each request; one that a refresh has just brought outlives the retry of
the request it was fetched for. `ResetPassword` is the command-line tool.

### Dashboard

The server is a log of versions of what the tab follows. A query of the cache has
the version it shows and the fetch under way; a page mounts queries and offers
operations; an operation's success invalidates queries, in order and each
awaited, and leads to a page. `form` is the edit form with the copy it was opened
on and the fields its user touched, `mut` the one mutation under way. The query
library is external and modelled as the pages use it. Areas of the interface are
followed one at a time: they share nothing but the browser.

## 3. The runs

All counters of faults, edits, jobs, results, moves and writes are bounded by
constants; each bound is named in the module that has it. The history is bounded
by `MaxHistory`.

| Run | Instance | Shows |
|---|---|---|
| `Eval_races` | 2 regions, 2 evaluations, 1 client (pause, resume, policy and regions, delete), crashes, counters up to 1 | `NoResultLost`: the refinement of `RegionFolds`; `AloneDerivesStatus`: the status is the quorum's, and the incident follows it, unless commits overlap |
| `Eval_serial` | 2 regions, 1 evaluation, 2 clients (policy, regions, delete), 2 policies, counters up to 2, fair | `IncidentTracksStatus`, `AnnouncementsCurrent`: exact when evaluations do not overlap and nobody pauses; `NoOrphans`: nothing outlives a delete; `OverflowKeepsTally`: an overflow loses no change of a region; `TransactionsEnd`: deadlocks occur, are resolved, and everything ends |
| `Eval_incident_race` | 2 overlapping evaluations | *violated*: `IncidentTracksStatus` |
| `Probes` | HTTP, TCP and ping jobs, valid and not, with a keyword, a certificate guard, and assertions of every source and operator nested up to four deep; 24 responses; 6 policies, histories up to 6; fair | `VerdictMatchesAnswer`; `CountersMatchHistory`, `StatusMatchesHistory`: the incremental state machine agrees with the definition over the history; `ProbesEnd` |
| `Queue` | 2 workers, 3 jobs, one malformed, pages of 2, a stream cut to 2, one fault, one stop, fair | `NoJobForgotten`, `EveryJobHandled` |
| `Pipeline` | 2 workers of one region, earlier checks of another, 3 checks over 2 days, one fault, one worker that stops, fair | `RollupsExact`: no statistic is invented, counted twice or in part; `ChartWithinSummary`: charts, bars, lists and panels agree; `ResultsLeaveBuffer`: no error leaves the flushing flag set |
| `Scheduler` | 3 assignments in 2 regions, 2 replicas, batches of 2, one fault, 2 edits, fair | `WindowsAccounted`, `NobodyStarves` |
| `Notify` | 1 notifier, 2 channels of two types, 2 events (an outage and a change nobody is alerted to, in any order and number), a stream cut to 1, one fault, one edit, fair | `AlertsInOrder`, `DeliveriesLogged`, `EveryEventSettles` |
| `Live` | 2 clients of 2 workspaces; a key that exists, and one that is made later, expires, and is limited to an address; 1 place pending, 1 per workspace, 2 events, one fault, fair | `PlacesHeld`, `NothingMissed`, `StaleSocketsDropped` |
| `Workspace` | 2 requests at a time, 3 in all, of 17 kinds over 9 rows and 2 regions, a pool of 2 or of 3 connections, fair | `LinksSound`; `ListsReplaced`: PATCHes that write the row are serialised by its lock; `CredentialsKept`; `RequestsEnd` |
| `Accounts` | a browser with two tabs, one with one; a clean install, or both signed in; 3 requests, resets or faults, 2 of them at once | `SoloSessionsHold`, `ChangeEndsOthers`, `AccountsComplete` |
| `Web` | a tab in each of seven areas, 2 writes, by the tab or others, one failed request, fair | `OwnWritesShown`, `SavesKeepTheRest`, `PolledListsCatchUp` |

Why these bounds: the races of the evaluation are between two transactions at a
time (two evaluations of one region, of two regions, or one and a request), and
a deadlock needs two; counters up to 1 already overflow. Histories of six results
hold two flips with thresholds up to two. With three jobs in
batches of two a batch is partial, one job is trimmed away while pending, and a
reclaimed page holds less than everything; with three checks a flush is in
progress while another result is buffered and a third is flushed by the other
worker, and the day changes between two of them (`HoursPerDay` is 2, the workers
start in the last hour of the first day). With three assignments and batches of
two, one assignment always waits. Two events are one batch or two;
two channels are needed for one to fail beside the other; the compose file runs
one notifier. Two sockets with one pending place and one place per workspace
collide at every limit. Two requests over two connections exhaust the pool when
each needs a second one; with a third connection two PATCHes of one monitor go on
side by side and can replace the same list, with and without the lock of its row; and
a third request finds what the first two left. The
session of a browser is lost by two exchanges that overlap; a third move is the
fault, or the change of password, that meets them. Two writes are one of the tab
and one of somebody else, in either order.
`CHECK_DEADLOCK FALSE` is set everywhere, because every instance stops at its
bounds (a deleted monitor, the last job, the last hour, the last request).

### Fairness

* Evaluations and requests: a statement is sent when the last one has returned
  (weak). A row lock that is waited for is granted in turn, because PostgreSQL
  queues the waiters of a row (strong, for the steps of `StatusEvaluation` that take a
  lock). Every deadlock is detected (weak, for *some* victim), and a request that
  waits for a connection is given one or times out (weak).
* Probes: the timers of the code fire, and the outcome is folded. Nothing makes a
  target answer.
* Queue: the loop runs on, `restart: unless-stopped` (`docker-compose.yml`)
  restarts a worker, a probe ends within its timeout, minutes pass. No fairness is given to
  enqueueing, failing, stopping or crashing.
* Flushes: the timer fires, statements return or fail. Nothing makes a check
  complete or a worker stop.
* Scheduler: the timer is armed again after every tick, statements return.
  Nothing makes an assignment fall due, and finding a row locked by an
  evaluation is a bounded fault.
* Notifier: it is restarted (`restart: unless-stopped`), its loop goes on,
  connectors time out, statements and commands return. Nothing publishes an event.
* Live events: the heartbeat and the revalidation of each socket fire. Nothing
  makes a client answer or an event arrive.
* Interface: requests end, and the interval of a polled query fires while the tab
  is in the foreground.

### What the violated run shows

`Eval_incident_race`. `lockAssignmentContext` locks only the assignment of its
own region. Two evaluations of different regions read the same old status; the
first commits `down` and opens the incident; the second, which does not see
it, decides for itself against the stale status. The monitor can end up down
without an open incident, or up with one (`docs/ARCHITECTURE.md:48`: "one row
per overall-DOWN period").

### Other divergences the models contain

No property forbids these, the modules have the behaviour.

*Checks and status*
* of two overlapping evaluations the later commit writes its own tally, so a
  monitor can stay down without a quorum until the next check;
* a monitor that is paused while it is down is resumed as `pending`, and its
  incident, resolved only on a change from `down`, stays open although it comes up;
* a check in flight when its monitor is paused replaces `paused` by what the
  tally gives (`updateMonitorAfterCheck` does not look at `enabled`);
* after 32767 equal results of a region the counter is full: each further equal result
  fails its whole evaluation, which is retried for ever and keeps nothing, neither the
  health nor the recomputed status of the monitor. A monitor whose quorum or regions are
  edited, or that is paused and resumed, in that state keeps the stale status until a
  result differs. What is dropped is only the repetition (`OverflowKeepsTally`);
* a worker that dies between the commit and the publication loses the event;
* a batch whose slowest job takes more than a minute is reclaimed from a worker
  that is alive;
* a malformed entry is logged as discarded but never acknowledged: it is
  reclaimed every minute, first in the page. When so many are pending that whole pages
  of them are idle again in every cycle, the jobs behind them are never reclaimed:
  `EveryJobHandled` is stated for fewer malformed entries than a page holds;
* `stop()` finds a flush in progress and returns at once: what was buffered behind
  that flush is lost (`worker.ts:73`: "persist whatever is left");
* a ping that nobody answers is reported as a connection error, not a timeout, and
  one that is up to 999 ms late counts as up, because `-w` takes whole seconds;
* the certificate guard always looks at port 443 and may take a second timeout;
  a JSON `null` compares as 0.

*Workspace*
* two PATCHes that replace the same list of a monitor can leave the entries of both
  whenever one of the two writes no column: only the UPDATE of the columns locks the
  row, and it is skipped when there are none (`ListsReplaced` excepts these lists);
* `maskUrl` drops user info, a fragment and a slash at the end without leaving a mask, so
  a client that sends back what it was shown loses them (`factory.ts:103` says that a
  round trip "cannot silently destroy a working credential"; for `CredentialsKept` a URL
  that comes back without a mask was typed);
* a PATCH stores a quorum without the clamping of `create`, and a change of the
  regions does not look at it: the quorum may be out of reach; a PATCH of the
  target without a config is not validated;
* `replaceAssignments` inserts rows with the default `enabled = true`: the new
  regions of a paused monitor are probed (`0001_init.sql:163`: "mirrors
  monitor.enabled");
* concurrent updates that hold every connection of the pool wait for a second one
  until they time out, ten seconds later;
* a key created with `allowedIps: []` is stored without a restriction.

*Notifications and live events*
* an event whose lookup failed, or whose notifier died, stays pending for ever:
  the group never reclaims, so its remaining alerts are not sent;
* an alert that arrived can be logged as failed, when the connector's answer is
  late or the insertion of the delivery fails;
* within a batch the alerts of a recovery and of the outage before it can arrive
  in either order;
* a socket that closes while its key is looked up is added to the hub after its
  close event: its listener never runs, and it keeps its place under the limit of
  the workspace as long as the process lives;
* events published between two blocking reads are not seen until the broadcaster has
  read its first one (`hub.ts:57`: "XREAD from `$`");
* a lookup that rejects is not caught (`app.ts:230`): the process ends;
* `DeveloperPage.tsx` tells users that revoking a key does not close a socket that is
  open; the revalidation of `app.ts:270` closes it (`docs/API.md` says so as well).

*Accounts and interface*
* two tabs that refresh at once: the one that loses clears the session the other
  has just stored;
* a login or refresh that passed its check before a change of password issues a
  session that survives it;
* no write invalidates the query of a monitor's own page, and nothing polls it: the
  badge and the button of that page can be stale, and an edit form opened within
  its ten seconds reverts one's own last save;
* an edit page whose load failed shows the form for a new monitor; a deleted group
  stays selected and its saves are refused; to deselect all regions sends nothing;
* a form reverts what others changed after the copy it was opened on;
* an answer sent before an invalidation can settle a list nobody looks at, which
  then counts as fresh.

## 4. The theorems

| Theorem | Statement |
|---|---|
| `Outcomes_proofs!CountersCorrect` | `HistorySpec => []CountersMatchHistory` |
| `Outcomes_proofs!StatusCorrect` | `HistorySpec => []StatusMatchesHistory` |
| `Outcomes_proofs!VerdictCorrect` | `ProbeSpec => []VerdictMatchesAnswer` |
| `Outcomes_proofs!ProbedHealthCorrect` | `ProbeSpec => [](CountersMatchHistory /\ StatusMatchesHistory)`, through `ProbeSpec => HistorySpec` |
| `Outcomes_proofs!PipelineTypeCorrect` | `Spec => []TypeOK`, of `ResultPipeline` |
| `Outcomes_proofs!RollupsAreExact` | `Spec => []RollupsExact` |
| `Outcomes_proofs!ChartsAgree` | `Spec => []ChartWithinSummary` |
| `StatusEvaluation_proofs!TypeCorrect` | `Spec => []TypeOK` |
| `StatusEvaluation_proofs!DeleteLeavesNothing` | `Spec => []NoOrphans` |
| `StatusEvaluation_proofs!NoResultIsLost` | `Spec => NoResultLost`, i.e. `Spec => Folds!Spec` |
| `StatusEvaluation_proofs!OverflowsTallyAlike` | `Spec => OverflowKeepsTally` |
| `StatusEvaluation_proofs!AloneIsRight` | `Spec => AloneDerivesStatus` |
| `StatusEvaluation_proofs!SerialIncidents` | `Spec /\ []OneAtATime /\ []NobodyPauses => []IncidentTracksStatus` |
| `StatusEvaluation_proofs!SerialAnnouncements` | `Spec /\ []OneJobAtATime /\ []NobodyPauses => []AnnouncementsCurrent`, without crashes |
| `CheckQueue_proofs!TypeCorrect` | `Spec => []TypeOK` |
| `CheckQueue_proofs!NoJobIsForgotten` | `Spec => []NoJobForgotten` |
| `Scheduler_proofs!TypeCorrect` | `Spec => []TypeOK` |
| `Scheduler_proofs!EveryWindowAccounted` | `Spec => []WindowsAccounted` |
| `Notifications_proofs!AlertsOnceInOrder` | `Spec => []AlertsInOrder` |
| `Notifications_proofs!DeliveriesAreLogged` | `Spec => []DeliveriesLogged` |
| `Web_proofs!TypeCorrect` | `Spec => []TypeOK` |
| `Web_proofs!PasswordChangeEndsSessions` | `Spec => []ChangeEndsOthers` |
| `Web_proofs!AccountsStayComplete` | `Spec => []AccountsComplete` |
| `Web_proofs!SoloSessionsStay` | `Spec => []SoloSessionsHold` |
| `Web_proofs!WritesAreShown` | `TabSpec => []OwnWritesShown` |
| `Web_proofs!SavesKeep` | `TabSpec => SavesKeepTheRest` |
| `LiveEvents_proofs!PlacesAreHeld` | `Spec => []PlacesHeld` |
| `LiveEvents_proofs!NothingIsMissed` | `Spec => []NothingMissed` |
| `WorkspaceData_proofs!TypeCorrect` | `Spec => []TypeOK` |
| `WorkspaceData_proofs!LinksStaySound` | `Spec => []LinksSound` |
| `WorkspaceData_proofs!ListsAreReplaced` | `Spec => []ListsReplaced` |
| `WorkspaceData_proofs!CredentialsAreKept` | `Spec => []CredentialsKept` |

They hold for any finite sets of regions, evaluations, clients, workers, replicas,
notifiers, channels, tabs, sockets and so on, for any number of jobs, events,
faults and edits, and any batch size, limit and length of a stream. What is
assumed of the constants is the named assumption of each module
(`HistoryAssumption`, `StatusAssumption`, ...), which TLC evaluates on every run.
It says that sets are finite and bounds are numbers, that the rows of a workspace
which exist at first are sound, that the checks the tables hold at first lie before
the first hour, that assertions are finite trees, and of the code that thresholds are
at most the column limit (the request schema admits 10, the column 32767).

Sums over sets of checks, selections from a stream and assertions are recursive
functions of data of any size. The induction theorems of the library take an
operator as a parameter and cannot be used; the proofs go by a smallest
counterexample instead (`WFMin`, on the naturals, on the finite subsets of a
set, on the depth of a tree).

**HealthHistory.** The status depends on the *last deciding streak*, which one
more result can only replace by itself. The invariant `HistoryInv` is
`HistoryTypeOK`, the two properties and `Settled`: a counter at its threshold has
decided the status. The lemmas `StreakAtEnd`, `DecisionsAfterCheck` and
`LastDecisionAfterCheck` say what one more result does to streaks and deciding
positions.

**Probes.** `VerdictMatchesAnswer` needs `InPhase`, how far a probe has come: a
certificate is looked at only after an acceptable response, a body is read only when a
rule or the keyword needs it. The lemma `WaysAreRight` says that a tree of assertions
holds exactly if all the rules of one of its alternatives hold, and `BodyNotNeeded` that
a tree without a rule on the body is judged alike with and without it: a claim about
trees, which follows from their depth (`FromRules`). `OperatorMeans` proves of each of the
eleven operators that it holds exactly when its rule's demand is met, and `RuleMeans` that
a rule looks at the value the response gives for its source and path; the rules of a
way are rules of the tree (`WaysOfRules`). `ProbesMakeHistory` shows that
a probe implements the history of results: `Fold` is a check, every other step a
stutter. So the theorems on the counters and the status hold of probed monitors.

**ResultPipeline.** `RollupsExact` speaks of the tables alone; `ExactInv` says what is
everywhere else. A buffer, and a flush under way, hold the statistics of
their rows (`BuffersFaithful`), the tables those of the checks counted in them
(`TablesFaithful`); no check is in two buffers or flushes (`RowsApart`); and a flush has
inserted, and counted by the hour and by the day, just what its next statement says
(`InOrder`): its rows are in no table twice, whichever statement fails and whenever the
worker dies. Underneath, `StatisticsOfUnion` says that merging the statistics of
disjoint sets of checks gives those of their union, for sums, minima and maxima
alike; `TotalUnion` is the case of a sum, in whatever order it is taken.

**StatsQueries.** From the same invariant follow the statements: `SumIsStatistics`
says that a SELECT over rows of a rollup table gives the statistics of the checks counted
in them, `ChartTotal` that the buckets of a series add up to its window,
`DailyWithinSummary` that the daily series shows no check outside the window of the
summary, `BarsAreNewest` which points the bars are, `RecentEnough` that the recent
checks are not behind the chart, and `PointIsSound` that rounding keeps an average
between the lowest and the highest time.

**StatusEvaluation.** None of the properties is inductive. The invariant
`LockInv` is the conjunction of
* `TypeOK`;
* `EvaluatorLocks`: an evaluation past the lock holds its row, the row exists,
  and the health it is about to commit is the fold of that row *as it is now*;
* `ClientLocks`: a request locks, and waits for, rows that exist; a client
  without a request holds nothing; one that writes the monitor row holds its lock;
* `DeletesCover`: every assignment there is, is locked by a running delete or on
  the list of those it has still to lock, so that none can appear behind it;
* `NothingBefore`, `RowsFresh`: nothing happens before the creation, and a region
  without an assignment is as good as new;
* `NoOrphans` itself.

There is one lemma per action (`BeginKeepsLocks` ... `DeleteKeepsLocks`), each
with one step per conjunct that the action disturbs. `NoResultLost` needs
`EvaluatorLocks` (the fold is of the current row) and `RowsFresh` (a replaced row
starts over): each action is mapped to `Fold`, to `Replace` or to a stutter.
`OverflowKeepsTally` needs a second invariant, `RowsSaturated`: a counter at the
column limit belongs to the status it confirms, because no threshold exceeds the
limit. `AloneDerivesStatus` needs a third, `AloneKnows`: an evaluation that nothing
has overlapped still knows the monitor's current status and quorum and the
tally of the committed rows.

`IncidentTracksStatus` and `AnnouncementsCurrent` do not hold of the code (the run
`Eval_incident_race`), and two theorems say what it takes: `SerialIncidents` assumes
that at no time two evaluations are between their read and their commit
(`OneAtATime`) and that nobody pauses or resumes (`NobodyPauses`);
`SerialAnnouncements` that jobs are published one by one (`OneJobAtATime`) and
that no worker dies. PATCHes, deletes, rollbacks and deadlocks may come at any point.
The invariants are `StatusKnown` (an evaluation knows the current status) and
`AnnouncedNext` (the status is the one announced or about to be published);
`StatusWriters` lists the steps that write the status or the incident.

**CheckQueue.** `NoJobForgotten` says that a delivered job is pending until it was
handled. What could break it is an acknowledgement of a job nobody handled, so the
invariant `QueueInv` adds to `TypeOK` that pending jobs were delivered
(`PendingDelivered`), that what a worker is about to acknowledge was handled, and
parses (`BatchesSound`, `HandledParsed`), and, for the second half, that as long as
nothing has failed a worker has in hand each job it owns (`OwnersAtWork`): a
worker that stops between batches then owns nothing it has handled. The lemmas on
batches (`PageHasNoGaps`, `ReadDelivers`) say what `XAUTOCLAIM` and `XREADGROUP`
deliver of a stream of any length.

**Scheduler.** `WindowsAccounted` counts the due windows of a row. The invariant
`SchedulerInv` adds `LocksHeld`: a statement between its SELECT and its UPDATE holds
the lock of each row of its batch, so that no other replica claims it and no edit
renews it. The line is a total order on the due rows, as `TypeOK` says; the lemmas
`LineWithout` and `LineGrows` show that it remains one. The set of replicas that
push the job of a row changes by one at a time, which also bounds `credit`.

**Notifications.** `NotifierInv` follows a delivery from hand to hand: batches of
different processes are disjoint and pending, and each delivery is at one step of
one process (`BatchesApart`); an event that was not looked up has no channels yet
(`TargetsSound`); what was sent is not about to be sent again, and what will be
recorded as sent did arrive (`AlertsSound`); entries name channels that exist
(`LogSound`); and a delivery that no fault has hit is either in hand, or in the log
exactly once (`DeliveriesTracked`). With one process batches follow each
other (`BatchesFollow`), which gives the order of the alerts.

**Sessions.** `SessionInv` says what an exchange refers to at each point of its
life: a request that was let in belongs to an account that exists, and a session it
carries was issued (`CallsOK`); the tables are well formed, with the two properties
(`TablesOK`); a browser stores sessions that were issued (`BrowsersOK`).
`ChangeEndsOthers` holds because a change of password ends, in one transaction,
every session of the account, and because what is issued later by a request that
read the account before it is marked `late`.
`SoloSessionsHold` needs `SoloInv` besides: no two browsers know one session (`Apart`);
in a browser without overlaps and failures one exchange at most may write the store;
what it goes by is the session the browser holds (`Uses`); and the browser holds its
session, or that exchange has just spent it and brings another or signs out
(`Holds`, `Spends`). The lemmas on `Harmless` steps say that what others do ends none
of its sessions, except for a change of password.

**LiveEvents.** `HubInv` adds to `PlacesHeld` that a socket in the phases of an
admission has the key it presented and is closed only if it was closed early
(`PhaseSound`), and that its timers run exactly while it is in the hub. A step moves
one socket: the lemma `Counting` says what that does to the counter of lookups,
`SocketChanges` what it leaves alone. `NothingMissed` is inductive once it is known
where the broadcaster's read began (`ReaderSound`): a live socket was sent what its
workspace owns of the stream from its admission, or from the base of the
stream, up to the last entry read, and one that is not in the hub nothing
(`SentSound`). `Selected` is that selection, for a stream of any length.

**Dashboard.** `OwnWritesShown` speaks of a list at rest. `CacheOK` says of every entry
that it will get there (`Honours`): its fetch under way was sent after the write, or
what it holds is as new, or its load failed or was late, or it is stale and nobody looks
at it, so that it is fetched before it is seen. While a mutation settles, each
of its lists honours the write, or is still to be invalidated; `ListsAreInvalidated` is
the check, area by area and operation by operation, that the invalidations cover the
lists. `Keeps` is what a step may do to an entry, with one lemma per operation of the
cache (`MountedKeeps`, `MissedKeeps`, `RefreshedKeeps`, ...). `SavesKeepTheRest` needs
that answers never go back, so that what a save reads from the cache is at least
as new as the form's copy (`FormOK`, `MutationOK`); a field that did not change after
a version still has its value (`UnchangedSince`).

**WorkspaceData.** `FromRoutes` first derives from the routes and schemas what calls
there are: only channels have a config, a new monitor always brings regions, who sets
the group or the config writes columns. Each part of `WorkspaceInv` then has one lemma
per action that disturbs it. `TxInv` says which locks a request has at each stage
(`Shape`) and how far it is with its lists (`ListShape`); `RowInv` what the locks
keep: the rows a request refers to, or is deleting, are there, and nobody else holds
them; `LinkInv` that two requests never delete or insert the same link. On those rest
the properties, none of which is inductive:
* `AlwaysProbed`: two requests may replace the regions of a monitor at once, each
  deleting what the other finds there already. `RegionInv` says that one region stays
  which no request deletes that inserts none (`Bare`): an INSERT waits for whoever
  has deleted or inserted one of its links, so those it finds there already will stay;
* `AddressesDistinct`: an address about to be committed is neither that of a page nor
  of another request (`SlugInv`), which the unique index sees to, not `uniqueSlug`;
* `CredentialsKept`: a PATCH that nobody overlaps will store what its masks stood for
  in the config as it is now (`ConfigInv`);
* `ListsReplaced`: two requests that have both locked the row are never replacing at the
  same time (`RowInv`), and a request that nobody overlaps has deleted, or is about to, all the
  links there are of a list, and inserts all it has found (`Replaces`).

### What is only model-checked

* The liveness properties (`TransactionsEnd`, `EveryJobHandled`, `ResultsLeaveBuffer`,
  `NobodyStarves`, `EveryEventSettles`, `StaleSocketsDropped`, `ProbesEnd`,
  `RequestsEnd`, `PolledListsCatchUp`): fairness and ENABLED are beyond the prover.
* Nothing else: each invariant and action property of the passing runs is stated by a
  theorem. Two of them hold only of some behaviours, which their theorems name:
  `IncidentTracksStatus` and `AnnouncementsCurrent`, for evaluations that do not overlap.

## 5. Not modelled

* PostgreSQL and Redis themselves, beyond the locks and commands the code uses.
* The time a job takes, intervals and timeouts: they are steps that may come at
  any point. `next_check_at` is reduced to an order.
* A job redelivered after a failed evaluation is buffered twice
  (`job-processor.ts:30`): queue, evaluation and buffer are not composed, and
  every probe is a check of its own in `ResultPipeline`.
* Partitions and their maintenance, the migrator, the seed: DDL and data written
  once, outside of any operation.
* Configuration, logging, serializers and the API's documentation (`openapi.ts`),
  which have no state; layout, charts and filters of the interface; the public
  view of a status page, the test send of a channel, and the scopes and the last use of a key,
  which change nothing the properties look at.
* The wording of alerts and the template of a webhook, hashing and encryption.

## 6. Plan

Done, in this order, the most important behaviour first: the state machine, the
evaluation, the queue, the buffer, the scheduler, the notifications; the proofs of
the first two; the gateway and its keys, the sessions, the probes, the workspace
and its pool, the statistics, the interface; the proofs of the queue, the
scheduler, the notifications, the sessions, the gateway and the workspace; those of the
buffer, the statistics, the probes, the stream of events and the interface.

Next: the composition of queue, evaluation and buffer, for redelivered jobs.
