------------------------------ MODULE Dashboard ------------------------------
(***************************************************************************)
(* One browser tab of the web interface: the pages of apps/web/src/pages   *)
(* and what they read and write through the query cache of main.tsx.  A    *)
(* page mounts queries; a query shows what its last answer held, and asks  *)
(* again when it is mounted stale, when its interval fires, or when a      *)
(* write of this tab invalidates it.  The forms copy the cached monitor    *)
(* when they open and send every field back.                               *)
(*                                                                         *)
(* The server is a log of the versions of what the tab follows, one row    *)
(* per write, by this tab or by anyone else; a field of a row holds the    *)
(* version that wrote it last.  A run follows one area of the interface at *)
(* a time, chosen at the start: areas share nothing but the browser.       *)
(*                                                                         *)
(* The cache itself (@tanstack/react-query) is external and modelled as    *)
(* the pages use it: one fetch per query, one retry of it while somebody   *)
(* looks, answers stored whoever left, and invalidation that restarts the  *)
(* fetch of a mounted query that already has data.                         *)
(***************************************************************************)
EXTENDS Integers, Sequences

CONSTANTS
  Areas,       \* the areas of the interface this instance visits
  MaxWrites,   \* bound: versions after the first one
  OthersWrite, \* the fields of a monitor other clients change
  MaxFaults    \* bound: requests that fail

ASSUME DashboardAssumption ==
  /\ Areas \subseteq {"monitors", "monitor", "history", "groups", "channels", "pages", "keys"}
  /\ OthersWrite \subseteq {"name", "regions", "hidden"}
  /\ MaxWrites \in Nat /\ MaxFaults \in Nat

VARIABLES
  area,      \* the area followed, fixed
  page,      \* the page shown, or "away": a page that mounts none of it
  log,       \* the versions of the area's data, first one at index 1
  cache,     \* query -> what it shows and the fetch it has under way
  form,      \* the edit form, or NoForm
  mut,       \* the mutation under way, or NoMut
  owed,      \* query -> version of this tab's last write it must show
  faults     \* requests that failed

tabVars == <<area, page, log, cache, form, mut, owed, faults>>

Nothing == 0                    \* no data; versions start at 1
Version == Len(log)
Row(v) == log[v]
Current == log[Len(log)]

(***************************************************************************)
(* What a page mounts, what it offers, where it leads.                     *)
(***************************************************************************)

\* The pages and the components they are made of: the queries each mounts
\* (of which a run follows some) and the operations it offers.
DashboardPage ==
  [mounts |-> {"monitors", "overview", "insights", "groups"}, offers |-> {"pause", "groupChange"}]

MonitorDetail == [mounts |-> {"checks"}, offers |-> {"pause", "remove"}]
MonitorDetailPage == [MonitorDetail EXCEPT !.mounts = @ \cup {"monitor"}]

MonitorForm == [mounts |-> {"groups", "channels"}, offers |-> {"save", "newGroup"}]
MonitorEditPage == [MonitorForm EXCEPT !.mounts = @ \cup {"monitor"}]
MonitorNewPage == [MonitorForm EXCEPT !.offers = {"create", "newGroup"}]

ChannelManager == [mounts |-> {"channels"}, offers |-> {"channelChange"}]
ChannelForm == [mounts |-> {}, offers |-> {"addChannel"}]

CreateForm == [mounts |-> {"monitors"}, offers |-> {"pageChange"}]
StatusPagesPage == [CreateForm EXCEPT !.mounts = @ \cup {"status-pages"}]

DeveloperPage == [mounts |-> {"api-keys"}, offers |-> {"createKey", "revokeKey"}]

OtherPage == [mounts |-> {}, offers |-> {}]

Routes ==
  [list |-> DashboardPage, detail |-> MonitorDetailPage, edit |-> MonitorEditPage,
   new |-> MonitorNewPage, alerts |-> ChannelManager, channelForm |-> ChannelForm,
   statusPages |-> StatusPagesPage, developers |-> DeveloperPage, away |-> OtherPage]

Shown(q) == q \in Routes[page].mounts

\* The areas: the pages, queries and operations a run follows together.
Area ==
  [monitors |-> [pages   |-> {"list", "detail", "new"},
                 queries |-> {"monitors", "overview"},
                 ops     |-> {"create", "pause", "remove"}],
   monitor  |-> [pages   |-> {"list", "detail", "edit"},
                 queries |-> {"monitor"},
                 ops     |-> {"save", "pause", "remove"}],
   history  |-> [pages   |-> {"list", "detail"},
                 queries |-> {"insights", "checks"},
                 ops     |-> {}],
   groups   |-> [pages   |-> {"list", "new"},
                 queries |-> {"groups", "monitors"},
                 ops     |-> {"groupChange", "newGroup"}],
   channels |-> [pages   |-> {"alerts", "channelForm"},
                 queries |-> {"channels"},
                 ops     |-> {"addChannel", "channelChange"}],
   pages    |-> [pages   |-> {"statusPages", "away"},
                 queries |-> {"status-pages"},
                 ops     |-> {"pageChange"}],
   keys     |-> [pages   |-> {"developers", "away"},
                 queries |-> {"api-keys"},
                 ops     |-> {"createKey", "revokeKey"}]]

Followed == Area[area].queries

\* The queries with a refetchInterval.
Polled == {"monitors", "overview", "insights", "checks"}

\* The monitor's own endpoints: they answer 404 once it is deleted.
OfOneMonitor == {"monitor", "checks"}

\* The operations: the queries a success invalidates, in order and each
\* awaited, and the page the user lands on then.
SaveMonitor(to) == [inv |-> <<"monitors", "overview">>, to |-> to]
TogglePause == [inv |-> <<"monitors", "overview">>, to |-> "stay"]
RemoveMonitor == [inv |-> <<"monitors", "overview">>, to |-> "list"]
ChangeGroup == [inv |-> <<"groups", "monitors">>, to |-> "stay"]
NewGroup == [inv |-> <<"groups">>, to |-> "stay"]
AddChannel == [inv |-> <<"channels">>, to |-> "alerts"]
ChangeChannel == [inv |-> <<"channels">>, to |-> "stay"]
ChangePage == [inv |-> <<"status-pages">>, to |-> "stay"]
CreateKey == [inv |-> <<"api-keys">>, to |-> "stay"]
RevokeKey == [inv |-> <<"api-keys">>, to |-> "stay"]

Operations ==
  [create |-> SaveMonitor("list"), save |-> SaveMonitor("detail"), pause |-> TogglePause,
   remove |-> RemoveMonitor, groupChange |-> ChangeGroup, newGroup |-> NewGroup,
   addChannel |-> AddChannel, channelChange |-> ChangeChannel, pageChange |-> ChangePage,
   createKey |-> CreateKey, revokeKey |-> RevokeKey]

\* Mutation: only the first list is invalidated.
FirstInvalidated(op) == <<Head(Operations[op].inv)>>

Invalidated(op) == Operations[op].inv

(***************************************************************************)
(* The query cache.                                                        *)
(***************************************************************************)

\* An entry: the version shown, and of the fetch under way the version there
\* was when it was sent; "late" when a write settled since, and nothing
\* restarted it.
Empty == [v |-> Nothing, stale |-> TRUE, failed |-> FALSE,
          since |-> Nothing, tried |-> FALSE, late |-> FALSE]

NoFetch(q) == cache[q].since = Nothing

Loading(e) == [e EXCEPT !.since = Version, !.tried = FALSE, !.late = FALSE]

\* An observer appears: it loads what is missing or stale.
Mounted(e) == IF e.since = Nothing /\ e.stale THEN Loading(e) ELSE e

\* invalidateQueries: the entry is stale; a mounted query fetches again, and
\* drops the fetch it had under way unless that is its first load.
Refreshed(q, e) ==
  LET old == [e EXCEPT !.stale = TRUE, !.late = @ \/ e.since # Nothing]
  IN IF Shown(q) /\ (e.since = Nothing \/ e.v # Nothing) THEN Loading(old) ELSE old

\* An attempt fails: once more if somebody still looks, then an error over
\* the data the query already has.
Missed(q, e) ==
  IF ~e.tried /\ Shown(q)
  THEN [e EXCEPT !.since = Version, !.tried = TRUE]
  ELSE [e EXCEPT !.since = Nothing, !.tried = FALSE, !.failed = TRUE]

NoForm == [open |-> FALSE, base |-> Nothing, touched |-> {}, emptied |-> FALSE]

\* The form of the edit page mounts once its query is no longer loading, and
\* its fields start from the data there is: none, if the load failed.
Opened(base) == [NoForm EXCEPT !.open = TRUE, !.base = base]

FormAfter(q, e) ==
  IF q = "monitor" /\ page = "edit" /\ ~form.open /\ e.since = Nothing
  THEN Opened(e.v) ELSE form

\* The answer: what the server held at some moment since the request.
Arrive(q) ==
  /\ q \in Followed /\ ~NoFetch(q)
  /\ \E v \in cache[q].since .. Version :
       LET e == [Empty EXCEPT !.v = v, !.stale = FALSE, !.late = cache[q].late]
       IN /\ q \in OfOneMonitor => Row(v).alive
          /\ cache' = [cache EXCEPT ![q] = e]
          /\ form' = FormAfter(q, e)
  /\ UNCHANGED <<area, page, log, mut, owed, faults>>

Miss(q) ==
  LET e == Missed(q, cache[q])
  IN cache' = [cache EXCEPT ![q] = e] /\ form' = FormAfter(q, e)

\* 404: the monitor is gone.
NotFound(q) ==
  /\ q \in Followed \cap OfOneMonitor /\ ~NoFetch(q)
  /\ ~Current.alive
  /\ Miss(q)
  /\ UNCHANGED <<area, page, log, mut, owed, faults>>

LoseFetch(q) ==
  /\ q \in Followed /\ ~NoFetch(q)
  /\ faults < MaxFaults
  /\ Miss(q)
  /\ faults' = faults + 1
  /\ UNCHANGED <<area, page, log, mut, owed>>

\* Mutation: the interval stops at the first error.
TickUntilAnError(q) ==
  /\ q \in Followed \cap Polled
  /\ Shown(q) /\ NoFetch(q) /\ ~cache[q].failed
  /\ cache' = [cache EXCEPT ![q] = Loading(@)]
  /\ UNCHANGED <<area, page, log, form, mut, owed, faults>>

\* refetchInterval, while the page is shown.
Tick(q) ==
  /\ q \in Followed \cap Polled
  /\ Shown(q) /\ NoFetch(q)
  /\ cache' = [cache EXCEPT ![q] = Loading(@)]
  /\ UNCHANGED <<area, page, log, form, mut, owed, faults>>

\* staleTime passes.
Age(q) ==
  /\ q \in Followed
  /\ ~cache[q].stale
  /\ cache' = [cache EXCEPT ![q].stale = TRUE]
  /\ UNCHANGED <<area, page, log, form, mut, owed, faults>>

(***************************************************************************)
(* Navigation.                                                             *)
(***************************************************************************)

GoTo(p) ==
  /\ page' = p
  /\ cache' = [q \in Followed |->
                 IF p # page /\ q \in Routes[p].mounts THEN Mounted(cache[q]) ELSE cache[q]]
  /\ form' = IF p # "edit" THEN NoForm
             ELSE IF page = "edit" THEN form
             ELSE IF area = "monitor" /\ cache["monitor"].v # Nothing THEN Opened(cache["monitor"].v)
             ELSE NoForm

\* The way there: a form is opened from the page before it, which has data.
Reachable(p) ==
  CASE p = "edit"   -> page = "detail" /\ (area = "monitor" => cache["monitor"].v # Nothing)
    [] p = "detail" -> page \in {"list", "edit"}
    [] p = "new"    -> page = "list"
    [] p = "channelForm" -> page = "alerts"
    [] OTHER        -> TRUE

Go(p) ==
  /\ p \in Area[area].pages /\ p # page
  /\ Reachable(p)
  /\ GoTo(p)
  /\ UNCHANGED <<area, log, mut, owed, faults>>

\* A browser reload on the edit page: it starts with an empty cache.
Reload ==
  /\ area = "monitor" /\ page = "edit" /\ mut.op = "none"
  /\ form' = NoForm
  /\ cache' = [q \in Followed |-> IF Shown(q) THEN Loading(Empty) ELSE Empty]
  /\ owed' = [q \in Followed |-> Nothing]
  /\ UNCHANGED <<area, page, log, mut, faults>>

(***************************************************************************)
(* Writing.                                                                *)
(***************************************************************************)

Fields == {"name", "regions"}

Edit(f) ==
  /\ form.open /\ mut.op = "none"
  /\ \E none \in BOOLEAN :
       /\ none => f = "regions"
       /\ form' = [form EXCEPT !.touched = @ \cup {f},
                               !.emptied = IF f = "regions" THEN none ELSE @]
  /\ form' # form
  /\ UNCHANGED <<area, page, log, cache, mut, owed, faults>>

\* What a button sends: the form's copy and the configuration of the query's
\* present data, or the opposite of the state the row shows.
NoMut == [op |-> "none", phase |-> "idle", v |-> Nothing, form |-> NoForm,
          prop |-> Nothing, paused |-> FALSE, rest |-> <<>>, wait |-> {}]

Submit(op) ==
  /\ op \in Area[area].ops \cap Routes[page].offers
  /\ mut.op = "none"
  /\ IF area # "monitor" THEN mut' = [NoMut EXCEPT !.op = op, !.phase = "sent"]
     ELSE LET shows == cache["monitor"].v
          IN /\ page \in {"detail", "edit"}
             /\ IF op = "save" THEN form.open ELSE shows # Nothing
             /\ mut' = [NoMut EXCEPT
                         !.op = op, !.phase = "sent", !.form = form, !.prop = shows,
                         !.paused = op = "pause" /\ ~Row(shows).paused]
  /\ UNCHANGED <<area, page, log, cache, form, owed, faults>>

\* The row a save leaves: every field of the form as the form holds it, no
\* regions if none is selected, and the configuration with the keys the form
\* does not show.  A form without data creates another monitor.
\* Mutation: the configuration is built from the form's fields alone.
ConfigOfTheForm == Nothing

ConfigSent == Row(mut.prop).hidden

Saved ==
  LET n == Version + 1
      base == mut.form.base
      sent(f) == IF f \in mut.form.touched THEN n ELSE Row(base)[f]
  IN IF base = Nothing THEN Current
     ELSE [Current EXCEPT
            !.name = sent("name"),
            !.regions = IF mut.form.emptied THEN @ ELSE sent("regions"),
            !.hidden = ConfigSent]

Written ==
  IF area # "monitor" THEN Current
  ELSE CASE mut.op = "save"   -> Saved
         [] mut.op = "pause"  -> [Current EXCEPT !.paused = mut.paused]
         [] mut.op = "remove" -> [Current EXCEPT !.alive = FALSE]

\* A request about a monitor that is gone answers 404.
Gone ==
  /\ ~Current.alive
  /\ mut.op = "save" => mut.form.base # Nothing

Answered(phase) == [mut EXCEPT !.phase = phase, !.form = NoForm, !.prop = Nothing, !.paused = FALSE]

\* The server carries the write out, and the answer may be lost; or it never
\* does: the request is lost, or the monitor is gone.
Execute ==
  /\ mut.phase = "sent"
  /\ ~Gone
  /\ Version <= MaxWrites
  /\ log' = Append(log, Written)
  /\ \/ mut' = [Answered("done") EXCEPT !.v = Version + 1] /\ UNCHANGED faults
     \/ /\ faults < MaxFaults /\ faults' = faults + 1
        /\ mut' = [Answered("failed") EXCEPT !.v = Version + 1]
  /\ UNCHANGED <<area, page, cache, form, owed>>

Refuse ==
  /\ mut.phase = "sent"
  /\ mut' = Answered("failed")
  /\ \/ Gone /\ UNCHANGED faults
     \/ faults < MaxFaults /\ faults' = faults + 1
  /\ UNCHANGED <<area, page, log, cache, form, owed>>

\* The answer: success invalidates; an error is shown and nothing else, but
\* revoking a key invalidates either way.
Settles == mut.phase = "done" \/ mut.op = "revokeKey"

Settle ==
  /\ mut.phase \in {"done", "failed"}
  /\ mut' = IF Settles
            THEN [mut EXCEPT !.phase = "settling", !.rest = Invalidated(mut.op)]
            ELSE NoMut
  /\ UNCHANGED <<area, page, log, cache, form, owed, faults>>

\* One invalidation: it waits for the refetch of the one before.  Of a query that is not
\* followed nothing is known.
Invalidate ==
  /\ mut.phase = "settling" /\ mut.rest # <<>>
  /\ \A q \in mut.wait : NoFetch(q)
  /\ LET q == Head(mut.rest)
     IN /\ cache' = IF q \in Followed THEN [cache EXCEPT ![q] = Refreshed(q, @)] ELSE cache
        /\ mut' = [mut EXCEPT !.rest = Tail(@), !.wait = {q} \cap Followed]
  /\ UNCHANGED <<area, page, log, form, owed, faults>>

\* The lists an operation's writes appear in: the area's queries but the
\* monitor's own; a group created in the form has no monitor yet.
Lists(op) == IF op = "newGroup" THEN {"groups"} ELSE Followed \ OfOneMonitor

\* The mutation's last step: the page moves on, whatever page it is by now.
\* Only the channel form moves on without waiting for the refetch.
Land ==
  /\ mut.phase = "settling" /\ mut.rest = <<>>
  /\ mut.op # "addChannel" => \A q \in mut.wait : NoFetch(q)
  /\ owed' = [q \in Followed |->
                IF q \in Lists(mut.op) /\ mut.v # Nothing THEN mut.v ELSE owed[q]]
  /\ mut' = NoMut
  /\ IF Operations[mut.op].to = "stay" THEN UNCHANGED <<page, cache, form>>
     ELSE GoTo(Operations[mut.op].to)
  /\ UNCHANGED <<area, log, faults>>

\* Another client, or a check, changes what the area shows.
Elsewhere ==
  /\ Version <= MaxWrites
  /\ Current.alive
  /\ \/ area # "monitor" /\ log' = Append(log, Current)
     \/ /\ area = "monitor"
        /\ \E f \in OthersWrite : log' = Append(log, [Current EXCEPT ![f] = Version + 1])
     \/ /\ area \in {"monitor", "history"}
        /\ log' = Append(log, [Current EXCEPT !.alive = FALSE])
  /\ UNCHANGED <<area, page, cache, form, mut, owed, faults>>

TabInit ==
  /\ area \in Areas
  /\ page \in {"list", "alerts", "away"} \cap Area[area].pages
  /\ log = <<[name |-> 1, regions |-> 1, hidden |-> 1, paused |-> FALSE, alive |-> TRUE]>>
  /\ cache = [q \in Followed |-> IF Shown(q) THEN Loading(Empty) ELSE Empty]
  /\ form = NoForm
  /\ mut = NoMut
  /\ owed = [q \in Followed |-> Nothing]
  /\ faults = 0

Queries == UNION {Area[a].queries : a \in DOMAIN Area}

TabNext ==
  \/ \E q \in Queries : Arrive(q) \/ NotFound(q) \/ LoseFetch(q)
                          \/ Tick(q) \/ Age(q)
  \/ \E p \in DOMAIN Routes : Go(p)
  \/ Reload
  \/ \E f \in Fields : Edit(f)
  \/ \E op \in DOMAIN Operations : Submit(op)
  \/ Execute \/ Refuse \/ Settle \/ Invalidate \/ Land
  \/ Elsewhere

TabSpec == TabInit /\ [][TabNext]_tabVars

\* The browser's timers fire and requests end, in an answer or a failure.
Fairness ==
  \A q \in Queries : WF_tabVars(Arrive(q)) /\ WF_tabVars(NotFound(q)) /\ WF_tabVars(Tick(q))

FairTabSpec == TabSpec /\ Fairness

(***************************************************************************)
(* Properties                                                              *)
(***************************************************************************)

\* A write of this tab that has settled is in every list it concerns: a list
\* that is shown, loaded and not being loaded again holds it, unless its last
\* load failed, or an older load was under way that nothing could restart
\* (nobody was looking at the list, or it was its first load).  The
\* invalidations of every mutation are about it, their order, what they do to
\* a list that is not on screen, and which mutations invalidate when they
\* fail.
OwnWritesShown ==
  \A q \in Followed :
    Shown(q) /\ NoFetch(q) /\ ~cache[q].failed =>
      cache[q].v >= owed[q] \/ cache[q].late

\* Did the field of the monitor change after version v?
ChangedAfter(v, f) == \E n \in (v + 1)..Version : Row(n)[f] # Row(n - 1)[f]

\* Saving a form changes a field its user did not touch only if somebody
\* changed that field after the copy the form was sending was read; the
\* configuration keys the form does not show are those of the freshest copy,
\* which is never older than the form's; and a save never changes whether the
\* monitor runs.
KeptBySave(now) ==
  /\ \A f \in Fields \ mut.form.touched :
       now[f] = Current[f] \/ ChangedAfter(mut.form.base, f)
  /\ mut.prop >= mut.form.base
  /\ now.hidden = Current.hidden \/ ChangedAfter(mut.prop, "hidden")
  /\ now.paused = Current.paused /\ now.alive = Current.alive

SavesKeepTheRest ==
  [][/\ area = "monitor" /\ mut.op = "save" /\ mut.phase = "sent"
     /\ mut'.v # Nothing /\ mut.form.base # Nothing
     => KeptBySave(log'[Len(log')])]_tabVars

\* A polled list that stays on screen catches up with the server, whatever
\* this tab or anybody else wrote and whatever requests failed.
PolledListsCatchUp ==
  \A q \in Polled :
    <>[](q \in Followed /\ Shown(q)) =>
      <>[](q \in Followed => cache[q].v = Version \/ (q \in OfOneMonitor /\ ~Current.alive))
=============================================================================
