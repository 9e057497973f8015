---------------------------- MODULE WorkspaceData ----------------------------
(***************************************************************************)
(* What the API keeps for a workspace: monitors, groups, tags, channels,   *)
(* status pages and the links between them.  Every request is a READ       *)
(* COMMITTED transaction, or one statement: its writes are applied at its  *)
(* commit step, and what stands between are its locks and what it has read *)
(* before.  Where the code resolves public ids it drops those of another   *)
(* workspace; the foreign keys catch those that are deleted afterwards.    *)
(*                                                                         *)
(* The order of the monitors of a page, and the columns that only one      *)
(* request writes, are left out.                                           *)
(***************************************************************************)
EXTENDS Naturals, FiniteSets, ChannelSecrets, WorkspaceApi

CONSTANTS
  Requests,       \* API requests being served at the same time
  Objects,        \* public ids of rows, and the probe regions
  KindOf,         \* the table each of them is in
  WorkspaceOf,    \* the workspace each belongs to; Shared for the regions
  Shared,
  DefaultRegion,  \* the first enabled region
  Preset,         \* the objects that exist at first
  PresetLinks,    \* and the links between them
  PresetConfig,   \* the config of every channel at first
  Slugs,          \* the addresses of status pages
  Sent,           \* the HTTP requests tried
  NoCall,
  PoolSizes,      \* how many connections the pool may have (PGPOOL_MAX)
  MaxCalls        \* bound on the number of requests

Kinds == {"monitor", "group", "tag", "channel", "page", "region"}
Having(kind) == {o \in Objects : KindOf[o] = kind}

\* The link tables of a row, and the one of those left that a request replaces next.
ListsOf(kind) ==
  CASE kind = "monitor" -> {"region", "tag", "channel"}
    [] kind = "page"    -> {"monitor"}
    [] OTHER            -> {}

NextList(left) ==
  IF "region" \in left THEN "region" ELSE IF "tag" \in left THEN "tag" ELSE CHOOSE kind \in left : TRUE

\* The call that a request comes to.
Call(lists) ==
  [op: {"create", "patch", "delete"}, id: Objects, columns: BOOLEAN,
   group: Having("group") \cup {NoGroup, Keep}, slug: Slugs \cup {Keep},
   config: Config \cup {Keep}, lists: [lists -> SUBSET Objects]]

Calls == UNION {Handle(q, KindOf[q.id]) : q \in Sent}

ASSUME WorkspaceAssumption ==
  /\ IsFiniteSet(Requests) /\ IsFiniteSet(Objects)
  /\ KindOf \in [Objects -> Kinds]
  /\ \A o \in Objects : KindOf[o] = "region" <=> WorkspaceOf[o] = Shared
  /\ Preset \subseteq Objects /\ Having("region") \subseteq Preset
  /\ DefaultRegion \in Having("region")
  /\ PresetLinks \subseteq Preset \X Preset
  /\ \A l \in PresetLinks : WorkspaceOf[l[2]] \in {WorkspaceOf[l[1]], Shared}
  /\ \A m \in Having("monitor") \cap Preset : \E o \in Having("region") : <<m, o>> \in PresetLinks
  /\ Injection(Having("page"), Slugs) # {}
  /\ PresetConfig \in [Having("channel") -> Config]
  /\ NoCall \notin Calls
  /\ \A q \in Sent : Cardinality(Handle(q, KindOf[q.id])) \in {0, 1}
  /\ \A c \in Calls :
       /\ c \in Call(DOMAIN c.lists)
       /\ c.op = "create" /\ KindOf[c.id] = "page" => c.slug # Keep
  /\ NoGroup \notin Objects /\ Keep \notin Objects \cup Slugs \cup Config \cup {NoGroup}
  /\ PoolSizes \subseteq Nat \ {0} /\ MaxCalls \in Nat

VARIABLES
  life,     \* whether each row exists: ids are never used again
  group,    \* the group of each monitor
  slug,     \* the address of each status page
  config,   \* the config of each channel
  links,    \* the rows of monitor_assignments, monitor_tags, monitor_notifications
            \* and status_page_monitors: <<owner, target>>
  tx,       \* what each request is doing
  pool,     \* how many connections the pool has
  calls,    \* how many requests were started
  asked,    \* history: what the last request that replaced a list has found
  mixed,    \* history: the lists whose last replacement another overlapped, unserialised
  typed     \* history: the credentials that a client has typed last

tables == <<life, group, slug, config, links>>
vars == <<tables, tx, calls, asked, mixed, typed>>

-----------------------------------------------------------------------------
(* Rows, transactions and locks.                                           *)

Live == {o \in Objects : life[o] = "live"}

\* lock: the rows it has written, or deletes; shared: those that a foreign key of a row
\* it inserted holds; seen, gone, new: what its statements on links saw, deleted and
\* inserted; done: the kinds it has begun to replace; overlaps: those of them that
\* another request was replacing too, without the row's lock between the two.
Idle == [stage |-> "idle", call |-> NoCall, left |-> {}, slug |-> Keep, config |-> Keep,
         found |-> {}, seen |-> {}, gone |-> {}, new |-> {}, lock |-> {}, shared |-> {},
         done |-> [k \in {} |-> {}], overlaps |-> {}]

Stages == {"idle", "connect", "row", "list", "clear", "insert", "commit", "cascade"}

At(r, stage) == tx[r].stage = stage
Id(r) == tx[r].call.id
Others(r) == {s \in Requests \ {r} : ~At(s, "idle")}
Deletes(s) == tx[s].call.op = "delete"

\* The requests that hold a connection.
Connected == {r \in Requests : tx[r].stage \notin {"idle", "connect"}}

\* update resolves ids through the pool, not through its transaction.
\* For no tags, or no channels, it needs no query.
NeedsSecond(r) ==
  /\ At(r, "list") /\ tx[r].call.op = "patch" /\ KindOf[Id(r)] = "monitor"
  /\ LET kind == NextList(tx[r].left) IN kind = "region" \/ tx[r].call.lists[kind] # {}
NeedsConnection(r) == At(r, "connect") \/ NeedsSecond(r)
Free == Cardinality(Connected) < pool

\* Whom a foreign key check on o waits for.
Deleting(r, o) == {s \in Others(r) : Deletes(s) /\ o \in tx[s].lock}

Links(o, kind) == {l \in links : l[1] = o /\ KindOf[l[2]] = kind}
LinksWith(o) == {l \in links : o \in {l[1], l[2]}}
Grouped(g) == {m \in Having("monitor") : group[m] = g}

\* An index entry that another transaction has written and not committed.
Claiming(r) ==
  {s \in Others(r) : tx[r].slug # Keep /\ Id(s) # Id(r) /\ Id(s) \in tx[s].lock
                     /\ tx[s].slug = tx[r].slug}

\* Mutation: nobody waits for the lock of a row.
NoLockers(r) == {}

\* The requests that have written the row that r writes, or delete it.
Lockers(r) == {s \in Others(r) : Id(r) \in tx[s].lock}

\* Whom the next statement of r waits for.
Blockers(r) ==
  LET t == tx[r]
      c == t.call IN
  CASE t.stage = "row" /\ c.op = "delete" -> {s \in Others(r) : Id(r) \in tx[s].lock \cup tx[s].shared}
    [] t.stage = "row" /\ c.op # "delete" /\ c.columns ->
         Lockers(r) \cup Deleting(r, c.group) \cup Claiming(r)
    [] t.stage = "clear" -> {s \in Others(r) : tx[s].gone \cap t.seen # {}}
    [] t.stage = "insert" ->
         {s \in Others(r) : \/ Deletes(s) /\ tx[s].lock \cap (t.found \cup {Id(r)}) # {}
                            \/ ({Id(r)} \X t.found) \cap (tx[s].gone \cup tx[s].new) # {}}
    [] t.stage = "cascade" ->
         {s \in Others(r) : tx[s].gone \cap LinksWith(Id(r)) # {}
                            \/ tx[s].lock \cap Grouped(Id(r)) # {}}
    [] OTHER -> {}

\* The request ends.  A link that it deletes for good is no longer there for a statement
\* of another request that saw it.
EndingWith(r, gone) ==
  tx' = [s \in Requests |-> IF s = r THEN Idle ELSE [tx[s] EXCEPT !.seen = @ \ gone]]

\* ROLLBACK: nothing that the request wrote was visible.
Fail(r) == EndingWith(r, {}) /\ UNCHANGED <<tables, calls, asked, mixed, typed>>

Advance(r, with) ==
  /\ tx' = [tx EXCEPT ![r] = with]
  /\ UNCHANGED <<tables, calls, asked, mixed, typed>>

-----------------------------------------------------------------------------
(* What a request finds.                                                   *)

\* The ids of the list that are rows of the workspace.
resolveInternalIds(c, kind) ==
  {o \in c.lists[kind] \cap Live : KindOf[o] = kind /\ WorkspaceOf[o] = WorkspaceOf[c.id]}

resolveMonitors(c) == resolveInternalIds(c, "monitor")
resolveTags(c) == resolveInternalIds(c, "tag")
resolveChannels(c) == resolveInternalIds(c, "channel")

\* The enabled ones, or else the first that is enabled.
resolveRegions(c) ==
  LET own == c.lists["region"] \cap Having("region") IN
  IF own = {} THEN {DefaultRegion} ELSE own

\* Mutation: ids are looked up in every workspace.
FoundAnywhere(c, kind) == {o \in c.lists[kind] \cap Live : KindOf[o] = kind}

\* Mutation: an id that is not found leaves a hole in the list.
FoundOrNull(c, kind) ==
  {IF o \in Live /\ WorkspaceOf[o] \in {WorkspaceOf[c.id], Shared} THEN o ELSE NoGroup : o \in c.lists[kind]}

Found(c, kind) ==
  CASE kind = "region"  -> resolveRegions(c)
    [] kind = "tag"     -> resolveTags(c)
    [] kind = "channel" -> resolveChannels(c)
    [] kind = "monitor" -> resolveMonitors(c)

\* uniqueSlug: the address asked for, if it is free; otherwise one with a suffix, and
\* after five of those that are taken, one that is not looked up.
uniqueSlug(c) ==
  IF \A p \in Having("page") \cap Live : slug[p] = c.slug => p = c.id
  THEN {c.slug} ELSE Slugs \ {c.slug}

\* Groups of another workspace, and groups that do not exist, are refused.
GroupFound(c) ==
  c.group \in Objects => c.group \in Live /\ WorkspaceOf[c.group] = WorkspaceOf[c.id]

\* The lists that the body has.
Lists(c) == ListsOf(KindOf[c.id]) \cap DOMAIN c.lists

\* newId, or the name of a tag.
Creatable(r, id) ==
  \/ life[id] = "unborn" /\ \A s \in Others(r) : Id(s) # id
  \/ life[id] # "deleted" /\ KindOf[id] = "tag"

\* Only an address other than the one the page has is looked up, and written.
SlugOf(c) ==
  IF c.slug = Keep \/ (c.op = "patch" /\ slug[c.id] = c.slug) THEN {Keep} ELSE uniqueSlug(c)

\* The handler reads what it needs before it writes: a PATCH the row it is about, the
\* address of a page, the stored config; the creation of a monitor its lists.
Start(r, c) ==
  LET edits == c.op = "patch" /\ c.config # Keep
      mates == {s \in Others(r) : edits /\ Id(s) = c.id /\ tx[s].config # Keep} IN
  /\ At(r, "idle") /\ Free
  /\ IF c.op = "create" THEN Creatable(r, c.id) ELSE c.id \in Live
  /\ GroupFound(c)
  /\ \E address \in SlugOf(c) :
       tx' = [s \in Requests |->
         IF s = r
         THEN [Idle EXCEPT !.stage = "connect", !.left = Lists(c), !.slug = address,
                 !.config = IF edits THEN restoreRedacted(c.config, config[c.id]) ELSE c.config,
                 !.overlaps = IF mates = {} THEN {} ELSE {"config"},
                 !.call = IF c.op = "create" /\ KindOf[c.id] = "monitor"
                          THEN [c EXCEPT !.lists = [k \in DOMAIN c.lists |-> Found(c, k)]]
                          ELSE [c EXCEPT !.columns = @ \/ address # Keep]]
         ELSE IF s \in mates THEN [tx[s] EXCEPT !.overlaps = @ \cup {"config"}]
         ELSE tx[s]]
  /\ calls' = calls + 1
  /\ UNCHANGED <<tables, asked, mixed, typed>>

\* BEGIN, or the single statement, gets a connection.
Connect(r) ==
  /\ At(r, "connect") /\ Free
  /\ Advance(r, [tx[r] EXCEPT !.stage = "row"])

-----------------------------------------------------------------------------
(* The statements of a creation or a PATCH.                                *)

After(left) == IF left = {} THEN "commit" ELSE "list"

SlugTaken(r) == \E p \in Having("page") \cap Live : p # Id(r) /\ slug[p] = tx[r].slug

\* The row is gone (only the update of a page does not mind), the group is, or the
\* address is taken by now.
RowRefused(r) ==
  LET c == tx[r].call IN
  \/ c.op = "patch" /\ Id(r) \notin Live /\ KindOf[Id(r)] # "page"
  \/ c.group \in Objects \ Live
  \/ SlugTaken(r)

\* INSERT, or the UPDATE of the columns that the body has, if any.
WriteRow(r) ==
  LET c == tx[r].call
      written == c.columns /\ (c.op = "create" \/ Id(r) \in Live) IN
  /\ At(r, "row") /\ ~Deletes(r) /\ Blockers(r) = {} /\ ~RowRefused(r)
  /\ Advance(r, [tx[r] EXCEPT !.stage = After(tx[r].left),
                              !.lock = IF written THEN {Id(r)} ELSE {},
                              !.shared = {c.group} \cap Objects])

RowFails(r) ==
  /\ At(r, "row") /\ ~Deletes(r) /\ Blockers(r) = {} /\ RowRefused(r)
  /\ Fail(r)

\* The requests that are replacing the same list and are not serialised with r: either
\* has written no column of the row, and so has not locked it.
Overlapping(r, kind) ==
  {s \in Others(r) : /\ Id(s) = Id(r) /\ kind \in DOMAIN tx[s].done
                     /\ Id(r) \notin tx[r].lock \cap tx[s].lock}

\* replaceAssignments, replaceTags, replaceChannels and setMonitors, for the next list:
\* its ids are resolved, and the DELETE sees the links that are there now.  A monitor
\* that is gone is left alone.
BeginList(r) ==
  LET t == tx[r]
      kind == NextList(t.left)
      left == t.left \ {kind}
      found == IF t.call.op = "create" /\ KindOf[Id(r)] = "monitor"
               THEN t.call.lists[kind] ELSE Found(t.call, kind)
      gone == t.call.op = "patch" /\ KindOf[Id(r)] = "monitor" /\ Id(r) \notin Live
      mates == Overlapping(r, kind) IN
  /\ At(r, "list") /\ (NeedsSecond(r) => Free)
  /\ IF gone THEN tx' = [tx EXCEPT ![r].left = left, ![r].stage = After(left)]
     ELSE tx' = [s \in Requests |->
            IF s = r THEN [t EXCEPT !.stage = "clear", !.found = found,
                                    !.seen = Links(Id(r), kind),
                                    !.done = [k \in DOMAIN @ \cup {kind} |->
                                                IF k = kind THEN found ELSE @[k]],
                                    !.overlaps = IF mates = {} THEN @ ELSE @ \cup {kind}]
            ELSE IF s \in mates THEN [tx[s] EXCEPT !.overlaps = @ \cup {kind}]
            ELSE tx[s]]
  /\ UNCHANGED <<tables, calls, asked, mixed, typed>>

Cleared(r) == tx[r].seen \cap links

\* The DELETE has the locks of the rows it saw; those deleted meanwhile it skips.
Clear(r) ==
  LET left == tx[r].left \ {NextList(tx[r].left)} IN
  /\ At(r, "clear") /\ Blockers(r) = {}
  /\ Advance(r, IF tx[r].found = {}
                THEN [tx[r] EXCEPT !.gone = @ \cup Cleared(r), !.seen = {}, !.left = left,
                                   !.stage = After(left)]
                ELSE [tx[r] EXCEPT !.gone = @ \cup Cleared(r), !.seen = {}, !.stage = "insert"])

\* A foreign key of an inserted link: its owner or its target was deleted.
LinkRefused(r) ==
  \E o \in tx[r].found \cup {Id(r)} : o \notin Live /\ ~(o = Id(r) /\ tx[r].call.op = "create")

\* INSERT ... ON CONFLICT DO NOTHING.
InsertLinks(r) ==
  LET t == tx[r]
      left == t.left \ {NextList(t.left)} IN
  /\ At(r, "insert") /\ Blockers(r) = {} /\ ~LinkRefused(r)
  /\ Advance(r, [t EXCEPT !.new = @ \cup (({Id(r)} \X t.found) \ (links \ t.gone)),
                          !.shared = @ \cup t.found \cup {Id(r)},
                          !.left = left, !.stage = After(left)])

InsertFails(r) ==
  /\ At(r, "insert") /\ Blockers(r) = {} /\ LinkRefused(r)
  /\ Fail(r)

\* What clients have typed of the credentials; a mask is what they left as it was.  Of
\* two PATCHes that overlap, what is stored counts as typed.
Typed(r) ==
  LET sent == tx[r].call.config
      before == typed[Id(r)]
  IN IF tx[r].call.op = "create" \/ "config" \in tx[r].overlaps THEN tx[r].config
     ELSE [url    |-> IF sent.url.tail = MASK THEN before.url ELSE sent.url,
           secret |-> IF sent.secret = MASK THEN before.secret ELSE sent.secret]

\* COMMIT.
Commit(r) ==
  LET t == tx[r]
      c == t.call
      written == Id(r) \in t.lock IN
  /\ At(r, "commit")
  /\ life' = IF c.op = "create" /\ life[Id(r)] = "unborn" THEN [life EXCEPT ![Id(r)] = "live"] ELSE life
  /\ group' = IF written /\ c.group # Keep THEN [group EXCEPT ![Id(r)] = c.group] ELSE group
  /\ slug' = IF written /\ t.slug # Keep THEN [slug EXCEPT ![Id(r)] = t.slug] ELSE slug
  /\ config' = IF written /\ t.config # Keep THEN [config EXCEPT ![Id(r)] = t.config] ELSE config
  /\ links' = (links \ t.gone) \cup t.new
  /\ asked' = [l \in DOMAIN asked |->
                 IF l[1] = Id(r) /\ l[2] \in DOMAIN t.done THEN t.done[l[2]] ELSE asked[l]]
  /\ mixed' = (mixed \ ({Id(r)} \X DOMAIN t.done)) \cup ({Id(r)} \X (t.overlaps \cap Kinds))
  /\ typed' = IF written /\ t.config # Keep
              THEN [typed EXCEPT ![Id(r)] = Typed(r)] ELSE typed
  /\ EndingWith(r, t.gone)
  /\ UNCHANGED calls

-----------------------------------------------------------------------------
(* DELETE, and its cascades.                                               *)

\* The row is locked: nobody writes it or refers to it meanwhile.
LockRow(r) ==
  /\ At(r, "row") /\ Deletes(r) /\ Blockers(r) = {} /\ Id(r) \in Live
  /\ Advance(r, [tx[r] EXCEPT !.stage = "cascade", !.lock = {Id(r)}])

NothingToDelete(r) ==
  /\ At(r, "row") /\ Deletes(r) /\ Blockers(r) = {} /\ Id(r) \notin Live
  /\ Fail(r)

\* Its links go, whichever end of them it is; the monitors of a group are ungrouped.
Cascade(r) ==
  /\ At(r, "cascade") /\ Blockers(r) = {}
  /\ life' = [life EXCEPT ![Id(r)] = "deleted"]
  /\ links' = links \ LinksWith(Id(r))
  /\ group' = [m \in DOMAIN group |-> IF group[m] = Id(r) THEN NoGroup ELSE group[m]]
  /\ asked' = [l \in DOMAIN asked |-> IF l[1] = Id(r) THEN {} ELSE asked[l] \ {Id(r)}]
  /\ EndingWith(r, LinksWith(Id(r)))
  /\ UNCHANGED <<slug, config, calls, mixed, typed>>

-----------------------------------------------------------------------------
(* What ends a request that cannot go on.                                  *)

\* Mutation: the pool waits as long as it takes (its default).
NoTimeout(r) == FALSE

\* connectionTimeoutMillis: no connection came free.
ConnectionTimeout(r) == NeedsConnection(r) /\ ~Free /\ Fail(r)

\* PostgreSQL's deadlock detector picks a transaction of a cycle of waiting.
DeadlockVictim(r) ==
  /\ \E D \in SUBSET Requests :
       /\ r \in D
       /\ \A s \in D : Blockers(s) \cap D # {} /\ \E u \in D : s \in Blockers(u)
  /\ Fail(r)

\* A statement fails, or the connection breaks.
Abort(r) == ~At(r, "idle") /\ Fail(r)

-----------------------------------------------------------------------------
Init ==
  /\ life = [o \in Objects |-> IF o \in Preset THEN "live" ELSE "unborn"]
  /\ group = [m \in Having("monitor") |-> NoGroup]
  /\ slug = CHOOSE s \in Injection(Having("page"), Slugs) : TRUE
  /\ config = PresetConfig
  /\ links = PresetLinks
  /\ tx = [r \in Requests |-> Idle]
  /\ pool \in PoolSizes /\ calls = 0
  /\ asked = [l \in {x \in Objects \X Kinds : x[2] \in ListsOf(KindOf[x[1]])} |->
               {o \in Objects : <<l[1], o>> \in PresetLinks /\ KindOf[o] = l[2]}]
  /\ mixed = {}
  /\ typed = PresetConfig

Proceed(r) ==
  \/ Connect(r) \/ WriteRow(r) \/ RowFails(r) \/ BeginList(r) \/ Clear(r) \/ InsertLinks(r)
  \/ InsertFails(r) \/ Commit(r) \/ LockRow(r) \/ NothingToDelete(r) \/ Cascade(r)

Next ==
  /\ \E r \in Requests :
       \/ calls < MaxCalls /\ \E c \in Calls : Start(r, c)
       \/ Proceed(r)
       \/ ConnectionTimeout(r)
       \/ DeadlockVictim(r)
       \/ Abort(r)
  /\ UNCHANGED pool

Spec == Init /\ [][Next]_<<vars, pool>>

\* The database answers, its detector runs, and so does the timer of the pool.
Fairness ==
  \A r \in Requests : WF_vars(Proceed(r) \/ ConnectionTimeout(r) \/ DeadlockVictim(r))

FairSpec == Spec /\ Fairness

-----------------------------------------------------------------------------
(* Properties.                                                             *)

TypeOK ==
  /\ life \in [Objects -> {"unborn", "live", "deleted"}]
  /\ group \in [Having("monitor") -> Having("group") \cup {NoGroup}]
  /\ slug \in [Having("page") -> Slugs]
  /\ config \in [Having("channel") -> Config]
  /\ links \subseteq Objects \X Objects
  /\ \A r \in Requests : tx[r].stage \in Stages /\ tx[r].seen \subseteq links /\ tx[r].found \subseteq Objects
  /\ pool \in PoolSizes /\ Cardinality(Connected) <= pool
  /\ calls \in 0..MaxCalls

\* Links and groups join rows that exist, of one workspace: what was resolved may have
\* been deleted before it is written.
OneWorkspace ==
  /\ \A l \in links : {l[1], l[2]} \subseteq Live /\ WorkspaceOf[l[2]] \in {WorkspaceOf[l[1]], Shared}
  /\ \A m \in Having("monitor") \cap Live : group[m] # NoGroup =>
       group[m] \in Live /\ WorkspaceOf[group[m]] = WorkspaceOf[m]

\* "so a monitor is always schedulable" (monitor-service.ts:230): it keeps a region.
AlwaysProbed == \A m \in Having("monitor") \cap Live : Links(m, "region") # {}

\* Two pages never answer to one address: of two requests that found it free, one fails.
AddressesDistinct ==
  \A p, q \in Having("page") \cap Live : slug[p] = slug[q] => p = q

LinksSound == OneWorkspace /\ AlwaysProbed /\ AddressesDistinct

\* A list holds what the last request that replaced it has found, except for what was
\* deleted since.  Two requests that both write a column of the row are serialised by its
\* lock.  Excepted is a list whose last replacement, with or without a column, overlapped
\* one by another request when one of the two wrote no column (monitor-repository.ts:181).
ListsReplaced ==
  \A l \in DOMAIN asked : life[l[1]] = "live" /\ l \notin mixed =>
    {m[2] : m \in Links(l[1], l[2])} = asked[l]

\* "a round-trip through the API cannot silently destroy a working credential"
\* (factory.ts:103): whatever masks come back, a channel keeps the credentials typed last,
\* unless two PATCHes of its config overlap.  A URL without a mask counts as typed, also
\* where maskUrl has dropped a part of it (factory.ts:61).
CredentialsKept ==
  \A c \in Having("channel") \cap Live :
    /\ config[c].url = typed[c].url
    /\ config[c].secret \in {typed[c].secret} \cup (IF typed[c].secret = Absent THEN {MASK} ELSE {})

\* No request waits for ever, for a lock or for a connection.
RequestsEnd == \A r \in Requests : []<>At(r, "idle")
=============================================================================
