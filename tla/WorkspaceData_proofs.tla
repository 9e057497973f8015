------------------------ MODULE WorkspaceData_proofs ------------------------
(***************************************************************************)
(* What the workspaces keep, for any requests, rows and interleavings: the  *)
(* links, the addresses, the lists and the credentials.  A step is first    *)
(* reduced to its effect on the transactions (the ...Step lemmas), then     *)
(* each part of the invariant gets one lemma per action that disturbs it.   *)
(***************************************************************************)
EXTENDS WorkspaceData, FiniteSetTheorems, TLAPS

(* What the routes make of a request.                                      *)

\* What the endpoints guarantee of the call c that a request on a row of kind comes to.
Handled(c, kind) ==
  /\ c.op \in {"create", "patch", "delete"} /\ kind # "region"
  /\ c.op = "create" => c.columns
  /\ c.group # Keep => c.columns
  /\ c.config # Keep => c.columns /\ kind = "channel"
  /\ DOMAIN c.lists \subseteq ListsOf(kind)
  /\ c.op = "create" /\ kind = "monitor" => "region" \in DOMAIN c.lists
  /\ c.op = "delete" => c.lists = <<>>

LEMMA TheLists ==
  /\ ListsOf("monitor") = {"region", "tag", "channel"} /\ ListsOf("page") = {"monitor"}
  /\ \A kind : kind \notin {"monitor", "page"} => ListsOf(kind) = {}
BY Zenon DEF ListsOf

\* A handler only ever makes such calls.
LEMMA FromRoutes ==
  ASSUME NEW q, NEW kind, NEW c \in Handle(q, kind)
  PROVE  c.id = q.id /\ Handled(c, kind)
<1> USE TheLists DEF Handled, Writes
<1>0. DOMAIN <<>> = {}
  OBVIOUS
<1>1. CASE kind = "monitor"
  <2>1. ASSUME NEW b, c = createMonitor(q.id, b)
        PROVE  c.id = q.id /\ Handled(c, kind)
    <3>1. DOMAIN NonEmpty(ListsIn(b, MonitorLists)) \subseteq {"region", "tag", "channel"}
      BY DEF NonEmpty, ListsIn, MonitorLists, Restrict
    <3>2. /\ c.id = q.id /\ c.op = "create" /\ c.columns /\ c.config = Keep
          /\ DOMAIN c.lists = DOMAIN NonEmpty(ListsIn(b, MonitorLists)) \cup {"region"}
      BY <2>1 DEF createMonitor, createWithRegions
    <3> QED  BY <1>1, <3>1, <3>2
  <2>2. ASSUME NEW b, c = updateMonitor(q.id, b)
        PROVE  c.id = q.id /\ Handled(c, kind)
    <3>1. DOMAIN ListsIn(b, MonitorLists) \subseteq {"region", "tag", "channel"}
      BY DEF ListsIn, MonitorLists
    <3>2. /\ c.id = q.id /\ c.op = "patch" /\ c.config = Keep
          /\ c.columns = Sets(b, MonitorColumns) /\ c.group = Given(b, "groupId")
          /\ c.lists = ListsIn(b, MonitorLists)
      BY <2>2 DEF updateMonitor
    <3>3. c.group # Keep => c.columns
      BY <3>2 DEF Sets, Given, MonitorColumns
    <3> QED  BY <1>1, <3>1, <3>2, <3>3
  <2>3. ASSUME c \in deleteRow(q)
        PROVE  c.id = q.id /\ Handled(c, kind)
    BY <1>1, <2>3 DEF deleteRow
  <2>9. Handle(q, kind) = monitorRoutes(q)
    BY <1>1, Zenon DEF Handle
  <2> QED  BY <2>1, <2>2, <2>3, <2>9 DEF monitorRoutes
<1>2. CASE kind = "group"
  <2>1. ASSUME NEW b, c = createGroup(q.id, b)
        PROVE  c.id = q.id /\ Handled(c, kind)
    BY <1>0, <1>2, <2>1 DEF createGroup
  <2>3. ASSUME NEW b, c = updateGroup(q.id, b)
        PROVE  c.id = q.id /\ Handled(c, kind)
    BY <1>0, <1>2, <2>3 DEF updateGroup
  <2>2. ASSUME c \in deleteRow(q)
        PROVE  c.id = q.id /\ Handled(c, kind)
    BY <1>2, <2>2 DEF deleteRow
  <2>9. Handle(q, kind) = groupRoutes(q)
    BY <1>2, Zenon DEF Handle
  <2> QED  BY <2>1, <2>2, <2>3, <2>9 DEF groupRoutes
<1>3. CASE kind = "tag"
  <2>1. ASSUME NEW b, c = createTag(q.id, b)
        PROVE  c.id = q.id /\ Handled(c, kind)
    BY <1>0, <1>3, <2>1 DEF createTag
  <2>2. ASSUME c \in deleteRow(q)
        PROVE  c.id = q.id /\ Handled(c, kind)
    BY <1>3, <2>2 DEF deleteRow
  <2>9. Handle(q, kind) = tagRoutes(q)
    BY <1>3, Zenon DEF Handle
  <2> QED  BY <2>1, <2>2, <2>9 DEF tagRoutes
<1>4. CASE kind = "channel"
  <2>1. ASSUME NEW b, c = createChannel(q.id, b)
        PROVE  c.id = q.id /\ Handled(c, kind)
    BY <1>0, <1>4, <2>1 DEF createChannel
  <2>3. ASSUME NEW b, c = updateChannel(q.id, b)
        PROVE  c.id = q.id /\ Handled(c, kind)
    <3>1. /\ c.id = q.id /\ c.op = "patch" /\ c.group = Keep /\ c.lists = <<>>
          /\ c.config = Given(b, "config") /\ c.columns = Sets(b, ChannelColumns)
      BY <2>3 DEF updateChannel
    <3>2. c.config # Keep => c.columns
      BY <3>1 DEF Given, Sets, ChannelColumns
    <3> QED  BY <1>0, <1>4, <3>1, <3>2
  <2>2. ASSUME c \in deleteRow(q)
        PROVE  c.id = q.id /\ Handled(c, kind)
    BY <1>4, <2>2 DEF deleteRow
  <2>9. Handle(q, kind) = channelRoutes(q)
    BY <1>4, Zenon DEF Handle
  <2> QED  BY <2>1, <2>2, <2>3, <2>9 DEF channelRoutes
<1>5. CASE kind = "page"
  <2>1. ASSUME NEW b, c = createPage(q.id, b)
        PROVE  c.id = q.id /\ Handled(c, kind)
    <3>1. DOMAIN NonEmpty(ListsIn(b, PageLists)) \subseteq {"monitor"}
      BY DEF NonEmpty, ListsIn, PageLists, Restrict
    <3>2. /\ c.id = q.id /\ c.op = "create" /\ c.columns /\ c.config = Keep /\ c.group = Keep
          /\ c.lists = NonEmpty(ListsIn(b, PageLists))
      BY <2>1 DEF createPage
    <3> QED  BY <1>5, <3>1, <3>2
  <2>2. ASSUME NEW b, c = updatePage(q.id, b)
        PROVE  c.id = q.id /\ Handled(c, kind)
    <3>1. DOMAIN ListsIn(b, PageLists) \subseteq {"monitor"}
      BY DEF ListsIn, PageLists
    <3>2. /\ c.id = q.id /\ c.op = "patch" /\ c.config = Keep /\ c.group = Keep
          /\ c.lists = ListsIn(b, PageLists)
      BY <2>2 DEF updatePage
    <3> QED  BY <1>5, <3>1, <3>2
  <2>3. ASSUME c \in deleteRow(q)
        PROVE  c.id = q.id /\ Handled(c, kind)
    BY <1>5, <2>3 DEF deleteRow
  <2>9. Handle(q, kind) = statusPageRoutes(q)
    BY <1>5, Zenon DEF Handle
  <2> QED  BY <2>1, <2>2, <2>3, <2>9 DEF statusPageRoutes
<1>6. kind \in {"monitor", "group", "tag", "channel", "page"}
  BY Zenon DEF Handle
<1> QED  BY <1>1, <1>2, <1>3, <1>4, <1>5, <1>6

-----------------------------------------------------------------------------
(* Types.                                                                  *)

Replaced == UNION {[kinds -> SUBSET Objects] : kinds \in SUBSET Kinds}
CallType == {NoCall} \cup UNION {Call(kinds) : kinds \in SUBSET Kinds}
Pairs == Objects \X Objects

Transaction ==
  [stage: Stages, call: CallType, left: SUBSET Kinds, slug: Slugs \cup {Keep},
   config: Config \cup {Keep}, found: SUBSET Objects, seen: SUBSET Pairs, gone: SUBSET Pairs,
   new: SUBSET Pairs, lock: SUBSET Objects, shared: SUBSET Objects, done: Replaced,
   overlaps: SUBSET (Kinds \cup {"config"})]

Listed == {l \in Objects \X Kinds : l[2] \in ListsOf(KindOf[l[1]])}

Typed0 ==
  /\ life \in [Objects -> {"unborn", "live", "deleted"}]
  /\ group \in [Having("monitor") -> Having("group") \cup {NoGroup}]
  /\ slug \in [Having("page") -> Slugs]
  /\ config \in [Having("channel") -> Config]
  /\ typed \in [Having("channel") -> Config]
  /\ links \subseteq Pairs
  /\ asked \in [Listed -> SUBSET Objects]
  /\ calls \in 0..MaxCalls
  /\ tx \in [Requests -> Transaction]

Busy == {r \in Requests : ~At(r, "idle")}
Creating(r) == tx[r].call.op = "create"

\* Rows of a table that a row may have links to.
Linkable(o, kind) ==
  {p \in Objects : KindOf[p] = kind /\ WorkspaceOf[p] \in {WorkspaceOf[o], Shared}}

\* The call of a request that has started.
CallOK(c) ==
  /\ c.id \in Objects /\ Handled(c, KindOf[c.id])
  /\ c.group \in Having("group") \cup {NoGroup, Keep} /\ c.config \in Config \cup {Keep}
  /\ c.group \in Objects => WorkspaceOf[c.group] = WorkspaceOf[c.id]
  /\ \A k \in DOMAIN c.lists : c.lists[k] \subseteq Objects
  /\ c.op = "create" /\ KindOf[c.id] = "monitor" =>
       /\ c.lists["region"] # {}
       /\ \A k \in DOMAIN c.lists : c.lists[k] \subseteq Linkable(c.id, k)

Current(t) == NextList(t.left)
Of(o, kind) == {l \in {o} \X Objects : KindOf[l[2]] = kind}

\* Which locks a request has at each stage.
Shape(t) ==
  LET c == t.call IN
  /\ CallOK(c)
  /\ t.slug # Keep => c.columns
  /\ c.op = "create" /\ KindOf[c.id] = "page" => t.slug # Keep
  /\ t.config = Keep <=> c.config = Keep
  /\ t.stage = "cascade" => c.op = "delete"
  /\ c.op = "delete" => t.stage \in {"connect", "row", "cascade"}
  /\ t.stage \in {"connect", "row", "cascade"} => t.shared = {} /\ DOMAIN t.done = {}
  /\ t.stage \in {"connect", "row"} => t.lock = {} /\ t.left = Lists(c)
  /\ t.stage = "cascade" => t.lock = {c.id}
  /\ t.lock \subseteq {c.id}
  /\ c.op = "create" /\ t.stage \notin {"connect", "row"} => t.lock = {c.id}
  /\ t.stage \notin {"connect", "row", "cascade"} /\ c.group \in Objects => c.group \in t.shared

\* How far it is with its lists.
ListShape(t) ==
  LET o == t.call.id
      now == t.stage \in {"clear", "insert"} IN
  /\ t.left \subseteq Lists(t.call)
  /\ t.stage \in {"list", "clear", "insert"} => t.left # {}
  /\ t.stage = "commit" => t.left = {}
  /\ t.stage # "clear" => t.seen = {}
  /\ now => Current(t) \in DOMAIN t.done /\ t.done[Current(t)] = t.found
  /\ t.seen \subseteq Of(o, Current(t))
  /\ \A k \in DOMAIN t.done \cap t.left : now /\ k = Current(t)
  /\ DOMAIN t.done \subseteq Lists(t.call)
  /\ \A l \in t.gone \cup t.new : l[1] = o /\ KindOf[l[2]] \in DOMAIN t.done
  /\ now => \A l \in t.new : KindOf[l[2]] # Current(t)
  /\ t.stage = "clear" => \A l \in t.gone : KindOf[l[2]] # Current(t)
  /\ \A k \in DOMAIN t.done : t.done[k] \subseteq Linkable(o, k)
  /\ "region" \in DOMAIN t.done => t.done["region"] # {}
  /\ \A l \in t.new : l[2] \in t.done[KindOf[l[2]]] /\ {l[1], l[2]} \subseteq t.shared
  /\ t.stage = "insert" => t.found # {}

TxInv ==
  /\ Typed0
  /\ \A r \in Requests : IF At(r, "idle") THEN tx[r].seen = {} ELSE Shape(tx[r]) /\ ListShape(tx[r])

-----------------------------------------------------------------------------
(* Rows and locks.                                                         *)

\* What a request refers to is there, as long as it holds it.
RowOK(r) ==
  /\ tx[r].shared \subseteq Live \cup (IF Creating(r) THEN {Id(r)} ELSE {})
  /\ At(r, "cascade") => Id(r) \in Live
  /\ Creating(r) /\ KindOf[Id(r)] # "tag" => life[Id(r)] = "unborn"
  /\ ~Creating(r) => life[Id(r)] # "unborn"

LockOK(r, s) ==
  /\ tx[r].lock \cap tx[s].lock = {}
  /\ Deletes(r) => tx[r].lock \cap tx[s].shared = {}
  /\ Creating(r) /\ KindOf[Id(r)] # "tag" => Id(s) # Id(r)

RowInv ==
  /\ \A r \in Busy : RowOK(r)
  /\ \A r, s \in Busy : r # s => LockOK(r, s)

\* Links join rows that exist, of one workspace; what a request has seen or deleted of
\* them is still there for the others, and nobody else deletes or inserts the same.
LinkInv ==
  /\ \A l \in links : {l[1], l[2]} \subseteq Live /\ WorkspaceOf[l[2]] \in {WorkspaceOf[l[1]], Shared}
  /\ \A r \in Busy : tx[r].gone \cup tx[r].seen \subseteq links /\ tx[r].new \cap links \subseteq tx[r].gone
  /\ \A r, s \in Busy : r # s => tx[r].gone \cap tx[s].gone = {} /\ tx[r].new \cap tx[s].new = {}

GroupInv ==
  \A m \in Having("monitor") : group[m] # NoGroup =>
    group[m] \in Live /\ WorkspaceOf[group[m]] = WorkspaceOf[m]

\* A monitor keeps a region that no request deletes that has replaced its regions and
\* found them there already: a request that has inserted one brings it.
RegionNew(r) == \E l \in tx[r].new : KindOf[l[2]] = "region"
Bare(m) == {r \in Busy : Id(r) = m /\ "region" \in DOMAIN tx[r].done \ tx[r].left /\ ~RegionNew(r)}

RegionInv ==
  /\ \A m \in Having("monitor") \cap Live :
       \E l \in Links(m, "region") : \A r \in Bare(m) : l \notin tx[r].gone
  /\ \A r \in Busy : Creating(r) /\ KindOf[Id(r)] = "monitor" => "region" \in tx[r].left \/ RegionNew(r)

\* An address that is about to be committed is free.
Takes(r) == ~Deletes(r) /\ Id(r) \in tx[r].lock /\ tx[r].slug # Keep /\ KindOf[Id(r)] = "page"

SlugInv ==
  /\ AddressesDistinct
  /\ \A r \in Busy : Takes(r) => \A p \in Having("page") \cap Live : p # Id(r) => slug[p] # tx[r].slug
  /\ \A r, s \in Busy : r # s /\ Takes(r) /\ Takes(s) => tx[r].slug # tx[s].slug

\* What is stored of a channel, against what was typed; and what a PATCH will store.
Configures(r) == tx[r].call.op = "patch" /\ tx[r].config # Keep

Unspoilt(c) ==
  /\ config[c].url = typed[c].url
  /\ config[c].secret \in {typed[c].secret} \cup (IF typed[c].secret = Absent THEN {MASK} ELSE {})

ConfigInv ==
  /\ \A c \in Having("channel") : Unspoilt(c)
  /\ \A r \in Busy : Configures(r) /\ "config" \notin tx[r].overlaps =>
       tx[r].config = restoreRedacted(tx[r].call.config, config[Id(r)])
  /\ \A r, s \in Busy : r # s /\ Configures(r) /\ Configures(s) /\ Id(r) = Id(s) =>
       "config" \in tx[r].overlaps

\* What a request that nobody overlaps replaces is just what it has seen or deleted.
Replaces(r, k) ==
  /\ Links(Id(r), k) \subseteq tx[r].gone \cup tx[r].seen
  /\ k \notin tx[r].left => {Id(r)} \X tx[r].done[k] \subseteq tx[r].new

ListInv ==
  /\ ListsReplaced
  /\ \A r, s \in Busy : r # s /\ Id(r) = Id(s) =>
       DOMAIN tx[r].done \cap DOMAIN tx[s].done \subseteq tx[r].overlaps
  /\ \A r \in Busy : \A k \in DOMAIN tx[r].done \ tx[r].overlaps : Replaces(r, k)
  /\ \A l \in Listed : life[l[1]] = "unborn" => asked[l] = {}

\* The pool does not change its size, and no more requests hold a connection than it has.
Pooled == pool \in PoolSizes /\ Cardinality(Connected) <= pool

WorkspaceInv ==
  /\ TxInv /\ RowInv /\ LinkInv /\ GroupInv /\ RegionInv /\ SlugInv /\ ConfigInv /\ ListInv
  /\ Pooled

-----------------------------------------------------------------------------
(* What a step leaves alone.                                               *)

\* The step of another request may take links away that s has seen, and note that the two
\* overlap; all else of s stays.
Aside(s) ==
  /\ tx'[s].stage = tx[s].stage /\ tx'[s].call = tx[s].call /\ tx'[s].left = tx[s].left
  /\ tx'[s].slug = tx[s].slug /\ tx'[s].config = tx[s].config /\ tx'[s].found = tx[s].found
  /\ tx'[s].gone = tx[s].gone /\ tx'[s].new = tx[s].new /\ tx'[s].lock = tx[s].lock
  /\ tx'[s].shared = tx[s].shared /\ tx'[s].done = tx[s].done
  /\ tx'[s].seen \subseteq tx[s].seen /\ tx[s].overlaps \subseteq tx'[s].overlaps

\* Nor has it changed what s has seen and whom it overlaps.
Untouched(r) == \A s \in Requests \ {r} : tx'[s] = tx[s]

LEMMA Replacing ==
  /\ \A d \in Replaced : DOMAIN d \subseteq Kinds /\ \A k \in DOMAIN d : d[k] \subseteq Objects
  /\ \A kinds \in SUBSET Kinds : \A d \in [kinds -> SUBSET Objects] : d \in Replaced
BY DEF Replaced

LEMMA IdleTyped == Idle \in Transaction
<1>1. [k \in {} |-> {}] \in [{} -> SUBSET Objects] /\ {} \in SUBSET Kinds
  OBVIOUS
<1>2. [k \in {} |-> {}] \in Replaced
  BY <1>1 DEF Replaced
<1> QED  BY <1>2, WorkspaceAssumption DEF Idle, Transaction, CallType, Stages

LEMMA Ends ==
  ASSUME Typed0, NEW r \in Requests, NEW gone, EndingWith(r, gone)
  PROVE  /\ tx' \in [Requests -> Transaction] /\ tx'[r] = Idle
         /\ \A s \in Requests \ {r} : /\ Aside(s) /\ tx'[s].seen = tx[s].seen \ gone
                                      /\ tx'[s].overlaps = tx[s].overlaps
<1>1. ASSUME NEW s \in Requests \ {r}
      PROVE  /\ tx'[s] = [tx[s] EXCEPT !.seen = @ \ gone]
             /\ tx'[s] \in Transaction /\ Aside(s) /\ tx'[s].seen = tx[s].seen \ gone
             /\ tx'[s].overlaps = tx[s].overlaps
  <2>1. tx'[s] = [tx[s] EXCEPT !.seen = @ \ gone]
    BY DEF EndingWith
  <2>2. tx[s] \in Transaction
    BY DEF Typed0
  <2> QED  BY <2>1, <2>2 DEF Transaction, Aside
<1>2. tx'[r] = Idle /\ tx' = [s \in Requests |-> tx'[s]]
  BY DEF EndingWith
<1> QED  BY <1>1, <1>2, IdleTyped

LEMMA Advances ==
  ASSUME Typed0, NEW r \in Requests, NEW with \in Transaction, Advance(r, with)
  PROVE  /\ tx' \in [Requests -> Transaction] /\ tx'[r] = with
         /\ Untouched(r) /\ UNCHANGED <<tables, calls, asked, mixed, typed>>
BY DEF Advance, Typed0, Untouched

LEMMA Alone ==
  ASSUME NEW r, Untouched(r), NEW s \in Requests \ {r}
  PROVE  Aside(s)
BY DEF Untouched, Aside

LEMMA ShapesAside ==
  ASSUME NEW s \in Requests, Aside(s), Shape(tx[s]), ListShape(tx[s])
  PROVE  Shape(tx'[s]) /\ ListShape(tx'[s])
<1>1. Shape(tx'[s])
  BY DEF Aside, Shape
<1>2. ListShape(tx'[s])
  BY DEF Aside, ListShape, Current
<1> QED  BY <1>1, <1>2

\* What a step of r leaves alone of r itself.
SameRow(r) ==
  /\ tx'[r].call = tx[r].call /\ tx'[r].slug = tx[r].slug /\ tx'[r].config = tx[r].config
  /\ tx[r].overlaps \subseteq tx'[r].overlaps
SameLocks(r) == tx'[r].lock = tx[r].lock /\ tx'[r].shared = tx[r].shared
SameLists(r) ==
  /\ tx'[r].left = tx[r].left /\ tx'[r].done = tx[r].done /\ tx'[r].found = tx[r].found
  /\ tx'[r].seen = tx[r].seen /\ tx'[r].gone = tx[r].gone /\ tx'[r].new = tx[r].new

Quiet == UNCHANGED <<tables, calls, asked, mixed, typed>>

LEMMA StageOfList == \A left : After(left) \in Stages
BY DEF After, Stages

LEMMA ConnectStep ==
  ASSUME Typed0, NEW r \in Requests, Connect(r)
  PROVE  /\ tx' \in [Requests -> Transaction] /\ Untouched(r) /\ Quiet
         /\ SameRow(r) /\ SameLocks(r) /\ SameLists(r)
         /\ At(r, "connect") /\ tx'[r].stage = "row"
<1>1. tx[r] \in Transaction
  BY DEF Typed0
<1>2. [tx[r] EXCEPT !.stage = "row"] \in Transaction
  BY <1>1 DEF Transaction, Stages
<1>3. tx'[r] = [tx[r] EXCEPT !.stage = "row"]
  BY <1>2, Advances DEF Connect
<1>4. SameRow(r) /\ SameLocks(r) /\ SameLists(r) /\ tx'[r].stage = "row"
  BY <1>1, <1>3 DEF Transaction, SameRow, SameLocks, SameLists
<1> QED  BY <1>2, <1>4, Advances DEF Connect, Quiet

LEMMA WriteRowStep ==
  ASSUME TxInv, NEW r \in Requests, WriteRow(r)
  PROVE  /\ tx' \in [Requests -> Transaction] /\ Untouched(r) /\ Quiet
         /\ SameRow(r) /\ SameLists(r)
         /\ At(r, "row") /\ tx'[r].stage = After(tx[r].left) /\ ~Deletes(r)
         /\ tx'[r].lock = IF tx[r].call.columns /\ (Creating(r) \/ Id(r) \in Live) THEN {Id(r)} ELSE {}
         /\ tx'[r].shared = {tx[r].call.group} \cap Objects
<1>1. tx[r] \in Transaction /\ Id(r) \in Objects
  BY DEF TxInv, Typed0, Shape, CallOK, WriteRow, At, Id
<1> DEFINE lock == IF tx[r].call.columns /\ (tx[r].call.op = "create" \/ Id(r) \in Live) THEN {Id(r)} ELSE {}
           shared == {tx[r].call.group} \cap Objects
           with == [tx[r] EXCEPT !.stage = After(tx[r].left), !.lock = lock, !.shared = shared]
<1>2. lock \in SUBSET Objects /\ shared \in SUBSET Objects
  BY <1>1
<1>3. with \in Transaction
  <2> HIDE DEF lock, shared
  <2> QED  BY <1>1, <1>2, StageOfList DEF Transaction
<1>4. Advance(r, with)
  BY DEF WriteRow
<1>5. tx'[r] = with
  BY <1>3, <1>4, Advances DEF TxInv
<1>6. /\ SameRow(r) /\ SameLists(r) /\ tx'[r].stage = After(tx[r].left)
      /\ tx'[r].lock = lock /\ tx'[r].shared = shared
  <2> HIDE DEF lock, shared
  <2> QED  BY <1>1, <1>5 DEF Transaction, SameRow, SameLists
<1>7. tx' \in [Requests -> Transaction] /\ Untouched(r) /\ Quiet
  BY <1>3, <1>4, Advances DEF Quiet, TxInv
<1> QED  BY <1>6, <1>7 DEF WriteRow, Creating

LEMMA LockRowStep ==
  ASSUME TxInv, NEW r \in Requests, LockRow(r)
  PROVE  /\ tx' \in [Requests -> Transaction] /\ Untouched(r) /\ Quiet
         /\ SameRow(r) /\ SameLists(r) /\ tx'[r].shared = tx[r].shared
         /\ At(r, "row") /\ tx'[r].stage = "cascade" /\ Deletes(r)
         /\ tx'[r].lock = {Id(r)}
<1>1. tx[r] \in Transaction /\ Id(r) \in Objects
  BY DEF TxInv, Typed0, Shape, CallOK, LockRow, At, Id
<1> DEFINE with == [tx[r] EXCEPT !.stage = "cascade", !.lock = {Id(r)}]
<1>2. with \in Transaction
  BY <1>1 DEF Transaction, Stages
<1>3. Advance(r, with)
  BY DEF LockRow
<1>4. tx'[r] = with
  BY <1>2, <1>3, Advances DEF TxInv
<1>5. /\ SameRow(r) /\ SameLists(r) /\ tx'[r].stage = "cascade"
      /\ tx'[r].lock = {Id(r)} /\ tx'[r].shared = tx[r].shared
  BY <1>1, <1>4 DEF Transaction, SameRow, SameLists
<1>6. tx' \in [Requests -> Transaction] /\ Untouched(r) /\ Quiet
  BY <1>2, <1>3, Advances DEF Quiet, TxInv
<1> QED  BY <1>5, <1>6 DEF LockRow

LEMMA NextIsLeft ==
  ASSUME NEW left, left # {}
  PROVE  NextList(left) \in left
BY DEF NextList

LEMMA FoundLinkable ==
  ASSUME NEW c, c.id \in Objects, NEW kind \in ListsOf(KindOf[c.id])
  PROVE  /\ Found(c, kind) \subseteq Linkable(c.id, kind)
         /\ kind = "region" => Found(c, kind) # {}
<1>1. kind \in {"region", "tag", "channel", "monitor"}
  BY TheLists
<1>2. CASE kind = "region"
  <2>1. Found(c, kind) = resolveRegions(c)
    BY <1>2, Zenon DEF Found
  <2>2. \A o \in Having("region") : o \in Linkable(c.id, "region")
    BY WorkspaceAssumption DEF Having, Linkable
  <2> QED  BY <1>2, <2>1, <2>2, WorkspaceAssumption DEF resolveRegions
<1>3. CASE kind # "region"
  <2>1. Found(c, kind) = resolveInternalIds(c, kind)
    <3>1. CASE kind = "tag"
      BY <3>1, Zenon DEF Found, resolveTags
    <3>2. CASE kind = "channel"
      BY <3>2, Zenon DEF Found, resolveChannels
    <3>3. CASE kind = "monitor"
      BY <3>3, Zenon DEF Found, resolveMonitors
    <3> QED  BY <1>1, <1>3, <3>1, <3>2, <3>3
  <2> QED  BY <1>3, <2>1 DEF resolveInternalIds, Linkable, Live
<1> QED  BY <1>2, <1>3

\* A request that skips its next list, and one that begins with it.
ListFound(r, kind) ==
  IF Creating(r) /\ KindOf[Id(r)] = "monitor" THEN tx[r].call.lists[kind]
  ELSE Found(tx[r].call, kind)

SkipsList(r) ==
  /\ At(r, "list") /\ tx[r].call.op = "patch" /\ KindOf[Id(r)] = "monitor" /\ Id(r) \notin Live
  /\ tx'[r].left = tx[r].left \ {Current(tx[r])} /\ tx'[r].stage = After(tx'[r].left)
  /\ tx'[r].done = tx[r].done /\ tx'[r].found = tx[r].found
  /\ tx'[r].seen = tx[r].seen /\ tx'[r].gone = tx[r].gone /\ tx'[r].new = tx[r].new
  /\ Untouched(r)

BeginsList(r, kind) ==
  /\ At(r, "list") /\ kind = Current(tx[r])
  /\ tx'[r].stage = "clear" /\ tx'[r].left = tx[r].left /\ tx'[r].found = ListFound(r, kind)
  /\ tx'[r].seen = Links(Id(r), kind) /\ tx'[r].gone = tx[r].gone /\ tx'[r].new = tx[r].new
  /\ DOMAIN tx'[r].done = DOMAIN tx[r].done \cup {kind}
  /\ \A k \in DOMAIN tx'[r].done : tx'[r].done[k] = IF k = kind THEN ListFound(r, kind) ELSE tx[r].done[k]
  /\ \A s \in Overlapping(r, kind) : kind \in tx'[r].overlaps /\ kind \in tx'[s].overlaps
  /\ \A s \in Requests \ {r} : tx'[s].seen = tx[s].seen

LEMMA FoundOK ==
  ASSUME TxInv, NEW r \in Busy, NEW kind \in Lists(tx[r].call)
  PROVE  /\ ListFound(r, kind) \subseteq Linkable(Id(r), kind)
         /\ kind = "region" => ListFound(r, kind) # {}
         /\ ListFound(r, kind) \subseteq Objects /\ kind \in Kinds
<1>1. CallOK(tx[r].call)
  BY DEF TxInv, Busy, Shape
<1>2. kind \in ListsOf(KindOf[Id(r)]) /\ kind \in DOMAIN tx[r].call.lists
  BY DEF Lists, Id
<1>3. /\ ListFound(r, kind) \subseteq Linkable(Id(r), kind)
      /\ kind = "region" => ListFound(r, kind) # {}
  BY <1>1, <1>2, FoundLinkable DEF CallOK, ListFound, Id, Creating
<1>4. kind \in Kinds
  BY <1>2, TheLists DEF Kinds
<1> QED  BY <1>3, <1>4 DEF Linkable

LEMMA BeginListStep ==
  ASSUME TxInv, NEW r \in Requests, BeginList(r)
  PROVE  /\ tx' \in [Requests -> Transaction] /\ Quiet
         /\ SameRow(r) /\ SameLocks(r)
         /\ \A s \in Requests \ {r} : Aside(s)
         /\ SkipsList(r) \/ \E kind \in tx[r].left : BeginsList(r, kind)
<1> DEFINE t == tx[r]
           kind == NextList(t.left)
           left == t.left \ {kind}
           found == ListFound(r, kind)
           mates == Overlapping(r, kind)
<1>0. /\ r \in Busy /\ t \in Transaction /\ Shape(t) /\ ListShape(t) /\ At(r, "list")
  BY DEF TxInv, Typed0, Busy, BeginList, At
<1>1. kind \in t.left /\ kind \in Lists(t.call) /\ kind \in Kinds /\ found \subseteq Objects
  <2>1. kind \in t.left /\ kind \in Lists(t.call)
    BY <1>0, NextIsLeft, SMTT(30) DEF ListShape, At
  <2> QED  BY <1>0, <2>1, FoundOK
<1>2. CASE t.call.op = "patch" /\ KindOf[Id(r)] = "monitor" /\ Id(r) \notin Live
  <2>1. tx' = [tx EXCEPT ![r] = [t EXCEPT !.left = left, !.stage = After(left)]]
    BY <1>2 DEF BeginList
  <2>2. [t EXCEPT !.left = left, !.stage = After(left)] \in Transaction
    BY <1>0, StageOfList DEF Transaction
  <2>3. tx' \in [Requests -> Transaction] /\ Untouched(r)
        /\ tx'[r] = [t EXCEPT !.left = left, !.stage = After(left)]
    BY <2>1, <2>2 DEF TxInv, Typed0, Untouched
  <2>4. SkipsList(r) /\ SameRow(r) /\ SameLocks(r)
    BY <1>0, <1>2, <2>3, SMTT(30) DEF Transaction, SkipsList, SameRow, SameLocks, Current
  <2> QED  BY <2>3, <2>4, Alone, Zenon DEF BeginList, Quiet
<1>3. CASE ~(t.call.op = "patch" /\ KindOf[Id(r)] = "monitor" /\ Id(r) \notin Live)
  <2> DEFINE done == [k \in DOMAIN t.done \cup {kind} |-> IF k = kind THEN found ELSE t.done[k]]
             overlaps == IF mates = {} THEN t.overlaps ELSE t.overlaps \cup {kind}
             with == [t EXCEPT !.stage = "clear", !.found = found, !.seen = Links(Id(r), kind),
                               !.done = done, !.overlaps = overlaps]
  <2>1. tx' = [s \in Requests |->
            IF s = r THEN with
            ELSE IF s \in mates THEN [tx[s] EXCEPT !.overlaps = @ \cup {kind}]
            ELSE tx[s]]
    BY <1>3, Zenon DEF BeginList, ListFound, Creating
  <2>2. done \in Replaced
    <3>1. DOMAIN t.done \subseteq Kinds /\ \A k \in DOMAIN t.done : t.done[k] \subseteq Objects
      BY <1>0, Replacing DEF Transaction
    <3>2. done \in [DOMAIN t.done \cup {kind} -> SUBSET Objects] /\ DOMAIN t.done \cup {kind} \in SUBSET Kinds
      BY <1>1, <3>1
    <3> HIDE DEF done
    <3> QED  BY <3>2, Replacing
  <2>3. overlaps \in SUBSET (Kinds \cup {"config"}) /\ Links(Id(r), kind) \in SUBSET Pairs
    BY <1>0, <1>1 DEF Transaction, Links, TxInv, Typed0
  <2>4. DOMAIN done = DOMAIN t.done \cup {kind}
        /\ \A k \in DOMAIN done : done[k] = IF k = kind THEN found ELSE t.done[k]
    OBVIOUS
  <2>5. /\ t.overlaps \subseteq overlaps
        /\ \A s \in mates : kind \in overlaps
    OBVIOUS
  <2> HIDE DEF done, overlaps, mates, kind, found
  <2>6. with \in Transaction
    BY <1>0, <1>1, <2>2, <2>3 DEF Transaction, Stages
  <2>7. tx'[r] = with
    BY <2>1
  <2>8. ASSUME NEW s \in Requests \ {r}
        PROVE  /\ tx'[s] \in Transaction /\ Aside(s) /\ tx'[s].seen = tx[s].seen
               /\ s \in mates => kind \in tx'[s].overlaps
    <3>0. tx[s] \in Transaction
      BY DEF TxInv, Typed0
    <3>1. CASE s \in mates
      <4>1. tx'[s] = [tx[s] EXCEPT !.overlaps = @ \cup {kind}]
        BY <2>1, <3>1
      <4> QED  BY <1>1, <3>0, <4>1 DEF Transaction, Aside
    <3>2. CASE s \notin mates
      BY <2>1, <3>0, <3>2 DEF Aside
    <3> QED  BY <3>1, <3>2
  <2>9. tx' \in [Requests -> Transaction]
    BY <2>1, <2>6, <2>7, <2>8
  <2>10. /\ SameRow(r) /\ SameLocks(r)
         /\ tx'[r].stage = "clear" /\ tx'[r].left = tx[r].left /\ tx'[r].found = found
         /\ tx'[r].seen = Links(Id(r), kind) /\ tx'[r].gone = tx[r].gone /\ tx'[r].new = tx[r].new
         /\ tx'[r].done = done /\ tx'[r].overlaps = overlaps
    BY <1>0, <2>5, <2>7 DEF Transaction, SameRow, SameLocks
  <2>11. mates \subseteq Requests \ {r}
    BY DEF mates, Overlapping, Others
  <2>12. BeginsList(r, kind)
    BY <1>0, <2>4, <2>5, <2>8, <2>10, <2>11 DEF BeginsList, Current, kind, found, mates
  <2> QED  BY <1>1, <2>8, <2>9, <2>10, <2>12, Zenon DEF BeginList, Quiet
<1> QED  BY <1>2, <1>3, ZenonT(30)

LEMMA ClearStep ==
  ASSUME TxInv, NEW r \in Requests, Clear(r)
  PROVE  /\ tx' \in [Requests -> Transaction] /\ Untouched(r) /\ Quiet
         /\ SameRow(r) /\ SameLocks(r)
         /\ At(r, "clear") /\ tx'[r].seen = {} /\ tx'[r].gone = tx[r].gone \cup (tx[r].seen \cap links)
         /\ tx'[r].found = tx[r].found /\ tx'[r].new = tx[r].new /\ tx'[r].done = tx[r].done
         /\ IF tx[r].found = {}
            THEN tx'[r].left = tx[r].left \ {Current(tx[r])} /\ tx'[r].stage = After(tx'[r].left)
            ELSE tx'[r].left = tx[r].left /\ tx'[r].stage = "insert"
<1> DEFINE t == tx[r]
           left == t.left \ {NextList(t.left)}
           gone == t.gone \cup (t.seen \cap links)
           with == IF t.found = {}
                   THEN [t EXCEPT !.gone = gone, !.seen = {}, !.left = left, !.stage = After(left)]
                   ELSE [t EXCEPT !.gone = gone, !.seen = {}, !.stage = "insert"]
<1>1. t \in Transaction
  BY DEF TxInv, Typed0
<1>2. gone \in SUBSET Pairs /\ left \in SUBSET Kinds
  BY <1>1 DEF Transaction
<1>3. Advance(r, with)
  BY DEF Clear, Cleared
<1>4. gone = t.gone \cup (t.seen \cap links) /\ left = t.left \ {Current(t)}
  BY DEF Current
<1> HIDE DEF gone, left
<1>5. with \in Transaction
  BY <1>1, <1>2, StageOfList DEF Transaction, Stages
<1>6. tx'[r] = with /\ tx' \in [Requests -> Transaction] /\ Untouched(r) /\ Quiet
  BY <1>3, <1>5, Advances DEF TxInv, Quiet
<1>7. /\ SameRow(r) /\ SameLocks(r)
      /\ tx'[r].seen = {} /\ tx'[r].gone = gone
      /\ tx'[r].found = tx[r].found /\ tx'[r].new = tx[r].new /\ tx'[r].done = tx[r].done
      /\ IF t.found = {} THEN tx'[r].left = left /\ tx'[r].stage = After(left)
         ELSE tx'[r].left = tx[r].left /\ tx'[r].stage = "insert"
  BY <1>1, <1>6 DEF Transaction, SameRow, SameLocks
<1> QED  BY <1>4, <1>6, <1>7 DEF Clear

LEMMA InsertStep ==
  ASSUME TxInv, NEW r \in Requests, InsertLinks(r)
  PROVE  /\ tx' \in [Requests -> Transaction] /\ Untouched(r) /\ Quiet
         /\ SameRow(r) /\ tx'[r].lock = tx[r].lock
         /\ At(r, "insert") /\ tx'[r].seen = tx[r].seen /\ tx'[r].gone = tx[r].gone
         /\ tx'[r].new = tx[r].new \cup (({Id(r)} \X tx[r].found) \ (links \ tx[r].gone))
         /\ tx'[r].shared = tx[r].shared \cup tx[r].found \cup {Id(r)}
         /\ tx'[r].found = tx[r].found /\ tx'[r].done = tx[r].done
         /\ tx'[r].left = tx[r].left \ {Current(tx[r])} /\ tx'[r].stage = After(tx'[r].left)
<1> DEFINE t == tx[r]
           left == t.left \ {NextList(t.left)}
           new == t.new \cup (({Id(r)} \X t.found) \ (links \ t.gone))
           shared == t.shared \cup t.found \cup {Id(r)}
           with == [t EXCEPT !.new = new, !.shared = shared, !.left = left, !.stage = After(left)]
<1>1. t \in Transaction /\ Id(r) \in Objects
  BY DEF TxInv, Typed0, Shape, CallOK, InsertLinks, At, Id
<1>2. new \in SUBSET Pairs /\ left \in SUBSET Kinds /\ shared \in SUBSET Objects
  BY <1>1 DEF Transaction, Pairs
<1>3. Advance(r, with)
  BY DEF InsertLinks
<1>4. /\ new = t.new \cup (({Id(r)} \X t.found) \ (links \ t.gone)) /\ left = t.left \ {Current(t)}
      /\ shared = t.shared \cup t.found \cup {Id(r)}
  BY DEF Current
<1> HIDE DEF new, left, shared
<1>5. with \in Transaction
  BY <1>1, <1>2, StageOfList DEF Transaction
<1>6. tx'[r] = with /\ tx' \in [Requests -> Transaction] /\ Untouched(r) /\ Quiet
  BY <1>3, <1>5, Advances DEF TxInv, Quiet
<1>7. /\ SameRow(r) /\ tx'[r].lock = tx[r].lock
      /\ tx'[r].seen = t.seen /\ tx'[r].gone = t.gone /\ tx'[r].new = new /\ tx'[r].shared = shared
      /\ tx'[r].found = t.found /\ tx'[r].done = t.done /\ tx'[r].left = left
      /\ tx'[r].stage = After(left)
  BY <1>1, <1>6 DEF Transaction, SameRow
<1> QED  BY <1>4, <1>6, <1>7 DEF InsertLinks

-----------------------------------------------------------------------------
(* The start of a request.                                                 *)

LEMMA RestoredTyped ==
  ASSUME NEW incoming \in Config, NEW stored \in Config
  PROVE  restoreRedacted(incoming, stored) \in Config
BY DEF Config, restoreRedacted

\* The call of a request, before its handler has looked anything up.
LEMMA CallsSound ==
  ASSUME NEW c \in Calls
  PROVE  /\ c \in Call(DOMAIN c.lists) /\ DOMAIN c.lists \subseteq Kinds
         /\ Handled(c, KindOf[c.id])
         /\ c.op = "create" /\ KindOf[c.id] = "page" => c.slug # Keep
<1>1. PICK q \in Sent : c \in Handle(q, KindOf[q.id])
  BY DEF Calls
<1>2. c.id = q.id /\ Handled(c, KindOf[q.id])
  BY <1>1, FromRoutes
<1>3. DOMAIN c.lists \subseteq ListsOf(KindOf[c.id])
  BY <1>2 DEF Handled
<1>4. ListsOf(KindOf[c.id]) \subseteq Kinds
  BY TheLists DEF Kinds
<1> QED  BY <1>2, <1>3, <1>4, WorkspaceAssumption

\* And what becomes of it.
Looked(c, address) ==
  IF c.op = "create" /\ KindOf[c.id] = "monitor"
  THEN [c EXCEPT !.lists = [k \in DOMAIN c.lists |-> Found(c, k)]]
  ELSE [c EXCEPT !.columns = @ \/ address # Keep]

LEMMA LookedSound ==
  ASSUME NEW c \in Calls, NEW address, GroupFound(c)
  PROVE  LET d == Looked(c, address) IN
         /\ d \in CallType /\ CallOK(d) /\ d.id = c.id /\ d.op = c.op /\ d.config = c.config
         /\ Lists(d) = Lists(c) /\ d.group = c.group
         /\ address # Keep => d.columns
<1> DEFINE d == Looked(c, address)
           found == [k \in DOMAIN c.lists |-> Found(c, k)]
<1>0. /\ c \in Call(DOMAIN c.lists) /\ DOMAIN c.lists \subseteq Kinds
      /\ Handled(c, KindOf[c.id]) /\ c.id \in Objects
      /\ c.group \in Having("group") \cup {NoGroup, Keep} /\ c.config \in Config \cup {Keep}
  BY CallsSound DEF Call
<1>1. \A k \in DOMAIN c.lists : /\ Found(c, k) \subseteq Linkable(c.id, k)
                                /\ k = "region" => Found(c, k) # {}
  BY <1>0, FoundLinkable DEF Handled
<1>2. found \in [DOMAIN c.lists -> SUBSET Objects]
  BY <1>1 DEF Linkable
<1>3. c.group \in Objects => WorkspaceOf[c.group] = WorkspaceOf[c.id]
  BY DEF GroupFound
<1>4. CASE c.op = "create" /\ KindOf[c.id] = "monitor"
  <2>1. d = [c EXCEPT !.lists = found]
    BY <1>4 DEF Looked
  <2>2. \A k \in DOMAIN found : /\ found[k] \subseteq Linkable(c.id, k)
                                /\ k = "region" => found[k] # {}
    BY <1>1
  <2>3. DOMAIN found = DOMAIN c.lists
    OBVIOUS
  <2> HIDE DEF found
  <2>4. /\ d \in Call(DOMAIN c.lists) /\ d.id = c.id /\ d.op = c.op /\ d.config = c.config
        /\ d.columns = c.columns /\ d.group = c.group /\ d.lists = found
    BY <1>0, <1>2, <2>1 DEF Call
  <2>5. d \in CallType
    BY <1>0, <2>4 DEF CallType
  <2>6. "region" \in DOMAIN found
    BY <1>0, <1>4, <2>3 DEF Handled
  <2>7. Handled(d, KindOf[d.id])
    BY <1>0, <1>4, <2>3, <2>4 DEF Handled
  <2>8. CallOK(d)
    BY <1>0, <1>2, <1>3, <2>2, <2>3, <2>4, <2>6, <2>7 DEF CallOK
  <2> HIDE DEF d
  <2>9. Lists(d) = Lists(c)
    BY <2>3, <2>4 DEF Lists
  <2>10. d.columns
    BY <1>0, <1>4, <2>4 DEF Handled
  <2> QED  BY <2>4, <2>5, <2>8, <2>9, <2>10 DEF d
<1>5. CASE ~(c.op = "create" /\ KindOf[c.id] = "monitor")
  <2>1. d = [c EXCEPT !.columns = @ \/ address # Keep]
    BY <1>5 DEF Looked
  <2>2. /\ d \in Call(DOMAIN c.lists) /\ d.id = c.id /\ d.op = c.op /\ d.config = c.config
        /\ d.columns = (c.columns \/ address # Keep) /\ d.group = c.group /\ d.lists = c.lists
    BY <1>0, <2>1 DEF Call
  <2>3. d \in CallType
    BY <1>0, <2>2 DEF CallType
  <2>4. Handled(d, KindOf[d.id])
    BY <1>0, <2>2 DEF Handled
  <2>5. \A k \in DOMAIN c.lists : c.lists[k] \subseteq Objects
    BY <1>0 DEF Call
  <2>6. CallOK(d)
    BY <1>0, <1>3, <1>5, <2>2, <2>4, <2>5 DEF CallOK
  <2> HIDE DEF d
  <2>7. Lists(d) = Lists(c)
    BY <2>2, SMTT(30) DEF Lists
  <2> QED  BY <2>2, <2>3, <2>6, <2>7 DEF d
<1> QED  BY <1>4, <1>5

\* PATCHes of the config of one channel that meet.
Mates(r, c) == {s \in Others(r) : (c.op = "patch" /\ c.config # Keep) /\ Id(s) = c.id /\ tx[s].config # Keep}

\* What Start makes of r, for a call c.
Started(r, c) ==
  LET t == tx'[r] IN
  /\ At(r, "idle") /\ t.stage = "connect"
  /\ t.call.id = c.id /\ t.call.op = c.op /\ t.call.config = c.config
  /\ IF c.op = "create" THEN Creatable(r, c.id) ELSE c.id \in Live
  /\ CallOK(t.call) /\ t.left = Lists(t.call)
  /\ t.slug # Keep => t.call.columns
  /\ c.op = "create" /\ KindOf[c.id] = "page" => t.slug # Keep
  /\ t.config = IF c.op = "patch" /\ c.config # Keep THEN restoreRedacted(c.config, config[c.id])
                ELSE c.config
  /\ c.config # Keep => c.id \in Having("channel")
  /\ t.seen = {} /\ t.gone = {} /\ t.new = {} /\ t.lock = {} /\ t.shared = {} /\ DOMAIN t.done = {}
  /\ \A s \in Mates(r, c) : "config" \in t.overlaps /\ "config" \in tx'[s].overlaps

LEMMA StartStep ==
  ASSUME TxInv, NEW r \in Requests, NEW c \in Calls, Start(r, c)
  PROVE  /\ tx' \in [Requests -> Transaction] /\ Started(r, c)
         /\ \A s \in Requests \ {r} : Aside(s) /\ tx'[s].seen = tx[s].seen
         /\ UNCHANGED <<tables, asked, mixed, typed>> /\ calls' = calls + 1
<1> DEFINE edits == c.op = "patch" /\ c.config # Keep
           mates == Mates(r, c)
           restored == IF edits THEN restoreRedacted(c.config, config[c.id]) ELSE c.config
           overlaps == IF mates = {} THEN {} ELSE {"config"}
<1>0. /\ c \in Call(DOMAIN c.lists) /\ c.id \in Objects /\ Handled(c, KindOf[c.id])
      /\ c.op = "create" /\ KindOf[c.id] = "page" => c.slug # Keep
  BY CallsSound, SMTT(30) DEF Call
<1>1. PICK address \in SlugOf(c) :
       tx' = [s \in Requests |->
         IF s = r
         THEN [Idle EXCEPT !.stage = "connect", !.left = Lists(c), !.slug = address,
                 !.config = restored, !.overlaps = overlaps, !.call = Looked(c, address)]
         ELSE IF s \in mates THEN [tx[s] EXCEPT !.overlaps = @ \cup {"config"}]
         ELSE tx[s]]
  BY Zenon DEF Start, Mates, Looked
<1>2. /\ address \in Slugs \cup {Keep}
      /\ c.op = "create" /\ KindOf[c.id] = "page" => address # Keep
  <2>1. c.slug \in Slugs \cup {Keep}
    BY <1>0 DEF Call
  <2> QED  BY <1>0, <2>1, WorkspaceAssumption DEF SlugOf, uniqueSlug
<1>3. /\ restored \in Config \cup {Keep}
      /\ c.config # Keep => c.id \in Having("channel")
  <2>1. c.config \in Config \cup {Keep}
    BY <1>0 DEF Call
  <2>2. c.config # Keep => c.id \in Having("channel")
    BY <1>0, SMTT(30) DEF Handled, Having
  <2> QED  BY <2>1, <2>2, RestoredTyped DEF TxInv, Typed0
<1>4. LET d == Looked(c, address) IN
         /\ d \in CallType /\ CallOK(d) /\ d.id = c.id /\ d.op = c.op /\ d.config = c.config
         /\ Lists(d) = Lists(c) /\ d.group = c.group
         /\ address # Keep => d.columns
  BY LookedSound DEF Start
<1>5. Lists(c) \in SUBSET Kinds
  BY TheLists DEF Lists, Kinds
<1>6. overlaps \in SUBSET (Kinds \cup {"config"}) /\ \A s \in mates : "config" \in overlaps
  OBVIOUS
<1> DEFINE d == Looked(c, address)
           with == [Idle EXCEPT !.stage = "connect", !.left = Lists(c), !.slug = address,
                      !.config = restored, !.overlaps = overlaps, !.call = d]
<1> HIDE DEF d, overlaps, restored, mates
<1>7. /\ with \in Transaction
      /\ with.stage = "connect" /\ with.left = Lists(c) /\ with.slug = address
      /\ with.config = restored /\ with.overlaps = overlaps /\ with.call = d
      /\ with.seen = Idle.seen /\ with.gone = Idle.gone /\ with.new = Idle.new
      /\ with.lock = Idle.lock /\ with.shared = Idle.shared /\ with.done = Idle.done
  BY <1>2, <1>3, <1>4, <1>5, <1>6, IdleTyped DEF Transaction, Stages, d
<1>8. tx'[r] = with
  BY <1>1 DEF d
<1>9. ASSUME NEW s \in Requests \ {r}
      PROVE  /\ tx'[s] \in Transaction /\ Aside(s) /\ tx'[s].seen = tx[s].seen
             /\ s \in mates => "config" \in tx'[s].overlaps
  <2>0. tx[s] \in Transaction
    BY DEF TxInv, Typed0
  <2>1. CASE s \in mates
    <3>1. tx'[s] = [tx[s] EXCEPT !.overlaps = @ \cup {"config"}]
      BY <1>1, <2>1
    <3> QED  BY <2>0, <3>1 DEF Transaction, Aside
  <2>2. CASE s \notin mates
    BY <1>1, <2>0, <2>2 DEF Aside
  <2> QED  BY <2>1, <2>2
<1>10. tx' \in [Requests -> Transaction]
  BY <1>1, <1>7, <1>8, <1>9
<1>11. /\ Idle.seen = {} /\ Idle.gone = {} /\ Idle.new = {} /\ Idle.lock = {} /\ Idle.shared = {}
       /\ DOMAIN Idle.done = {}
  BY DEF Idle
<1>12. mates \subseteq Requests \ {r}
  BY SMTT(30) DEF mates, Mates, Others
<1>13. /\ At(r, "idle")
       /\ IF c.op = "create" THEN Creatable(r, c.id) ELSE c.id \in Live
  BY DEF Start
<1>14. Started(r, c)
  <2>1. /\ tx'[r].stage = "connect" /\ tx'[r].left = Lists(tx'[r].call) /\ tx'[r].call = d
        /\ tx'[r].slug = address /\ tx'[r].config = restored /\ tx'[r].overlaps = overlaps
        /\ tx'[r].seen = {} /\ tx'[r].gone = {} /\ tx'[r].new = {} /\ tx'[r].lock = {}
        /\ tx'[r].shared = {} /\ DOMAIN tx'[r].done = {}
    BY <1>4, <1>7, <1>8, <1>11 DEF d
  <2>2. \A s \in Mates(r, c) : "config" \in overlaps /\ "config" \in tx'[s].overlaps
    BY <1>6, <1>9, <1>12 DEF mates
  <2>3. restored = IF c.op = "patch" /\ c.config # Keep THEN restoreRedacted(c.config, config[c.id])
                   ELSE c.config
    BY DEF restored
  <2> QED  BY <1>2, <1>3, <1>4, <1>13, <2>1, <2>2, <2>3 DEF Started, d
<1> QED  BY <1>9, <1>10, <1>14, Zenon DEF Start

-----------------------------------------------------------------------------
(* The shape of a request.                                                 *)

LEMMA TxStep ==
  ASSUME TxInv, NEW r \in Requests, Typed0', \A s \in Requests \ {r} : Aside(s),
         IF tx'[r].stage = "idle" THEN tx'[r].seen = {} ELSE Shape(tx'[r]) /\ ListShape(tx'[r])
  PROVE  TxInv'
<1>1. ASSUME NEW s \in Requests \ {r}
      PROVE  IF tx'[s].stage = "idle" THEN tx'[s].seen = {} ELSE Shape(tx'[s]) /\ ListShape(tx'[s])
  <2>1. CASE At(s, "idle")
    BY <2>1 DEF TxInv, Aside, At
  <2>2. CASE ~At(s, "idle")
    BY <2>2, ShapesAside DEF TxInv, Aside, At
  <2> QED  BY <2>1, <2>2
<1> QED  BY <1>1 DEF TxInv, At

LEMMA QuietTypes ==
  ASSUME Typed0, Quiet, tx' \in [Requests -> Transaction]
  PROVE  Typed0'
BY DEF Typed0, Quiet, tables

LEMMA BusyShapes ==
  ASSUME TxInv, NEW r \in Busy
  PROVE  r \in Requests /\ tx[r] \in Transaction /\ Shape(tx[r]) /\ ListShape(tx[r]) /\ CallOK(tx[r].call)
         /\ Id(r) \in Objects
BY DEF TxInv, Typed0, Busy, Shape, CallOK, Id

LEMMA TxFail ==
  ASSUME TxInv, NEW r \in Requests, Fail(r)
  PROVE  TxInv'
<1>1. /\ tx' \in [Requests -> Transaction] /\ tx'[r] = Idle
      /\ \A s \in Requests \ {r} : Aside(s)
  BY Ends DEF Fail, TxInv
<1>2. Idle.stage = "idle" /\ Idle.seen = {}
  BY DEF Idle
<1>3. Typed0'
  BY <1>1, QuietTypes DEF Fail, Quiet, TxInv
<1> QED  BY <1>1, <1>2, <1>3, TxStep

LEMMA TxStart ==
  ASSUME TxInv, NEW r \in Requests, NEW c \in Calls, calls < MaxCalls, Start(r, c)
  PROVE  TxInv'
<1>1. /\ tx' \in [Requests -> Transaction] /\ Started(r, c)
      /\ \A s \in Requests \ {r} : Aside(s)
      /\ UNCHANGED <<tables, asked, mixed, typed>> /\ calls' = calls + 1
  BY StartStep
<1>2. Typed0'
  <2>1. calls' \in 0..MaxCalls
    BY <1>1, WorkspaceAssumption DEF TxInv, Typed0
  <2> QED  BY <1>1, <2>1 DEF TxInv, Typed0, tables
<1>3. Keep \notin Config
  BY WorkspaceAssumption
<1>4. tx'[r].config = Keep <=> c.config = Keep
  <2>1. c.config \in Config \cup {Keep} /\ (c.config # Keep => c.id \in Having("channel"))
    BY <1>1, CallsSound DEF Call, Started
  <2> QED  BY <1>1, <1>3, <2>1, RestoredTyped DEF Started, TxInv, Typed0
<1>5. Shape(tx'[r])
  BY <1>1, <1>4 DEF Started, Shape
<1>6. ListShape(tx'[r])
  BY <1>1 DEF Started, ListShape
<1> QED  BY <1>1, <1>2, <1>5, <1>6, TxStep DEF Started

LEMMA TxConnect ==
  ASSUME TxInv, NEW r \in Requests, Connect(r)
  PROVE  TxInv'
<1>1. /\ tx' \in [Requests -> Transaction] /\ Untouched(r) /\ Quiet
      /\ SameRow(r) /\ SameLocks(r) /\ SameLists(r)
      /\ At(r, "connect") /\ tx'[r].stage = "row"
  BY ConnectStep DEF TxInv
<1>2. Shape(tx[r]) /\ ListShape(tx[r])
  BY <1>1 DEF TxInv, At
<1>3. Shape(tx'[r])
  BY <1>1, <1>2 DEF Shape, SameRow, SameLocks, SameLists, At
<1>4. ListShape(tx'[r])
  BY <1>1, <1>2 DEF ListShape, SameRow, SameLocks, SameLists, At, Current
<1> QED  BY <1>1, <1>3, <1>4, Alone, QuietTypes, TxStep DEF TxInv

LEMMA TxWriteRow ==
  ASSUME TxInv, NEW r \in Requests, WriteRow(r)
  PROVE  TxInv'
<1>1. /\ tx' \in [Requests -> Transaction] /\ Untouched(r) /\ Quiet
      /\ SameRow(r) /\ SameLists(r)
      /\ At(r, "row") /\ tx'[r].stage = After(tx[r].left) /\ ~Deletes(r)
      /\ tx'[r].lock = IF tx[r].call.columns /\ (Creating(r) \/ Id(r) \in Live) THEN {Id(r)} ELSE {}
      /\ tx'[r].shared = {tx[r].call.group} \cap Objects
  BY WriteRowStep
<1>2. Shape(tx[r]) /\ ListShape(tx[r])
  BY <1>1 DEF TxInv, At
<1>3. tx'[r].stage \in {"list", "commit"} /\ (tx'[r].stage = "list" <=> tx[r].left # {})
  BY <1>1 DEF After
<1>4. Creating(r) => tx[r].call.columns
  BY <1>2 DEF Shape, CallOK, Handled, Creating
<1>5. tx'[r].lock \subseteq {tx'[r].call.id} /\ (Creating(r) => tx'[r].lock = {tx'[r].call.id})
  BY <1>1, <1>4 DEF SameRow, Id
<1>6. Shape(tx'[r])
  BY <1>1, <1>2, <1>3, <1>5 DEF Shape, SameRow, SameLists, At, Deletes, Creating
<1>7. ListShape(tx'[r])
  <2>1. DOMAIN tx[r].done = {} /\ tx[r].shared = {}
    BY <1>1, <1>2 DEF Shape, At
  <2>2. tx[r].gone = {} /\ tx[r].new = {}
    BY <1>2, <2>1 DEF ListShape
  <2> QED  BY <1>1, <1>2, <1>3, <2>1, <2>2 DEF ListShape, SameRow, SameLists, At, Current
<1> QED  BY <1>1, <1>3, <1>6, <1>7, Alone, QuietTypes, TxStep DEF TxInv

LEMMA TxLockRow ==
  ASSUME TxInv, NEW r \in Requests, LockRow(r)
  PROVE  TxInv'
<1>1. /\ tx' \in [Requests -> Transaction] /\ Untouched(r) /\ Quiet
      /\ SameRow(r) /\ SameLists(r) /\ tx'[r].shared = tx[r].shared
      /\ At(r, "row") /\ tx'[r].stage = "cascade" /\ Deletes(r)
      /\ tx'[r].lock = {Id(r)}
  BY LockRowStep
<1>2. Shape(tx[r]) /\ ListShape(tx[r])
  BY <1>1 DEF TxInv, At
<1>3. Shape(tx'[r])
  BY <1>1, <1>2 DEF Shape, SameRow, SameLists, At, Deletes, Id
<1>4. ListShape(tx'[r])
  <2>1. DOMAIN tx[r].done = {}
    BY <1>1, <1>2 DEF Shape, At
  <2>2. tx[r].gone = {} /\ tx[r].new = {}
    BY <1>2, <2>1 DEF ListShape
  <2> QED  BY <1>1, <1>2, <2>1, <2>2 DEF ListShape, SameRow, SameLists, At, Current
<1> QED  BY <1>1, <1>3, <1>4, Alone, QuietTypes, TxStep DEF TxInv

LEMMA LinksTyped ==
  ASSUME Typed0, NEW o \in Objects, NEW kind
  PROVE  Links(o, kind) \subseteq Of(o, kind)
BY DEF Typed0, Links, Of, Pairs

LEMMA TxBeginList ==
  ASSUME TxInv, NEW r \in Requests, BeginList(r)
  PROVE  TxInv'
<1>1. /\ tx' \in [Requests -> Transaction] /\ Quiet
      /\ SameRow(r) /\ SameLocks(r)
      /\ \A s \in Requests \ {r} : Aside(s)
      /\ SkipsList(r) \/ \E kind \in tx[r].left : BeginsList(r, kind)
  BY BeginListStep
<1>2. At(r, "list") /\ r \in Busy
  BY <1>1 DEF SkipsList, BeginsList, Busy, At
<1>3. Shape(tx[r]) /\ ListShape(tx[r]) /\ Id(r) \in Objects /\ tx[r].left # {}
  BY <1>2, BusyShapes DEF ListShape, At
<1>4. DOMAIN tx[r].done \cap tx[r].left = {} /\ tx[r].seen = {}
  BY <1>2, <1>3 DEF ListShape, At
<1>5. CASE SkipsList(r)
  <2>1. tx'[r].stage \in {"list", "commit"} /\ (tx'[r].stage = "list" <=> tx'[r].left # {})
    BY <1>5 DEF After, SkipsList
  <2>2. Shape(tx'[r])
    BY <1>1, <1>2, <1>3, <1>5, <2>1 DEF Shape, SameRow, SameLocks, SkipsList, At
  <2>3. ListShape(tx'[r])
    BY <1>1, <1>2, <1>3, <1>4, <1>5, <2>1 DEF ListShape, SameRow, SameLocks, SkipsList, At, Current
  <2> QED  BY <1>1, <2>1, <2>2, <2>3, QuietTypes, TxStep DEF TxInv
<1>6. ASSUME NEW kind \in tx[r].left, BeginsList(r, kind)
      PROVE  TxInv'
  <2>1. tx'[r].stage = "clear" /\ kind = Current(tx'[r]) /\ kind \in Lists(tx[r].call)
    BY <1>3, <1>6 DEF BeginsList, Current, ListShape
  <2>2. Shape(tx'[r])
    BY <1>1, <1>2, <1>3, <2>1 DEF Shape, SameRow, SameLocks, At
  <2>3. /\ ListFound(r, kind) \subseteq Linkable(Id(r), kind)
        /\ kind = "region" => ListFound(r, kind) # {}
    BY <1>2, <2>1, FoundOK
  <2>4. tx'[r].seen \subseteq Of(tx'[r].call.id, Current(tx'[r]))
    BY <1>1, <1>3, <1>6, <2>1, LinksTyped DEF BeginsList, SameRow, Id, TxInv
  <2>5. kind \notin DOMAIN tx[r].done
    BY <1>4
  <2>6. DOMAIN tx'[r].done = DOMAIN tx[r].done \cup {kind} /\ tx'[r].done[kind] = ListFound(r, kind)
        /\ \A k \in DOMAIN tx[r].done : tx'[r].done[k] = tx[r].done[k]
    BY <1>6, <2>5 DEF BeginsList
  <2>7. /\ tx'[r].call = tx[r].call /\ tx'[r].left = tx[r].left /\ tx'[r].gone = tx[r].gone
        /\ tx'[r].new = tx[r].new /\ tx'[r].shared = tx[r].shared /\ tx'[r].found = ListFound(r, kind)
    BY <1>1, <1>6 DEF BeginsList, SameRow, SameLocks
  <2>8. \A k \in DOMAIN tx'[r].done : tx'[r].done[k] \subseteq Linkable(Id(r), k)
    BY <1>3, <2>3, <2>6 DEF ListShape, Id
  <2>9. "region" \in DOMAIN tx'[r].done => tx'[r].done["region"] # {}
    BY <1>3, <2>3, <2>6 DEF ListShape
  <2>10. \A l \in tx'[r].gone \cup tx'[r].new : /\ l[1] = Id(r) /\ KindOf[l[2]] \in DOMAIN tx'[r].done
                                                /\ KindOf[l[2]] # kind
    BY <1>3, <2>5, <2>6, <2>7 DEF ListShape, Id
  <2>11. \A l \in tx'[r].new : l[2] \in tx'[r].done[KindOf[l[2]]] /\ {l[1], l[2]} \subseteq tx'[r].shared
    BY <1>3, <2>6, <2>7, <2>10 DEF ListShape
  <2>12. DOMAIN tx'[r].done \cap tx'[r].left = {kind} /\ DOMAIN tx'[r].done \subseteq Lists(tx[r].call)
         /\ tx'[r].left \subseteq Lists(tx[r].call)
    BY <1>3, <1>4, <2>1, <2>6, <2>7 DEF ListShape
  <2>13. ListShape(tx'[r])
    BY <1>3, <2>1, <2>4, <2>6, <2>7, <2>8, <2>9, <2>10, <2>11, <2>12 DEF ListShape, Id
  <2> QED  BY <1>1, <2>1, <2>2, <2>13, QuietTypes, TxStep DEF TxInv
<1> QED  BY <1>1, <1>5, <1>6

LEMMA TxClear ==
  ASSUME TxInv, NEW r \in Requests, Clear(r)
  PROVE  TxInv'
<1>1. /\ tx' \in [Requests -> Transaction] /\ Untouched(r) /\ Quiet
      /\ SameRow(r) /\ SameLocks(r)
      /\ At(r, "clear") /\ tx'[r].seen = {} /\ tx'[r].gone = tx[r].gone \cup (tx[r].seen \cap links)
      /\ tx'[r].found = tx[r].found /\ tx'[r].new = tx[r].new /\ tx'[r].done = tx[r].done
      /\ IF tx[r].found = {}
         THEN tx'[r].left = tx[r].left \ {Current(tx[r])} /\ tx'[r].stage = After(tx'[r].left)
         ELSE tx'[r].left = tx[r].left /\ tx'[r].stage = "insert"
  BY ClearStep
<1>2. Shape(tx[r]) /\ ListShape(tx[r])
  BY <1>1 DEF TxInv, At
<1>3. /\ tx'[r].stage \in {"list", "commit", "insert"} /\ (tx'[r].stage # "insert" <=> tx[r].found = {})
      /\ tx'[r].stage = "list" => tx'[r].left # {}
      /\ tx'[r].stage = "commit" => tx'[r].left = {}
      /\ tx'[r].left \subseteq tx[r].left
  BY <1>1 DEF After
<1>4. Shape(tx'[r])
  BY <1>1, <1>2, <1>3 DEF Shape, SameRow, SameLocks, At
<1>5. /\ Current(tx[r]) \in DOMAIN tx[r].done
      /\ \A l \in tx[r].seen : l[1] = tx[r].call.id /\ KindOf[l[2]] = Current(tx[r])
  BY <1>1, <1>2 DEF ListShape, At, Of
<1>6. \A l \in tx'[r].gone : l[1] = tx[r].call.id /\ KindOf[l[2]] \in DOMAIN tx[r].done
  BY <1>1, <1>2, <1>5 DEF ListShape
<1>7. tx'[r].call = tx[r].call /\ tx'[r].shared = tx[r].shared
  BY <1>1 DEF SameRow, SameLocks
<1>8. ListShape(tx'[r])
  <2>1. CASE tx[r].found = {}
    BY <1>1, <1>2, <1>3, <1>5, <1>6, <1>7, <2>1 DEF ListShape, At
  <2>2. CASE tx[r].found # {}
    <3>1. Current(tx'[r]) = Current(tx[r])
      BY <1>1, <2>2 DEF Current
    <3> QED  BY <1>1, <1>2, <1>3, <1>5, <1>6, <1>7, <2>2, <3>1 DEF ListShape, At
  <2> QED  BY <2>1, <2>2
<1> QED  BY <1>1, <1>3, <1>4, <1>8, Alone, QuietTypes, TxStep DEF TxInv

LEMMA TxInsert ==
  ASSUME TxInv, NEW r \in Requests, InsertLinks(r)
  PROVE  TxInv'
<1>1. /\ tx' \in [Requests -> Transaction] /\ Untouched(r) /\ Quiet
      /\ SameRow(r) /\ tx'[r].lock = tx[r].lock
      /\ At(r, "insert") /\ tx'[r].seen = tx[r].seen /\ tx'[r].gone = tx[r].gone
      /\ tx'[r].new = tx[r].new \cup (({Id(r)} \X tx[r].found) \ (links \ tx[r].gone))
      /\ tx'[r].shared = tx[r].shared \cup tx[r].found \cup {Id(r)}
      /\ tx'[r].found = tx[r].found /\ tx'[r].done = tx[r].done
      /\ tx'[r].left = tx[r].left \ {Current(tx[r])} /\ tx'[r].stage = After(tx'[r].left)
  BY InsertStep
<1>2. Shape(tx[r]) /\ ListShape(tx[r])
  BY <1>1 DEF TxInv, At
<1>3. /\ tx'[r].stage \in {"list", "commit"}
      /\ tx'[r].stage = "list" => tx'[r].left # {}
      /\ tx'[r].stage = "commit" => tx'[r].left = {}
      /\ tx'[r].left \subseteq tx[r].left
  BY <1>1 DEF After
<1>4. Shape(tx'[r])
  BY <1>1, <1>2, <1>3 DEF Shape, SameRow, At
<1>5. /\ Current(tx[r]) \in DOMAIN tx[r].done /\ tx[r].done[Current(tx[r])] = tx[r].found
      /\ tx[r].seen = {}
      /\ \A o \in tx[r].found : KindOf[o] = Current(tx[r])
  BY <1>1, <1>2 DEF ListShape, At, Linkable
<1>6. \A l \in tx'[r].new : /\ l[1] = tx[r].call.id /\ KindOf[l[2]] \in DOMAIN tx[r].done
                            /\ l[2] \in tx[r].done[KindOf[l[2]]] /\ {l[1], l[2]} \subseteq tx'[r].shared
  <2> TAKE l \in tx'[r].new
  <2>1. CASE l \in tx[r].new
    BY <1>1, <1>2, <2>1 DEF ListShape
  <2>2. CASE l \in {Id(r)} \X tx[r].found
    <3>1. l[1] = Id(r) /\ l[2] \in tx[r].found
      BY <2>2
    <3> QED  BY <1>1, <1>5, <3>1 DEF Id
  <2> QED  BY <1>1, <2>1, <2>2
<1>7. tx'[r].call = tx[r].call
  BY <1>1 DEF SameRow
<1>8. ListShape(tx'[r])
  BY <1>1, <1>2, <1>3, <1>5, <1>6, <1>7 DEF ListShape, At
<1> QED  BY <1>1, <1>3, <1>4, <1>8, Alone, QuietTypes, TxStep DEF TxInv

LEMMA TypedTyped ==
  ASSUME TxInv, NEW r \in Busy, tx[r].config # Keep
  PROVE  Id(r) \in Having("channel") /\ tx[r].config \in Config /\ Typed(r) \in Config
<1>1. tx[r].config \in Config /\ tx[r].call.config # Keep /\ KindOf[Id(r)] = "channel" /\ Id(r) \in Objects
  BY BusyShapes DEF Transaction, Shape, CallOK, Handled, Id
<1>2. tx[r].call.config \in Config
  BY <1>1, BusyShapes DEF CallOK
<1>3. typed[Id(r)] \in Config
  BY <1>1 DEF TxInv, Typed0, Having
<1> QED  BY <1>1, <1>2, <1>3 DEF Typed, Config, Having

LEMMA TxCommit ==
  ASSUME TxInv, NEW r \in Requests, Commit(r)
  PROVE  TxInv'
<1>1. /\ tx' \in [Requests -> Transaction] /\ tx'[r] = Idle
      /\ \A s \in Requests \ {r} : Aside(s)
  BY Ends DEF Commit, TxInv
<1>2. Idle.stage = "idle" /\ Idle.seen = {}
  BY DEF Idle
<1>3. r \in Busy
  BY DEF Commit, Busy, At
<1>4. /\ tx[r] \in Transaction /\ CallOK(tx[r].call) /\ Id(r) \in Objects
      /\ tx[r].call.group \in Having("group") \cup {NoGroup, Keep}
  BY <1>3, BusyShapes DEF CallOK
<1>5. life' \in [Objects -> {"unborn", "live", "deleted"}]
  BY <1>4 DEF Commit, TxInv, Typed0
<1>6. group' \in [Having("monitor") -> Having("group") \cup {NoGroup}]
  BY <1>4 DEF Commit, TxInv, Typed0
<1>7. slug' \in [Having("page") -> Slugs]
  <2>1. tx[r].slug \in Slugs \cup {Keep}
    BY <1>4 DEF Transaction
  <2> QED  BY <2>1 DEF Commit, TxInv, Typed0
<1>8. config' \in [Having("channel") -> Config] /\ typed' \in [Having("channel") -> Config]
  BY <1>3, TypedTyped DEF Commit, TxInv, Typed0
<1>9. links' \subseteq Pairs
  BY <1>4 DEF Commit, TxInv, Typed0, Transaction
<1>10. asked' \in [Listed -> SUBSET Objects]
  <2>1. \A k \in DOMAIN tx[r].done : tx[r].done[k] \subseteq Objects
    BY <1>4, Replacing DEF Transaction
  <2>2. asked' = [l \in DOMAIN asked |->
                    IF l[1] = Id(r) /\ l[2] \in DOMAIN tx[r].done THEN tx[r].done[l[2]] ELSE asked[l]]
    BY DEF Commit
  <2> QED  BY <2>1, <2>2 DEF TxInv, Typed0
<1>11. calls' = calls
  BY DEF Commit
<1>12. Typed0'
  BY <1>1, <1>5, <1>6, <1>7, <1>8, <1>9, <1>10, <1>11 DEF TxInv, Typed0
<1> QED  BY <1>1, <1>2, <1>12, TxStep

LEMMA TxCascade ==
  ASSUME TxInv, NEW r \in Requests, Cascade(r)
  PROVE  TxInv'
<1>1. /\ tx' \in [Requests -> Transaction] /\ tx'[r] = Idle
      /\ \A s \in Requests \ {r} : Aside(s)
  BY Ends DEF Cascade, TxInv
<1>2. Idle.stage = "idle" /\ Idle.seen = {}
  BY DEF Idle
<1>3. life' \in [Objects -> {"unborn", "live", "deleted"}] /\ links' \subseteq Pairs
  BY DEF Cascade, TxInv, Typed0
<1>4. group' \in [Having("monitor") -> Having("group") \cup {NoGroup}]
  BY DEF Cascade, TxInv, Typed0
<1>5. asked' \in [Listed -> SUBSET Objects]
  BY DEF Cascade, TxInv, Typed0
<1>6. Typed0'
  BY <1>1, <1>3, <1>4, <1>5 DEF Cascade, TxInv, Typed0
<1> QED  BY <1>1, <1>2, <1>6, TxStep

-----------------------------------------------------------------------------
(* Rows and locks.                                                         *)

\* What RowInv and the next ones ask of a step that commits nothing.
LEMMA RowStep ==
  ASSUME RowInv, NEW r \in Requests, UNCHANGED life, \A s \in Requests \ {r} : Aside(s),
         tx'[r].stage # "idle" => RowOK(r)',
         tx'[r].stage # "idle" => \A s \in Busy \ {r} : LockOK(r, s)' /\ LockOK(s, r)'
  PROVE  RowInv'
<1>1. \A s \in Requests \ {r} : /\ At(s, "idle")' <=> At(s, "idle")
                                /\ Id(s)' = Id(s) /\ (Creating(s)' <=> Creating(s))
                                /\ (Deletes(s)' <=> Deletes(s)) /\ (At(s, "cascade")' <=> At(s, "cascade"))
                                /\ tx'[s].lock = tx[s].lock /\ tx'[s].shared = tx[s].shared
  BY DEF Aside, At, Id, Creating, Deletes
<1>2. Live' = Live
  BY DEF Live
<1>3. ASSUME NEW s \in Busy'
      PROVE  RowOK(s)'
  <2>1. CASE s = r
    BY <1>3, <2>1 DEF Busy, At
  <2>2. CASE s # r
    <3>1. s \in Busy /\ RowOK(s) /\ s \in Requests \ {r}
      BY <1>1, <1>3, <2>2 DEF Busy, RowInv
    <3> QED  BY <1>1, <1>2, <3>1 DEF RowOK
  <2> QED  BY <2>1, <2>2
<1>4. ASSUME NEW s \in Busy', NEW u \in Busy', s # u
      PROVE  LockOK(s, u)'
  <2>1. CASE s = r \/ u = r
    <3>1. tx'[r].stage # "idle"
      BY <1>4, <2>1 DEF Busy, At
    <3>2. (s # r => s \in Busy) /\ (u # r => u \in Busy)
      BY <1>1, <1>4 DEF Busy
    <3> QED  BY <1>4, <2>1, <3>1, <3>2
  <2>2. CASE s # r /\ u # r
    <3>1. s \in Busy /\ u \in Busy /\ LockOK(s, u)
      BY <1>1, <1>4, <2>2 DEF Busy, RowInv
    <3> QED  BY <1>1, <2>2, <3>1 DEF LockOK, Busy
  <2> QED  BY <2>1, <2>2
<1> QED  BY <1>3, <1>4 DEF RowInv

\* The same, for a step that leaves its locks alone.
LEMMA RowKept ==
  ASSUME RowInv, NEW r \in Busy, UNCHANGED life, \A s \in Requests \ {r} : Aside(s),
         SameRow(r), SameLocks(r), tx'[r].stage # "cascade"
  PROVE  RowInv'
<1>1. Id(r)' = Id(r) /\ (Creating(r)' <=> Creating(r)) /\ (Deletes(r)' <=> Deletes(r)) /\ Live' = Live
  BY DEF SameRow, Id, Creating, Deletes, Live
<1>2. r \in Requests /\ RowOK(r) /\ RowOK(r)'
  BY <1>1 DEF RowOK, RowInv, SameLocks, At, Busy
<1>3. ASSUME NEW s \in Busy \ {r}
      PROVE  LockOK(r, s)' /\ LockOK(s, r)'
  <2>1. Id(s)' = Id(s) /\ (Creating(s)' <=> Creating(s)) /\ (Deletes(s)' <=> Deletes(s))
        /\ tx'[s].lock = tx[s].lock /\ tx'[s].shared = tx[s].shared
    BY DEF Aside, Id, Creating, Deletes, Busy
  <2>2. LockOK(r, s) /\ LockOK(s, r)
    BY DEF RowInv
  <2> QED  BY <1>1, <2>1, <2>2 DEF LockOK, SameLocks
<1> QED  BY <1>2, <1>3, RowStep

LEMMA RowFail ==
  ASSUME TxInv, RowInv, NEW r \in Requests, Fail(r)
  PROVE  RowInv'
BY Ends, RowStep DEF Fail, TxInv, Idle, tables

\* Whom a statement does not wait for.
LEMMA RowWaits ==
  ASSUME NEW r, At(r, "row"), Blockers(r) = {}
  PROVE  /\ Deletes(r) => \A s \in Others(r) : Id(r) \notin tx[s].lock \cup tx[s].shared
         /\ ~Deletes(r) /\ tx[r].call.columns =>
              /\ \A s \in Others(r) : Id(r) \notin tx[s].lock
              /\ Deleting(r, tx[r].call.group) = {} /\ Claiming(r) = {}
<1>1. CASE Deletes(r)
  <2>1. Blockers(r) = {s \in Others(r) : Id(r) \in tx[s].lock \cup tx[s].shared}
    BY <1>1, Zenon DEF Blockers, At, Deletes
  <2> QED  BY <1>1, <2>1
<1>2. CASE ~Deletes(r) /\ tx[r].call.columns
  <2>1. Blockers(r) = {s \in Others(r) : Id(r) \in tx[s].lock} \cup Deleting(r, tx[r].call.group)
                      \cup Claiming(r)
    BY <1>2, Zenon DEF Blockers, Lockers, At, Deletes
  <2> QED  BY <1>2, <2>1
<1> QED  BY <1>1, <1>2

LEMMA ClearWaits ==
  ASSUME NEW r, At(r, "clear"), Blockers(r) = {}
  PROVE  \A s \in Others(r) : tx[s].gone \cap tx[r].seen = {}
<1>1. "clear" # "row"
  OBVIOUS
<1>2. Blockers(r) = {s \in Others(r) : tx[s].gone \cap tx[r].seen # {}}
  BY <1>1, Zenon DEF Blockers, At
<1> QED  BY <1>2

LEMMA InsertWaits ==
  ASSUME NEW r, At(r, "insert"), Blockers(r) = {}
  PROVE  \A s \in Others(r) :
           /\ Deletes(s) => tx[s].lock \cap (tx[r].found \cup {Id(r)}) = {}
           /\ \A o \in tx[r].found : <<Id(r), o>> \notin tx[s].gone \cup tx[s].new
<1>1. "insert" # "row" /\ "insert" # "clear"
  OBVIOUS
<1>2. Blockers(r) =
        {s \in Others(r) : \/ Deletes(s) /\ tx[s].lock \cap (tx[r].found \cup {Id(r)}) # {}
                           \/ ({Id(r)} \X tx[r].found) \cap (tx[s].gone \cup tx[s].new) # {}}
  BY <1>1, Zenon DEF Blockers, At
<1> QED  BY <1>2

LEMMA CascadeWaits ==
  ASSUME NEW r, At(r, "cascade"), Blockers(r) = {}
  PROVE  \A s \in Others(r) : tx[s].gone \cap LinksWith(Id(r)) = {}
<1>1. "cascade" # "row" /\ "cascade" # "clear" /\ "cascade" # "insert"
  OBVIOUS
<1>2. Blockers(r) = {s \in Others(r) : tx[s].gone \cap LinksWith(Id(r)) # {}
                                       \/ tx[s].lock \cap Grouped(Id(r)) # {}}
  BY <1>1, Zenon DEF Blockers, At
<1> QED  BY <1>2

LEMMA BusyOthers ==
  ASSUME NEW r
  PROVE  Busy \ {r} = Others(r)
BY DEF Busy, Others

LEMMA RowStart ==
  ASSUME TxInv, RowInv, NEW r \in Requests, NEW c \in Calls, Start(r, c)
  PROVE  RowInv'
<1>1. /\ Started(r, c) /\ \A s \in Requests \ {r} : Aside(s)
      /\ life' = life
  BY StartStep DEF tables
<1>2. /\ Id(r)' = c.id /\ (Creating(r)' <=> c.op = "create") /\ (Deletes(r)' <=> c.op = "delete")
      /\ tx'[r].lock = {} /\ tx'[r].shared = {} /\ tx'[r].stage = "connect"
      /\ IF c.op = "create" THEN Creatable(r, c.id) ELSE c.id \in Live
  BY <1>1 DEF Started, Id, Creating, Deletes
<1>3. c.op = "create" /\ KindOf[c.id] # "tag" => life[c.id] = "unborn" /\ \A s \in Others(r) : Id(s) # c.id
  BY <1>2 DEF Creatable
<1>4. RowOK(r)'
  BY <1>1, <1>2, <1>3 DEF RowOK, Live, At
<1>5. ASSUME NEW s \in Busy \ {r}
      PROVE  LockOK(r, s)' /\ LockOK(s, r)'
  <2>1. Id(s)' = Id(s) /\ (Creating(s)' <=> Creating(s)) /\ (Deletes(s)' <=> Deletes(s))
        /\ tx'[s].lock = tx[s].lock /\ tx'[s].shared = tx[s].shared
    BY <1>1 DEF Aside, Id, Creating, Deletes, Busy
  <2>2. s \in Others(r)
    BY BusyOthers
  <2>3. LockOK(r, s)'
    BY <1>2, <1>3, <2>1, <2>2 DEF LockOK
  <2>4. Creating(s) /\ KindOf[Id(s)] # "tag" => Id(s) # c.id
    <3>1. Creating(s) /\ KindOf[Id(s)] # "tag" => life[Id(s)] = "unborn"
      BY DEF RowInv, RowOK
    <3> QED  BY <1>2, <1>3, <2>2, <3>1 DEF Live
  <2>5. LockOK(s, r)'
    BY <1>2, <2>1, <2>4 DEF LockOK
  <2> QED  BY <2>3, <2>5
<1> QED  BY <1>1, <1>4, <1>5, RowStep

LEMMA RowWriteRow ==
  ASSUME TxInv, RowInv, NEW r \in Requests, WriteRow(r)
  PROVE  RowInv'
<1>1. /\ Untouched(r) /\ life' = life /\ SameRow(r)
      /\ At(r, "row") /\ tx'[r].stage = After(tx[r].left) /\ ~Deletes(r)
      /\ tx'[r].lock = IF tx[r].call.columns /\ (Creating(r) \/ Id(r) \in Live) THEN {Id(r)} ELSE {}
      /\ tx'[r].shared = {tx[r].call.group} \cap Objects
  BY WriteRowStep DEF Quiet, tables
<1>2. r \in Busy /\ RowOK(r) /\ Shape(tx[r])
  BY <1>1, BusyShapes DEF Busy, At, RowInv
<1>3. Id(r)' = Id(r) /\ (Creating(r)' <=> Creating(r)) /\ (Deletes(r)' <=> Deletes(r)) /\ Live' = Live
  BY <1>1 DEF SameRow, Id, Creating, Deletes, Live
<1>4. Blockers(r) = {} /\ ~RowRefused(r)
  BY DEF WriteRow
<1>5. tx[r].call.group \in Objects => tx[r].call.columns /\ tx[r].call.group \in Live
  BY <1>2, <1>4, WorkspaceAssumption DEF RowRefused, Shape, CallOK, Handled
<1>6. RowOK(r)'
  <2>1. tx'[r].stage # "cascade"
    BY <1>1 DEF After
  <2> QED  BY <1>1, <1>2, <1>3, <1>5, <2>1 DEF RowOK, At
<1>7. ASSUME NEW s \in Busy \ {r}
      PROVE  LockOK(r, s)' /\ LockOK(s, r)'
  <2>1. tx'[s] = tx[s] /\ s \in Others(r)
    BY <1>1, BusyOthers DEF Untouched, Busy
  <2>2. LockOK(r, s) /\ LockOK(s, r)
    BY <1>2 DEF RowInv
  <2>3. tx[r].call.columns => Id(r) \notin tx[s].lock
    BY <1>1, <1>4, <2>1, RowWaits
  <2>4. tx[r].call.group \in Objects /\ Deletes(s) => tx[r].call.group \notin tx[s].lock
    BY <1>1, <1>4, <1>5, <2>1, RowWaits DEF Deleting
  <2>5. LockOK(r, s)'
    BY <1>1, <1>3, <2>1, <2>2, <2>3 DEF LockOK, Id
  <2>6. LockOK(s, r)'
    BY <1>1, <1>3, <2>1, <2>2, <2>3, <2>4 DEF LockOK, Id, Deletes, Creating
  <2> QED  BY <2>5, <2>6
<1> QED  BY <1>1, <1>6, <1>7, Alone, RowStep

LEMMA RowLockRow ==
  ASSUME TxInv, RowInv, NEW r \in Requests, LockRow(r)
  PROVE  RowInv'
<1>1. /\ Untouched(r) /\ life' = life /\ SameRow(r) /\ tx'[r].shared = tx[r].shared
      /\ At(r, "row") /\ tx'[r].stage = "cascade" /\ Deletes(r) /\ tx'[r].lock = {Id(r)}
  BY LockRowStep DEF Quiet, tables
<1>2. r \in Busy /\ RowOK(r)
  BY <1>1 DEF Busy, At, RowInv
<1>3. Id(r)' = Id(r) /\ (Creating(r)' <=> Creating(r)) /\ (Deletes(r)' <=> Deletes(r)) /\ Live' = Live
  BY <1>1 DEF SameRow, Id, Creating, Deletes, Live
<1>4. RowOK(r)'
  BY <1>1, <1>2, <1>3 DEF RowOK, LockRow
<1>5. ASSUME NEW s \in Busy \ {r}
      PROVE  LockOK(r, s)' /\ LockOK(s, r)'
  <2>1. tx'[s] = tx[s] /\ s \in Others(r)
    BY <1>1, BusyOthers DEF Untouched, Busy
  <2>2. LockOK(r, s) /\ LockOK(s, r)
    BY <1>2 DEF RowInv
  <2>3. Id(r) \notin tx[s].lock \cup tx[s].shared
    BY <1>1, <2>1, RowWaits DEF LockRow
  <2>4. LockOK(r, s)'
    BY <1>1, <1>3, <2>1, <2>2, <2>3 DEF LockOK, Id
  <2>5. LockOK(s, r)'
    BY <1>1, <1>3, <2>1, <2>2, <2>3 DEF LockOK, Id, Deletes, Creating
  <2> QED  BY <2>4, <2>5
<1> QED  BY <1>1, <1>4, <1>5, Alone, RowStep

LEMMA RowInsert ==
  ASSUME TxInv, RowInv, NEW r \in Requests, InsertLinks(r)
  PROVE  RowInv'
<1>1. /\ Untouched(r) /\ life' = life /\ SameRow(r) /\ tx'[r].lock = tx[r].lock
      /\ At(r, "insert") /\ tx'[r].stage = After(tx'[r].left)
      /\ tx'[r].shared = tx[r].shared \cup tx[r].found \cup {Id(r)}
  BY InsertStep DEF Quiet, tables
<1>2. r \in Busy /\ RowOK(r) /\ tx[r].found \subseteq Objects
  BY <1>1, BusyShapes DEF Busy, At, RowInv, Transaction
<1>3. Id(r)' = Id(r) /\ (Creating(r)' <=> Creating(r)) /\ (Deletes(r)' <=> Deletes(r)) /\ Live' = Live
  BY <1>1 DEF SameRow, Id, Creating, Deletes, Live
<1>4. tx[r].found \cup {Id(r)} \subseteq Live \cup (IF Creating(r) THEN {Id(r)} ELSE {})
  BY DEF InsertLinks, LinkRefused, Creating
<1>5. RowOK(r)'
  <2>1. tx'[r].stage # "cascade"
    BY <1>1 DEF After
  <2> QED  BY <1>1, <1>2, <1>3, <1>4, <2>1 DEF RowOK, At
<1>6. ASSUME NEW s \in Busy \ {r}
      PROVE  LockOK(r, s)' /\ LockOK(s, r)'
  <2>1. tx'[s] = tx[s] /\ s \in Others(r)
    BY <1>1, BusyOthers DEF Untouched, Busy
  <2>2. LockOK(r, s) /\ LockOK(s, r)
    BY <1>2 DEF RowInv
  <2>3. Deletes(s) => \A o \in tx[r].found \cup {Id(r)} : o \notin tx[s].lock
    BY <1>1, <2>1, InsertWaits DEF InsertLinks
  <2>4. LockOK(r, s)'
    BY <1>1, <1>3, <2>1, <2>2 DEF LockOK, Id
  <2>5. LockOK(s, r)'
    BY <1>1, <1>3, <2>1, <2>2, <2>3 DEF LockOK, Id, Deletes, Creating
  <2> QED  BY <2>4, <2>5
<1> QED  BY <1>1, <1>5, <1>6, Alone, RowStep

\* The requests other than r, where r comes to its end.
LEMMA RowEnd ==
  ASSUME RowInv, NEW r \in Requests, \A s \in Requests \ {r} : Aside(s),
         tx'[r].stage = "idle", \A s \in Busy \ {r} : RowOK(s)'
  PROVE  RowInv'
<1>1. \A s \in Requests \ {r} : /\ At(s, "idle")' <=> At(s, "idle")
                                /\ Id(s)' = Id(s) /\ (Creating(s)' <=> Creating(s))
                                /\ (Deletes(s)' <=> Deletes(s))
                                /\ tx'[s].lock = tx[s].lock /\ tx'[s].shared = tx[s].shared
  BY DEF Aside, At, Id, Creating, Deletes
<1>2. Busy' = Busy \ {r}
  BY <1>1 DEF Busy, At
<1>3. ASSUME NEW s \in Busy', NEW u \in Busy', s # u
      PROVE  LockOK(s, u)'
  BY <1>1, <1>2, <1>3 DEF RowInv, LockOK, Busy
<1> QED  BY <1>2, <1>3 DEF RowInv

LEMMA LifeAfter ==
  ASSUME TxInv, NEW r \in Requests
  PROVE  /\ Commit(r) => /\ Live \subseteq Live' /\ \A o \in Objects \ {Id(r)} : life'[o] = life[o]
                         /\ \A o \in Objects : life[o] # "unborn" => life'[o] = life[o]
                         /\ Live' \subseteq Live \cup {Id(r)}
         /\ Cascade(r) => /\ Live' = Live \ {Id(r)} /\ \A o \in Objects \ {Id(r)} : life'[o] = life[o]
                          /\ life' = [life EXCEPT ![Id(r)] = "deleted"]
BY DEF Commit, Cascade, TxInv, Typed0, Live

LEMMA RowCommit ==
  ASSUME TxInv, RowInv, NEW r \in Requests, Commit(r)
  PROVE  RowInv'
<1>1. tx'[r].stage = "idle" /\ \A s \in Requests \ {r} : Aside(s)
  BY Ends DEF Commit, TxInv, Idle
<1>2. r \in Busy
  BY DEF Commit, Busy, At
<1>3. ASSUME NEW s \in Busy \ {r}
      PROVE  RowOK(s)'
  <2>1. /\ RowOK(s) /\ LockOK(s, r) /\ Id(s) \in Objects
        /\ Id(s)' = Id(s) /\ (Creating(s)' <=> Creating(s)) /\ (At(s, "cascade")' <=> At(s, "cascade"))
        /\ tx'[s].shared = tx[s].shared
    BY <1>1, <1>2, BusyShapes DEF RowInv, Aside, Id, Creating, At, Busy
  <2>2. Creating(s) /\ KindOf[Id(s)] # "tag" => Id(s) # Id(r)
    BY <2>1 DEF LockOK
  <2> QED  BY <2>1, <2>2, LifeAfter DEF RowOK
<1> QED  BY <1>1, <1>3, RowEnd

LEMMA RowCascade ==
  ASSUME TxInv, RowInv, NEW r \in Requests, Cascade(r)
  PROVE  RowInv'
<1>1. tx'[r].stage = "idle" /\ \A s \in Requests \ {r} : Aside(s)
  BY Ends DEF Cascade, TxInv, Idle
<1>2. r \in Busy /\ Deletes(r) /\ tx[r].lock = {Id(r)} /\ Id(r) \in Live
  <2>1. r \in Busy /\ At(r, "cascade")
    BY DEF Cascade, Busy, At
  <2> QED  BY <2>1, BusyShapes DEF Shape, At, Deletes, Id, RowInv, RowOK
<1>3. ASSUME NEW s \in Busy \ {r}
      PROVE  RowOK(s)'
  <2>1. /\ RowOK(s) /\ LockOK(s, r) /\ LockOK(r, s) /\ Id(s) \in Objects /\ Shape(tx[s])
        /\ Id(s)' = Id(s) /\ (Creating(s)' <=> Creating(s)) /\ (At(s, "cascade")' <=> At(s, "cascade"))
        /\ tx'[s].shared = tx[s].shared
    BY <1>1, <1>2, BusyShapes DEF RowInv, Aside, Id, Creating, At, Busy
  <2>2. Id(r) \notin tx[s].shared /\ (At(s, "cascade") => Id(s) # Id(r))
    BY <1>2, <2>1 DEF LockOK, Shape, At, Id
  <2>3. Creating(s) /\ KindOf[Id(s)] # "tag" => Id(s) # Id(r)
    BY <2>1 DEF LockOK
  <2>4. tx'[s].shared \subseteq Live' \cup (IF Creating(s) THEN {Id(s)} ELSE {})
    BY <2>1, <2>2, LifeAfter DEF RowOK
  <2>5. ~Creating(s) => life'[Id(s)] # "unborn"
    <3>1. life' = [life EXCEPT ![Id(r)] = "deleted"] /\ life \in [Objects -> {"unborn", "live", "deleted"}]
      BY LifeAfter DEF TxInv, Typed0
    <3> QED  BY <2>1, <3>1 DEF RowOK
  <2> QED  BY <2>1, <2>2, <2>3, <2>4, <2>5, LifeAfter DEF RowOK
<1> QED  BY <1>1, <1>3, RowEnd

-----------------------------------------------------------------------------
(* Links and groups.                                                       *)

LEMMA LinkStep ==
  ASSUME LinkInv, NEW r \in Requests, UNCHANGED tables, \A s \in Requests \ {r} : Aside(s),
         tx'[r].stage # "idle" =>
           /\ tx'[r].gone \cup tx'[r].seen \subseteq links /\ tx'[r].new \cap links \subseteq tx'[r].gone
           /\ \A s \in Busy \ {r} : tx'[r].gone \cap tx[s].gone = {} /\ tx'[r].new \cap tx[s].new = {}
  PROVE  LinkInv'
<1>1. \A s \in Requests \ {r} : /\ At(s, "idle")' <=> At(s, "idle")
                                /\ tx'[s].gone = tx[s].gone
                                /\ tx'[s].new = tx[s].new /\ tx'[s].seen \subseteq tx[s].seen
  BY DEF Aside, At
<1>2. links' = links /\ Live' = Live
  BY DEF tables, Live
<1>3. Busy' \subseteq Busy \cup {r} /\ (r \in Busy' => tx'[r].stage # "idle") /\ Busy' \subseteq Requests
  BY <1>1 DEF Busy, At
<1>4. \A s \in Busy' : tx'[s].gone \cup tx'[s].seen \subseteq links /\ tx'[s].new \cap links \subseteq tx'[s].gone
  BY <1>1, <1>3 DEF LinkInv
<1>5. ASSUME NEW s \in Busy', NEW u \in Busy', s # u
      PROVE  tx'[s].gone \cap tx'[u].gone = {} /\ tx'[s].new \cap tx'[u].new = {}
  <2>1. CASE s = r
    BY <1>1, <1>3, <1>5, <2>1
  <2>2. CASE u = r
    BY <1>1, <1>3, <1>5, <2>2
  <2>3. CASE s # r /\ u # r
    BY <1>1, <1>3, <1>5, <2>3 DEF LinkInv
  <2> QED  BY <2>1, <2>2, <2>3
<1> QED  BY <1>2, <1>4, <1>5 DEF LinkInv

LEMMA LinkFail ==
  ASSUME TxInv, LinkInv, NEW r \in Requests, Fail(r)
  PROVE  LinkInv'
BY Ends, LinkStep DEF Fail, TxInv, Idle

LEMMA LinkStart ==
  ASSUME TxInv, LinkInv, NEW r \in Requests, NEW c \in Calls, Start(r, c)
  PROVE  LinkInv'
<1>1. /\ Started(r, c) /\ \A s \in Requests \ {r} : Aside(s)
      /\ UNCHANGED tables
  BY StartStep
<1> QED  BY <1>1, LinkStep DEF Started

\* A step that leaves what r has seen, deleted and inserted alone.
LEMMA LinkKept ==
  ASSUME LinkInv, NEW r \in Busy, UNCHANGED tables, Untouched(r),
         tx'[r].seen = tx[r].seen, tx'[r].gone = tx[r].gone, tx'[r].new = tx[r].new
  PROVE  LinkInv'
<1>1. tx[r].gone \cup tx[r].seen \subseteq links /\ tx[r].new \cap links \subseteq tx[r].gone
  BY DEF LinkInv
<1>2. \A s \in Busy \ {r} : tx[r].gone \cap tx[s].gone = {} /\ tx[r].new \cap tx[s].new = {}
  BY DEF LinkInv
<1> QED  BY <1>1, <1>2, Alone, LinkStep DEF Busy

LEMMA LinkBeginList ==
  ASSUME TxInv, LinkInv, NEW r \in Requests, BeginList(r)
  PROVE  LinkInv'
<1>1. /\ UNCHANGED tables /\ \A s \in Requests \ {r} : Aside(s)
      /\ r \in Busy /\ tx'[r].gone = tx[r].gone /\ tx'[r].new = tx[r].new
      /\ tx'[r].seen = tx[r].seen \/ tx'[r].seen \subseteq links
  BY BeginListStep DEF Quiet, SkipsList, BeginsList, Busy, At, Links
<1>2. \A s \in Busy \ {r} : tx[r].gone \cap tx[s].gone = {} /\ tx[r].new \cap tx[s].new = {}
  BY <1>1 DEF LinkInv
<1>3. tx[r].gone \cup tx[r].seen \subseteq links /\ tx[r].new \cap links \subseteq tx[r].gone
  BY <1>1 DEF LinkInv
<1> QED  BY <1>1, <1>2, <1>3, LinkStep

LEMMA LinkClear ==
  ASSUME TxInv, LinkInv, NEW r \in Requests, Clear(r)
  PROVE  LinkInv'
<1>1. /\ UNCHANGED tables /\ Untouched(r) /\ At(r, "clear")
      /\ tx'[r].seen = {} /\ tx'[r].gone = tx[r].gone \cup (tx[r].seen \cap links) /\ tx'[r].new = tx[r].new
  BY ClearStep DEF Quiet
<1>2. r \in Busy
  BY <1>1 DEF Busy, At
<1>3. \A s \in Busy \ {r} : tx[s].gone \cap tx[r].seen = {}
  BY <1>1, BusyOthers, ClearWaits DEF Clear
<1>4. \A s \in Busy \ {r} : tx[r].gone \cap tx[s].gone = {} /\ tx[r].new \cap tx[s].new = {}
  BY <1>2 DEF LinkInv
<1>5. \A s \in Busy \ {r} : tx'[r].gone \cap tx[s].gone = {}
  BY <1>1, <1>3, <1>4
<1>6. tx[r].gone \cup tx[r].seen \subseteq links /\ tx[r].new \cap links \subseteq tx[r].gone
  BY <1>2 DEF LinkInv
<1> QED  BY <1>1, <1>4, <1>5, <1>6, Alone, LinkStep

LEMMA LinkInsert ==
  ASSUME TxInv, LinkInv, NEW r \in Requests, InsertLinks(r)
  PROVE  LinkInv'
<1>1. /\ UNCHANGED tables /\ Untouched(r) /\ At(r, "insert")
      /\ tx'[r].seen = tx[r].seen /\ tx'[r].gone = tx[r].gone
      /\ tx'[r].new = tx[r].new \cup (({Id(r)} \X tx[r].found) \ (links \ tx[r].gone))
  BY InsertStep DEF Quiet
<1>2. r \in Busy
  BY <1>1 DEF Busy, At
<1>3. \A s \in Busy \ {r} : \A o \in tx[r].found : <<Id(r), o>> \notin tx[s].new
  BY <1>1, BusyOthers, InsertWaits DEF InsertLinks
<1>4. \A s \in Busy \ {r} : tx[r].gone \cap tx[s].gone = {} /\ tx[r].new \cap tx[s].new = {}
  BY <1>2 DEF LinkInv
<1>5. \A s \in Busy \ {r} : tx'[r].new \cap tx[s].new = {}
  BY <1>1, <1>3, <1>4
<1>6. tx[r].gone \cup tx[r].seen \subseteq links /\ tx[r].new \cap links \subseteq tx[r].gone
  BY <1>2 DEF LinkInv
<1>7. tx'[r].new \cap links \subseteq tx'[r].gone
  BY <1>1, <1>6
<1> QED  BY <1>1, <1>4, <1>5, <1>6, <1>7, Alone, LinkStep

\* Where r comes to its end.
LEMMA LinkEnd ==
  ASSUME TxInv, LinkInv, NEW r \in Busy, NEW gone, EndingWith(r, gone),
         \A s \in Busy \ {r} : tx[s].gone \cap gone = {} /\ tx[s].new \cap (links' \ links) = {},
         links \ gone \subseteq links', 
         \A l \in links' : {l[1], l[2]} \subseteq Live' /\ WorkspaceOf[l[2]] \in {WorkspaceOf[l[1]], Shared}
  PROVE  LinkInv'
<1>0. r \in Requests
  BY DEF Busy
<1>1. /\ tx'[r].stage = "idle"
      /\ \A s \in Requests \ {r} : /\ (At(s, "idle")' <=> At(s, "idle"))
                                   /\ tx'[s].gone = tx[s].gone
                                   /\ tx'[s].new = tx[s].new
                                   /\ tx'[s].seen = tx[s].seen \ gone
  BY <1>0, Ends DEF Aside, At, TxInv, Idle
<1>2. Busy' = Busy \ {r}
  BY <1>1 DEF Busy, At
<1>3. ASSUME NEW s \in Busy \ {r}
      PROVE  tx'[s].gone \cup tx'[s].seen \subseteq links' /\ tx'[s].new \cap links' \subseteq tx'[s].gone
  <2>1. tx[s].gone \cup tx[s].seen \subseteq links /\ tx[s].new \cap links \subseteq tx[s].gone
    BY DEF LinkInv
  <2>2. tx'[s].gone = tx[s].gone /\ tx'[s].new = tx[s].new /\ tx'[s].seen = tx[s].seen \ gone
    BY <1>1 DEF Busy
  <2> QED  BY <2>1, <2>2
<1>4. ASSUME NEW s \in Busy \ {r}, NEW u \in Busy \ {r}, s # u
      PROVE  tx'[s].gone \cap tx'[u].gone = {} /\ tx'[s].new \cap tx'[u].new = {}
  BY <1>1, <1>4 DEF LinkInv, Busy
<1> QED  BY <1>2, <1>3, <1>4 DEF LinkInv

LEMMA LinkCommit ==
  ASSUME TxInv, RowInv, LinkInv, NEW r \in Requests, Commit(r)
  PROVE  LinkInv'
<1>1. /\ EndingWith(r, tx[r].gone) /\ links' = (links \ tx[r].gone) \cup tx[r].new
      /\ At(r, "commit")
  BY DEF Commit
<1>2. r \in Busy
  BY <1>1 DEF Busy, At
<1>3. \A s \in Busy \ {r} : tx[s].gone \cap tx[r].gone = {} /\ tx[s].new \cap tx[r].new = {}
  BY <1>2 DEF LinkInv
<1>4. Live \subseteq Live'
  BY LifeAfter
<1>5. Shape(tx[r]) /\ ListShape(tx[r]) /\ CallOK(tx[r].call) /\ Id(r) \in Objects
  BY <1>2, BusyShapes
<1>6. ASSUME NEW l \in tx[r].new
      PROVE  {l[1], l[2]} \subseteq Live' /\ WorkspaceOf[l[2]] \in {WorkspaceOf[l[1]], Shared}
  <2>1. /\ l[1] = Id(r) /\ KindOf[l[2]] \in DOMAIN tx[r].done /\ l[2] \in tx[r].done[KindOf[l[2]]]
        /\ {l[1], l[2]} \subseteq tx[r].shared
    BY <1>5 DEF ListShape, Id
  <2>2. WorkspaceOf[l[2]] \in {WorkspaceOf[l[1]], Shared}
    BY <1>5, <2>1 DEF ListShape, Linkable, Id
  <2>3. KindOf[Id(r)] # "tag"
    BY <1>5, <2>1, TheLists DEF ListShape, Lists, Id
  <2>4. tx[r].shared \subseteq Live \cup (IF Creating(r) THEN {Id(r)} ELSE {})
    BY <1>2 DEF RowInv, RowOK
  <2>5. Creating(r) => Id(r) \in Live'
    <3>1. Creating(r) => life[Id(r)] = "unborn"
      BY <1>2, <2>3 DEF RowInv, RowOK
    <3> QED  BY <1>5, <3>1 DEF Commit, Creating, Live, TxInv, Typed0
  <2> QED  BY <1>4, <2>1, <2>2, <2>4, <2>5
<1>7. \A l \in links' : {l[1], l[2]} \subseteq Live' /\ WorkspaceOf[l[2]] \in {WorkspaceOf[l[1]], Shared}
  BY <1>1, <1>4, <1>6 DEF LinkInv
<1> QED  BY <1>1, <1>2, <1>3, <1>7, LinkEnd

LEMMA LinkCascade ==
  ASSUME TxInv, RowInv, LinkInv, NEW r \in Requests, Cascade(r)
  PROVE  LinkInv'
<1>1. /\ EndingWith(r, LinksWith(Id(r))) /\ links' = links \ LinksWith(Id(r))
      /\ At(r, "cascade") /\ Blockers(r) = {}
  BY DEF Cascade
<1>2. r \in Busy
  BY <1>1 DEF Busy, At
<1>3. \A s \in Busy \ {r} : tx[s].gone \cap LinksWith(Id(r)) = {}
  BY <1>1, BusyOthers, CascadeWaits
<1>4. \A l \in links' : {l[1], l[2]} \subseteq Live' /\ WorkspaceOf[l[2]] \in {WorkspaceOf[l[1]], Shared}
  BY <1>1, LifeAfter DEF LinkInv, LinksWith
<1> QED  BY <1>1, <1>2, <1>3, <1>4, LinkEnd

LEMMA GroupCommit ==
  ASSUME TxInv, RowInv, GroupInv, NEW r \in Requests, Commit(r)
  PROVE  GroupInv'
<1>1. r \in Busy /\ At(r, "commit")
  BY DEF Commit, Busy, At
<1>2. /\ Id(r) \in Objects /\ tx[r].call.group \in Having("group") \cup {NoGroup, Keep}
      /\ tx[r].call.group \in Objects => WorkspaceOf[tx[r].call.group] = WorkspaceOf[Id(r)]
      /\ tx[r].call.group \in Objects => tx[r].call.group \in tx[r].shared
  BY <1>1, BusyShapes DEF CallOK, Shape, At, Id
<1>3. Live \subseteq Live' /\ tx[r].shared \subseteq Live \cup {Id(r)}
  BY <1>1, LifeAfter DEF RowInv, RowOK
<1> SUFFICES ASSUME NEW m \in Having("monitor"), group'[m] # NoGroup
             PROVE  group'[m] \in Live' /\ WorkspaceOf[group'[m]] = WorkspaceOf[m]
  BY DEF GroupInv
<1>4. CASE group'[m] = group[m]
  BY <1>3, <1>4 DEF GroupInv
<1>5. CASE group'[m] # group[m]
  <2>1. m = Id(r) /\ group'[m] = tx[r].call.group /\ tx[r].call.group # Keep
    BY <1>5 DEF Commit, TxInv, Typed0
  <2>2. tx[r].call.group \in Having("group")
    BY <1>2, <2>1
  <2>3. tx[r].call.group \in Objects /\ tx[r].call.group # Id(r)
    BY <2>1, <2>2 DEF Having
  <2> QED  BY <1>2, <1>3, <2>1, <2>3
<1> QED  BY <1>4, <1>5

LEMMA GroupCascade ==
  ASSUME TxInv, GroupInv, NEW r \in Requests, Cascade(r)
  PROVE  GroupInv'
<1>1. group' = [m \in DOMAIN group |-> IF group[m] = Id(r) THEN NoGroup ELSE group[m]]
  BY DEF Cascade
<1> QED  BY <1>1, LifeAfter DEF GroupInv, TxInv, Typed0

-----------------------------------------------------------------------------
(* Regions.                                                                *)

\* A step that commits nothing: what r has replaced is not bare, or leaves a region.
LEMMA RegionStep ==
  ASSUME RegionInv, NEW r \in Requests, UNCHANGED tables, \A s \in Requests \ {r} : Aside(s),
         r \in Busy' =>
           \A m \in Having("monitor") : r \in Bare(m)' =>
             \/ r \in Bare(m) /\ tx'[r].gone \cap Links(m, "region") \subseteq tx[r].gone
             \/ \E l \in Links(m, "region") :
                  l \notin tx'[r].gone /\ \A s \in Busy \ {r} : l \notin tx[s].gone,
         r \in Busy' /\ Creating(r)' /\ KindOf[Id(r)'] = "monitor" =>
           "region" \in tx'[r].left \/ RegionNew(r)'
  PROVE  RegionInv'
<1>1. \A s \in Requests \ {r} : /\ (At(s, "idle")' <=> At(s, "idle"))
                                /\ tx'[s].gone = tx[s].gone /\ tx'[s].new = tx[s].new
                                /\ tx'[s].done = tx[s].done /\ tx'[s].left = tx[s].left
                                /\ Id(s)' = Id(s) /\ (Creating(s)' <=> Creating(s))
                                /\ (RegionNew(s)' <=> RegionNew(s))
  BY DEF Aside, At, Id, Creating, RegionNew
<1>2. links' = links /\ Live' = Live /\ \A m : Links(m, "region")' = Links(m, "region")
  BY DEF tables, Live, Links
<1>3. \A m : Bare(m)' \ {r} = Bare(m) \ {r}
  BY <1>1 DEF Bare, Busy
<1>4. ASSUME NEW m \in Having("monitor") \cap Live
      PROVE  \E l \in Links(m, "region") : \A s \in Bare(m)' : l \notin tx'[s].gone
  <2>1. PICK l \in Links(m, "region") : \A s \in Bare(m) : l \notin tx[s].gone
    BY DEF RegionInv
  <2>2. \A s \in Bare(m)' \ {r} : s \in Busy /\ tx'[s].gone = tx[s].gone
    BY <1>1, <1>3 DEF Bare, Busy
  <2>3. CASE \/ r \notin Bare(m)'
             \/ r \in Bare(m) /\ tx'[r].gone \cap Links(m, "region") \subseteq tx[r].gone
    BY <1>3, <2>1, <2>2, <2>3
  <2>4. ASSUME NEW k \in Links(m, "region"), k \notin tx'[r].gone, \A s \in Busy \ {r} : k \notin tx[s].gone
        PROVE  \A s \in Bare(m)' : k \notin tx'[s].gone
    BY <2>2, <2>4
  <2>5. r \in Bare(m)' => r \in Busy'
    BY DEF Bare
  <2> QED  BY <2>3, <2>4, <2>5
<1>5. ASSUME NEW s \in Busy', Creating(s)', KindOf[Id(s)'] = "monitor"
      PROVE  "region" \in tx'[s].left \/ RegionNew(s)'
  <2>1. CASE s = r
    BY <1>5, <2>1
  <2>2. CASE s # r
    BY <1>1, <1>5, <2>2 DEF RegionInv, Busy
  <2> QED  BY <2>1, <2>2
<1> QED  BY <1>2, <1>4, <1>5 DEF RegionInv

LEMMA RegionFail ==
  ASSUME TxInv, RegionInv, NEW r \in Requests, Fail(r)
  PROVE  RegionInv'
<1>1. r \notin Busy' /\ UNCHANGED tables /\ \A s \in Requests \ {r} : Aside(s)
  BY Ends DEF Fail, TxInv, Idle, Busy, At
<1> QED  BY <1>1, RegionStep

LEMMA RegionStart ==
  ASSUME TxInv, RegionInv, NEW r \in Requests, NEW c \in Calls, Start(r, c)
  PROVE  RegionInv'
<1>1. /\ Started(r, c) /\ \A s \in Requests \ {r} : Aside(s)
      /\ UNCHANGED tables
  BY StartStep
<1>2. \A m : r \notin Bare(m)'
  BY <1>1 DEF Started, Bare
<1>3. Creating(r)' /\ KindOf[Id(r)'] = "monitor" => "region" \in tx'[r].left
  BY <1>1, TheLists DEF Started, Creating, CallOK, Handled, Lists, Id
<1> QED  BY <1>1, <1>2, <1>3, RegionStep

LEMMA RegionKept ==
  ASSUME RegionInv, NEW r \in Busy, UNCHANGED tables, Untouched(r), SameRow(r),
         tx'[r].done = tx[r].done, tx'[r].left = tx[r].left, tx'[r].gone = tx[r].gone,
         tx'[r].new = tx[r].new
  PROVE  RegionInv'
<1>1. /\ Id(r)' = Id(r) /\ (Creating(r)' <=> Creating(r)) /\ (RegionNew(r)' <=> RegionNew(r))
      /\ \A m : r \in Bare(m)' => r \in Bare(m)
  BY DEF SameRow, Id, Creating, RegionNew, Bare
<1>2. r \in Requests
  BY DEF Busy
<1>3. Creating(r) /\ KindOf[Id(r)] = "monitor" => "region" \in tx[r].left \/ RegionNew(r)
  BY DEF RegionInv
<1> QED  BY <1>1, <1>2, <1>3, Alone, RegionStep

\* The region list is being replaced as long as it is one of those left.
LEMMA RegionBeginList ==
  ASSUME TxInv, RowInv, RegionInv, NEW r \in Requests, BeginList(r)
  PROVE  RegionInv'
<1>1. /\ UNCHANGED tables /\ SameRow(r)
      /\ \A s \in Requests \ {r} : Aside(s)
      /\ SkipsList(r) \/ \E kind \in tx[r].left : BeginsList(r, kind)
  BY BeginListStep DEF Quiet
<1>2. At(r, "list") /\ r \in Busy
  BY <1>1 DEF SkipsList, BeginsList, Busy, At
<1>3. DOMAIN tx[r].done \cap tx[r].left = {}
  BY <1>2, BusyShapes DEF ListShape, At
<1>4. Id(r)' = Id(r) /\ (Creating(r)' <=> Creating(r))
  BY <1>1 DEF SameRow, Id, Creating
<1>5. /\ (RegionNew(r)' <=> RegionNew(r)) /\ tx'[r].gone = tx[r].gone
      /\ DOMAIN tx'[r].done \ tx'[r].left \subseteq DOMAIN tx[r].done \ tx[r].left
  BY <1>1, <1>3 DEF SkipsList, BeginsList, RegionNew
<1>6. \A m : r \in Bare(m)' => r \in Bare(m)
  BY <1>2, <1>4, <1>5 DEF Bare
<1>7. Creating(r) => tx'[r].left = tx[r].left
  BY <1>1 DEF SkipsList, BeginsList, Creating
<1>8. Creating(r) /\ KindOf[Id(r)] = "monitor" => "region" \in tx[r].left \/ RegionNew(r)
  BY <1>2 DEF RegionInv
<1> QED  BY <1>1, <1>4, <1>5, <1>6, <1>7, <1>8, RegionStep

LEMMA RegionClear ==
  ASSUME TxInv, RegionInv, NEW r \in Requests, Clear(r)
  PROVE  RegionInv'
<1>1. /\ UNCHANGED tables /\ Untouched(r) /\ SameRow(r)
      /\ At(r, "clear") /\ tx'[r].gone = tx[r].gone \cup (tx[r].seen \cap links)
      /\ tx'[r].found = tx[r].found /\ tx'[r].new = tx[r].new /\ tx'[r].done = tx[r].done
      /\ IF tx[r].found = {}
         THEN tx'[r].left = tx[r].left \ {Current(tx[r])} /\ tx'[r].stage = After(tx'[r].left)
         ELSE tx'[r].left = tx[r].left /\ tx'[r].stage = "insert"
  BY ClearStep DEF Quiet
<1>2. r \in Busy
  BY <1>1 DEF Busy, At
<1>3. /\ tx[r].done[Current(tx[r])] = tx[r].found /\ Current(tx[r]) \in DOMAIN tx[r].done
      /\ "region" \in DOMAIN tx[r].done => tx[r].done["region"] # {}
      /\ \A k \in DOMAIN tx[r].done \cap tx[r].left : k = Current(tx[r])
      /\ \A l \in tx[r].seen : KindOf[l[2]] = Current(tx[r])
  BY <1>1, <1>2, BusyShapes DEF ListShape, At, Of
<1>4. "region" \in tx[r].left <=> "region" \in tx'[r].left
  BY <1>1, <1>3
<1>5. Id(r)' = Id(r) /\ (Creating(r)' <=> Creating(r)) /\ (RegionNew(r)' <=> RegionNew(r))
  BY <1>1 DEF SameRow, Id, Creating, RegionNew
<1>6. \A m : r \in Bare(m)' => r \in Bare(m)
  BY <1>1, <1>2, <1>4, <1>5 DEF Bare
<1>7. ASSUME NEW m \in Having("monitor"), r \in Bare(m)'
      PROVE  tx'[r].gone \cap Links(m, "region") \subseteq tx[r].gone
  <2>1. Current(tx[r]) # "region"
    <3>1. "region" \notin tx[r].left
      BY <1>4, <1>7 DEF Bare
    <3>2. tx[r].left # {}
      BY <1>1, <1>2, BusyShapes DEF ListShape, At
    <3> QED  BY <3>1, <3>2, NextIsLeft DEF Current
  <2> QED  BY <1>1, <1>3, <2>1 DEF Links
<1>8. Creating(r) /\ KindOf[Id(r)] = "monitor" => "region" \in tx[r].left \/ RegionNew(r)
  BY <1>2 DEF RegionInv
<1> QED  BY <1>1, <1>4, <1>5, <1>6, <1>7, <1>8, Alone, RegionStep

LEMMA RegionInsert ==
  ASSUME TxInv, RowInv, LinkInv, RegionInv, NEW r \in Requests, InsertLinks(r)
  PROVE  RegionInv'
<1>1. /\ UNCHANGED tables /\ Untouched(r) /\ SameRow(r)
      /\ At(r, "insert") /\ tx'[r].gone = tx[r].gone
      /\ tx'[r].new = tx[r].new \cup (({Id(r)} \X tx[r].found) \ (links \ tx[r].gone))
      /\ tx'[r].done = tx[r].done /\ tx'[r].left = tx[r].left \ {Current(tx[r])}
  BY InsertStep DEF Quiet
<1>2. r \in Busy
  BY <1>1 DEF Busy, At
<1>3. /\ tx[r].done[Current(tx[r])] = tx[r].found /\ Current(tx[r]) \in DOMAIN tx[r].done
      /\ tx[r].found # {} /\ \A o \in tx[r].found : KindOf[o] = Current(tx[r])
      /\ Id(r) \in Objects
  BY <1>1, <1>2, BusyShapes DEF ListShape, At, Linkable
<1>4. Id(r)' = Id(r) /\ (Creating(r)' <=> Creating(r)) /\ (RegionNew(r) => RegionNew(r)')
  BY <1>1 DEF SameRow, Id, Creating, RegionNew
<1>5. CASE Current(tx[r]) # "region"
  <2>1. "region" \in tx[r].left <=> "region" \in tx'[r].left
    BY <1>1, <1>5
  <2>2. \A m : r \in Bare(m)' => r \in Bare(m)
    BY <1>1, <1>2, <1>4, <2>1 DEF Bare
  <2>3. Creating(r) /\ KindOf[Id(r)] = "monitor" => "region" \in tx[r].left \/ RegionNew(r)
    BY <1>2 DEF RegionInv
  <2> QED  BY <1>1, <1>4, <2>1, <2>2, <2>3, Alone, RegionStep
<1>6. CASE Current(tx[r]) = "region"
  <2>1. PICK o \in tx[r].found : TRUE
    BY <1>3
  <2>2. <<Id(r), o>>[1] = Id(r) /\ <<Id(r), o>>[2] = o /\ KindOf[o] = "region"
    BY <1>3, <1>6
  <2>3. RegionNew(r)' \/ <<Id(r), o>> \in links \ tx[r].gone
    BY <1>1, <2>1, <2>2 DEF RegionNew
  <2>4. Creating(r) /\ KindOf[Id(r)] = "monitor" => RegionNew(r)'
    <3>1. Creating(r) /\ KindOf[Id(r)] = "monitor" => Id(r) \notin Live
      BY <1>2 DEF RowInv, RowOK, Live
    <3>2. <<Id(r), o>> \in links => Id(r) \in Live
      BY <2>2 DEF LinkInv
    <3> QED  BY <2>3, <3>1, <3>2
  <2>5. ASSUME NEW m \in Having("monitor"), r \in Bare(m)'
        PROVE  \E l \in Links(m, "region") :
                 l \notin tx'[r].gone /\ \A s \in Busy \ {r} : l \notin tx[s].gone
    <3>1. m = Id(r) /\ ~RegionNew(r)'
      BY <1>4, <2>5 DEF Bare
    <3>2. <<Id(r), o>> \in Links(m, "region") /\ <<Id(r), o>> \notin tx'[r].gone
      BY <1>1, <2>2, <2>3, <3>1 DEF Links
    <3>3. \A s \in Busy \ {r} : <<Id(r), o>> \notin tx[s].gone
      BY <1>1, <2>1, BusyOthers, InsertWaits DEF InsertLinks
    <3> QED  BY <3>2, <3>3
  <2> QED  BY <1>1, <1>4, <2>4, <2>5, Alone, RegionStep
<1> QED  BY <1>5, <1>6

LEMMA RegionEnd ==
  ASSUME TxInv, NEW r \in Busy, NEW gone, EndingWith(r, gone)
  PROVE  /\ \A s \in Busy \ {r} : /\ Id(s)' = Id(s) /\ (Creating(s)' <=> Creating(s))
                                  /\ (RegionNew(s)' <=> RegionNew(s)) /\ tx'[s].left = tx[s].left
                                  /\ tx'[s].gone = tx[s].gone
         /\ Busy' = Busy \ {r} /\ \A m : Bare(m)' = Bare(m) \ {r}
<1>0. r \in Requests
  BY DEF Busy
<1>1. /\ tx'[r].stage = "idle"
      /\ \A s \in Requests \ {r} : Aside(s)
  BY <1>0, Ends DEF At, TxInv, Idle
<1>2. \A s \in Requests \ {r} : /\ (At(s, "idle")' <=> At(s, "idle"))
                                /\ Id(s)' = Id(s) /\ (Creating(s)' <=> Creating(s))
                                /\ (RegionNew(s)' <=> RegionNew(s)) /\ tx'[s].left = tx[s].left
                                /\ tx'[s].done = tx[s].done /\ tx'[s].gone = tx[s].gone
  BY <1>1 DEF Aside, At, Id, Creating, RegionNew
<1>3. Busy' = Busy \ {r}
  BY <1>1, <1>2 DEF Busy, At
<1>4. \A m : Bare(m)' = Bare(m) \ {r}
  BY <1>2, <1>3 DEF Bare, Busy
<1> QED  BY <1>2, <1>3, <1>4 DEF Busy

LEMMA RegionCommit ==
  ASSUME TxInv, RowInv, LinkInv, RegionInv, NEW r \in Requests, Commit(r)
  PROVE  RegionInv'
<1>1. /\ EndingWith(r, tx[r].gone) /\ links' = (links \ tx[r].gone) \cup tx[r].new
      /\ At(r, "commit")
  BY DEF Commit
<1>2. r \in Busy
  BY <1>1 DEF Busy, At
<1>3. /\ \A s \in Busy \ {r} : /\ Id(s)' = Id(s) /\ (Creating(s)' <=> Creating(s))
                               /\ (RegionNew(s)' <=> RegionNew(s)) /\ tx'[s].left = tx[s].left
                               /\ tx'[s].gone = tx[s].gone
      /\ Busy' = Busy \ {r} /\ \A m : Bare(m)' = Bare(m) \ {r}
  BY <1>1, <1>2, RegionEnd
<1>4. ListShape(tx[r]) /\ tx[r].left = {} /\ Id(r) \in Objects
  BY <1>1, <1>2, BusyShapes DEF ListShape, At
<1>5. ASSUME NEW m \in Having("monitor") \cap Live'
      PROVE  \E l \in Links(m, "region")' : \A s \in Bare(m)' : l \notin tx'[s].gone
  <2>1. CASE m = Id(r) /\ RegionNew(r)
    <3>1. PICK l \in tx[r].new : KindOf[l[2]] = "region"
      BY <2>1 DEF RegionNew
    <3>2. l \in Links(m, "region")'
      BY <1>1, <1>4, <2>1, <3>1 DEF Links, ListShape, Id
    <3>3. ASSUME NEW s \in Busy \ {r}
          PROVE  l \notin tx[s].gone
      <4>1. tx[s].gone \subseteq links /\ tx[r].new \cap links \subseteq tx[r].gone
            /\ tx[r].gone \cap tx[s].gone = {}
        BY <1>2 DEF LinkInv
      <4> QED  BY <3>1, <4>1
    <3> QED  BY <1>3, <3>2, <3>3 DEF Bare
  <2>2. CASE ~(m = Id(r) /\ RegionNew(r))
    <3>1. m \in Live
      <4>1. Id(r) = m => ~(Creating(r) /\ KindOf[Id(r)] = "monitor")
        BY <1>2, <1>4, <2>2 DEF RegionInv
      <4>2. m = Id(r) => ~Creating(r)
        BY <4>1 DEF Having
      <4> QED  BY <1>4, <4>2, LifeAfter DEF Commit, Creating, Live
    <3>2. PICK l \in Links(m, "region") : \A s \in Bare(m) : l \notin tx[s].gone
      BY <3>1 DEF RegionInv
    <3>3. l \notin tx[r].gone
      <4>1. CASE l[1] # Id(r)
        BY <1>4, <4>1 DEF ListShape, Id
      <4>2. CASE l[1] = Id(r) /\ "region" \notin DOMAIN tx[r].done
        BY <1>4, <3>2, <4>2 DEF ListShape, Links
      <4>3. CASE l[1] = Id(r) /\ "region" \in DOMAIN tx[r].done
        BY <1>2, <1>4, <2>2, <3>2, <4>3 DEF Bare, Links
      <4> QED  BY <4>1, <4>2, <4>3
    <3>4. l \in Links(m, "region")'
      BY <1>1, <3>2, <3>3 DEF Links
    <3> QED  BY <1>3, <3>2, <3>4 DEF Bare
  <2> QED  BY <2>1, <2>2
<1> QED  BY <1>3, <1>5 DEF RegionInv

LEMMA RegionCascade ==
  ASSUME TxInv, RegionInv, NEW r \in Requests, Cascade(r)
  PROVE  RegionInv'
<1>1. /\ EndingWith(r, LinksWith(Id(r))) /\ links' = links \ LinksWith(Id(r))
      /\ At(r, "cascade")
  BY DEF Cascade
<1>2. r \in Busy
  BY <1>1 DEF Busy, At
<1>3. /\ \A s \in Busy \ {r} : /\ Id(s)' = Id(s) /\ (Creating(s)' <=> Creating(s))
                               /\ (RegionNew(s)' <=> RegionNew(s)) /\ tx'[s].left = tx[s].left
                               /\ tx'[s].gone = tx[s].gone
      /\ Busy' = Busy \ {r} /\ \A m : Bare(m)' = Bare(m) \ {r}
  BY <1>1, <1>2, RegionEnd
<1>4. KindOf[Id(r)] # "region"
  BY <1>2, BusyShapes DEF CallOK, Handled, Id
<1>5. ASSUME NEW m \in Having("monitor") \cap Live'
      PROVE  \E l \in Links(m, "region")' : \A s \in Bare(m)' : l \notin tx'[s].gone
  <2>1. m \in Live /\ m # Id(r)
    BY LifeAfter
  <2>2. PICK l \in Links(m, "region") : \A s \in Bare(m) : l \notin tx[s].gone
    BY <2>1 DEF RegionInv
  <2>3. l \in Links(m, "region")'
    BY <1>1, <1>4, <2>1, <2>2 DEF Links, LinksWith
  <2> QED  BY <1>3, <2>2, <2>3 DEF Bare
<1> QED  BY <1>3, <1>5 DEF RegionInv

-----------------------------------------------------------------------------
(* Addresses.                                                              *)

\* A step that commits nothing.
LEMMA SlugStep ==
  ASSUME SlugInv, NEW r \in Requests, UNCHANGED tables, \A s \in Requests \ {r} : Aside(s),
         r \in Busy' /\ Takes(r)' =>
           /\ \A p \in Having("page") \cap Live : p # Id(r)' => slug[p] # tx'[r].slug
           /\ \A s \in Busy \ {r} : Takes(s) => tx[s].slug # tx'[r].slug
  PROVE  SlugInv'
<1>1. \A s \in Requests \ {r} : /\ (At(s, "idle")' <=> At(s, "idle"))
                                /\ Id(s)' = Id(s) /\ tx'[s].slug = tx[s].slug
                                /\ (Takes(s)' <=> Takes(s))
  BY DEF Aside, At, Id, Takes, Deletes
<1>2. slug' = slug /\ Live' = Live
  BY DEF tables, Live
<1>3. AddressesDistinct'
  BY <1>2 DEF SlugInv, AddressesDistinct
<1>4. ASSUME NEW s \in Busy', Takes(s)'
      PROVE  \A p \in Having("page") \cap Live : p # Id(s)' => slug[p] # tx'[s].slug
  <2>1. CASE s = r
    BY <1>4, <2>1
  <2>2. CASE s # r
    BY <1>1, <1>4, <2>2 DEF SlugInv, Busy
  <2> QED  BY <2>1, <2>2
<1>5. ASSUME NEW s \in Busy', NEW u \in Busy', s # u, Takes(s)', Takes(u)'
      PROVE  tx'[s].slug # tx'[u].slug
  <2>1. CASE s = r
    BY <1>1, <1>5, <2>1 DEF Busy
  <2>2. CASE u = r
    BY <1>1, <1>5, <2>2 DEF Busy
  <2>3. CASE s # r /\ u # r
    BY <1>1, <1>5, <2>3 DEF SlugInv, Busy
  <2> QED  BY <2>1, <2>2, <2>3
<1> QED  BY <1>2, <1>3, <1>4, <1>5 DEF SlugInv

\* A request takes an address when it writes its row.
LEMMA SlugKept ==
  ASSUME SlugInv, NEW r \in Busy, UNCHANGED tables, \A s \in Requests \ {r} : Aside(s), SameRow(r),
         tx'[r].lock = tx[r].lock
  PROVE  SlugInv'
<1>1. Id(r)' = Id(r) /\ tx'[r].slug = tx[r].slug /\ (Takes(r)' <=> Takes(r)) /\ r \in Requests
  BY DEF SameRow, Id, Takes, Deletes, Busy
<1>2. Takes(r) => /\ \A p \in Having("page") \cap Live : p # Id(r) => slug[p] # tx[r].slug
                  /\ \A s \in Busy \ {r} : Takes(s) => tx[s].slug # tx[r].slug
  BY DEF SlugInv
<1> QED  BY <1>1, <1>2, SlugStep

LEMMA SlugIdle ==
  ASSUME TxInv, SlugInv, NEW r \in Requests, UNCHANGED tables, \A s \in Requests \ {r} : Aside(s),
         ~Takes(r)' \/ r \notin Busy'
  PROVE  SlugInv'
BY SlugStep

LEMMA SlugWriteRow ==
  ASSUME TxInv, RowInv, SlugInv, NEW r \in Requests, WriteRow(r)
  PROVE  SlugInv'
<1>1. /\ Untouched(r) /\ UNCHANGED tables /\ SameRow(r)
      /\ At(r, "row") /\ ~Deletes(r)
      /\ tx'[r].lock = IF tx[r].call.columns /\ (Creating(r) \/ Id(r) \in Live) THEN {Id(r)} ELSE {}
  BY WriteRowStep DEF Quiet
<1>2. Id(r)' = Id(r) /\ tx'[r].slug = tx[r].slug
  BY <1>1 DEF SameRow, Id
<1>3. Blockers(r) = {} /\ ~RowRefused(r)
  BY DEF WriteRow
<1>4. \A p \in Having("page") \cap Live : p # Id(r) => slug[p] # tx[r].slug
  BY <1>3 DEF RowRefused, SlugTaken
<1>5. ASSUME Takes(r)', NEW s \in Busy \ {r}, Takes(s)
      PROVE  tx[s].slug # tx[r].slug
  <2>1. tx[r].call.columns /\ tx[r].slug # Keep
    BY <1>1, <1>2, <1>5 DEF Takes
  <2>2. s \in Others(r) /\ Id(s) \in tx[s].lock
    BY <1>5, BusyOthers DEF Takes
  <2>3. Id(r) \notin tx[s].lock /\ Claiming(r) = {}
    BY <1>1, <1>3, <2>1, <2>2, RowWaits
  <2>4. Id(s) # Id(r)
    BY <2>2, <2>3
  <2> QED  BY <2>1, <2>2, <2>3, <2>4 DEF Claiming
<1> QED  BY <1>1, <1>2, <1>4, <1>5, Alone, SlugStep

LEMMA SlugEnd ==
  ASSUME TxInv, SlugInv, NEW r \in Busy, NEW gone, EndingWith(r, gone), AddressesDistinct',
         \A s \in Busy \ {r} : Takes(s) =>
           \A p \in Having("page") \cap Live' : p # Id(s) => slug'[p] # tx[s].slug
  PROVE  SlugInv'
<1>0. r \in Requests
  BY DEF Busy
<1>1. /\ tx'[r].stage = "idle"
      /\ \A s \in Requests \ {r} : Aside(s)
  BY <1>0, Ends DEF At, TxInv, Idle
<1>2. \A s \in Requests \ {r} : /\ (At(s, "idle")' <=> At(s, "idle"))
                                /\ Id(s)' = Id(s) /\ tx'[s].slug = tx[s].slug
                                /\ (Takes(s)' <=> Takes(s))
  BY <1>1 DEF Aside, At, Id, Takes, Deletes
<1>3. Busy' = Busy \ {r} /\ Busy \subseteq Requests
  BY <1>1, <1>2 DEF Busy, At
<1> QED  BY <1>2, <1>3 DEF SlugInv

LEMMA SlugCommit ==
  ASSUME TxInv, RowInv, SlugInv, NEW r \in Requests, Commit(r)
  PROVE  SlugInv'
<1>1. /\ EndingWith(r, tx[r].gone) /\ At(r, "commit")
      /\ slug' = IF Id(r) \in tx[r].lock /\ tx[r].slug # Keep THEN [slug EXCEPT ![Id(r)] = tx[r].slug] ELSE slug
  BY DEF Commit
<1>2. r \in Busy
  BY <1>1 DEF Busy, At
<1>3. Shape(tx[r]) /\ Id(r) \in Objects
  BY <1>2, BusyShapes
<1>4. ~Deletes(r) /\ (Creating(r) => Id(r) \in tx[r].lock)
  BY <1>1, <1>3 DEF Shape, At, Deletes, Creating, Id
<1>5. ASSUME NEW p \in Having("page") \cap Live'
      PROVE  /\ p # Id(r) => p \in Live /\ slug'[p] = slug[p]
             /\ p = Id(r) => (Takes(r) /\ slug'[p] = tx[r].slug) \/ (p \in Live /\ slug'[p] = slug[p])
  <2>1. p # Id(r) => p \in Live
    BY LifeAfter
  <2>2. slug \in [Having("page") -> Slugs]
    BY DEF TxInv, Typed0
  <2>3. CASE p # Id(r)
    BY <1>1, <2>1, <2>2, <2>3
  <2>4. CASE p = Id(r) /\ Id(r) \in tx[r].lock /\ tx[r].slug # Keep
    BY <1>1, <1>4, <2>2, <2>4 DEF Takes, Having
  <2>5. CASE p = Id(r) /\ ~(Id(r) \in tx[r].lock /\ tx[r].slug # Keep)
    <3>1. ~Creating(r)
      BY <1>3, <1>4, <2>5 DEF Shape, Creating, Having, Id
    <3>2. life' = life
      BY <3>1 DEF Commit, Creating
    <3> QED  BY <1>1, <2>5, <3>2 DEF Live
  <2> QED  BY <2>3, <2>4, <2>5
<1>6. AddressesDistinct'
  <2> SUFFICES ASSUME NEW p \in Having("page") \cap Live', NEW q \in Having("page") \cap Live', p # q
               PROVE  slug'[p] # slug'[q]
    BY DEF AddressesDistinct
  <2>1. CASE p # Id(r) /\ q # Id(r)
    BY <1>5, <2>1 DEF SlugInv, AddressesDistinct
  <2>2. CASE p = Id(r) /\ q # Id(r)
    BY <1>2, <1>5, <2>2 DEF SlugInv, AddressesDistinct
  <2>3. CASE p # Id(r) /\ q = Id(r)
    BY <1>2, <1>5, <2>3 DEF SlugInv, AddressesDistinct
  <2> QED  BY <2>1, <2>2, <2>3
<1>7. ASSUME NEW s \in Busy \ {r}, Takes(s), NEW p \in Having("page") \cap Live', p # Id(s)
      PROVE  slug'[p] # tx[s].slug
  <2>1. CASE p \in Live /\ slug'[p] = slug[p]
    BY <1>7, <2>1 DEF SlugInv
  <2>2. CASE Takes(r) /\ slug'[p] = tx[r].slug
    BY <1>2, <1>7, <2>2 DEF SlugInv
  <2> QED  BY <1>5, <2>1, <2>2
<1> QED  BY <1>1, <1>2, <1>6, <1>7, SlugEnd

LEMMA SlugCascade ==
  ASSUME TxInv, SlugInv, NEW r \in Requests, Cascade(r)
  PROVE  SlugInv'
<1>1. /\ EndingWith(r, LinksWith(Id(r))) /\ slug' = slug /\ r \in Busy
  BY DEF Cascade, Busy, At
<1>2. Live' \subseteq Live
  BY LifeAfter
<1>3. AddressesDistinct'
  BY <1>1, <1>2 DEF SlugInv, AddressesDistinct
<1>4. \A s \in Busy \ {r} : Takes(s) =>
        \A p \in Having("page") \cap Live' : p # Id(s) => slug'[p] # tx[s].slug
  BY <1>1, <1>2 DEF SlugInv
<1> QED  BY <1>1, <1>3, <1>4, SlugEnd

-----------------------------------------------------------------------------
(* Credentials.                                                            *)

LEMMA ConfigStep ==
  ASSUME ConfigInv, NEW r \in Requests, config' = config, typed' = typed,
         \A s \in Requests \ {r} : Aside(s),
         r \in Busy' /\ Configures(r)' =>
           /\ "config" \notin tx'[r].overlaps =>
                tx'[r].config = restoreRedacted(tx'[r].call.config, config[Id(r)'])
           /\ \A s \in Busy \ {r} : Configures(s) /\ Id(s) = Id(r)' =>
                "config" \in tx'[r].overlaps /\ "config" \in tx'[s].overlaps
  PROVE  ConfigInv'
<1>1. \A s \in Requests \ {r} : /\ (At(s, "idle")' <=> At(s, "idle"))
                                /\ Id(s)' = Id(s) /\ tx'[s].config = tx[s].config
                                /\ tx'[s].call = tx[s].call
                                /\ (Configures(s)' <=> Configures(s))
                                /\ tx[s].overlaps \subseteq tx'[s].overlaps
  BY DEF Aside, At, Id, Configures
<1>2. \A c \in Having("channel") : Unspoilt(c)'
  BY DEF ConfigInv, Unspoilt
<1>3. ASSUME NEW s \in Busy', Configures(s)', "config" \notin tx'[s].overlaps
      PROVE  tx'[s].config = restoreRedacted(tx'[s].call.config, config[Id(s)'])
  <2>1. CASE s = r
    BY <1>3, <2>1
  <2>2. CASE s # r
    BY <1>1, <1>3, <2>2 DEF ConfigInv, Busy
  <2> QED  BY <2>1, <2>2
<1>4. ASSUME NEW s \in Busy', NEW u \in Busy', s # u, Configures(s)', Configures(u)', Id(s)' = Id(u)'
      PROVE  "config" \in tx'[s].overlaps
  <2>1. CASE s = r
    BY <1>1, <1>4, <2>1 DEF Busy
  <2>2. CASE u = r
    BY <1>1, <1>4, <2>2 DEF Busy
  <2>3. CASE s # r /\ u # r
    BY <1>1, <1>4, <2>3 DEF ConfigInv, Busy
  <2> QED  BY <2>1, <2>2, <2>3
<1> QED  BY <1>2, <1>3, <1>4 DEF ConfigInv

LEMMA ConfigKept ==
  ASSUME ConfigInv, NEW r \in Busy, UNCHANGED tables, typed' = typed,
         \A s \in Requests \ {r} : Aside(s), SameRow(r)
  PROVE  ConfigInv'
<1>1. /\ Id(r)' = Id(r) /\ (Configures(r)' <=> Configures(r)) /\ tx'[r].config = tx[r].config
      /\ tx'[r].call = tx[r].call /\ tx[r].overlaps \subseteq tx'[r].overlaps /\ r \in Requests
  BY DEF SameRow, Id, Configures, Busy
<1>2. \A s \in Busy \ {r} : tx[s].overlaps \subseteq tx'[s].overlaps
  BY DEF Aside, Busy
<1>3. config' = config
  BY DEF tables
<1> QED  BY <1>1, <1>2, <1>3, ConfigStep DEF ConfigInv

LEMMA ConfigFail ==
  ASSUME TxInv, ConfigInv, NEW r \in Requests, Fail(r)
  PROVE  ConfigInv'
<1>1. /\ r \notin Busy' /\ config' = config /\ typed' = typed
      /\ \A s \in Requests \ {r} : Aside(s)
  BY Ends DEF Fail, TxInv, Idle, Busy, At, tables
<1> QED  BY <1>1, ConfigStep

LEMMA ConfigStart ==
  ASSUME TxInv, ConfigInv, NEW r \in Requests, NEW c \in Calls, Start(r, c)
  PROVE  ConfigInv'
<1>1. /\ Started(r, c) /\ \A s \in Requests \ {r} : Aside(s)
      /\ config' = config /\ typed' = typed
  BY StartStep DEF tables
<1>2. Id(r)' = c.id /\ tx'[r].call.config = c.config /\ tx'[r].call.op = c.op
  BY <1>1 DEF Started, Id
<1>3. ASSUME Configures(r)'
      PROVE  /\ tx'[r].config = restoreRedacted(tx'[r].call.config, config[Id(r)'])
             /\ c.op = "patch" /\ c.config # Keep
  BY <1>1, <1>2, <1>3 DEF Configures, Started
<1>4. ASSUME Configures(r)', NEW s \in Busy \ {r}, Configures(s), Id(s) = Id(r)'
      PROVE  "config" \in tx'[r].overlaps /\ "config" \in tx'[s].overlaps
  <2>1. s \in Mates(r, c)
    BY <1>2, <1>3, <1>4, BusyOthers DEF Mates, Configures
  <2> QED  BY <1>1, <2>1 DEF Started
<1> QED  BY <1>1, <1>3, <1>4, ConfigStep

\* What is typed, and what is stored: a mask that is stored stands for no credential.
LEMMA RestoredUnspoilt ==
  ASSUME NEW sent \in Config, NEW stored \in Config, NEW before \in Config,
         stored.url = before.url,
         stored.secret \in {before.secret} \cup (IF before.secret = Absent THEN {MASK} ELSE {})
  PROVE  LET kept == restoreRedacted(sent, stored)
             now == [url |-> IF sent.url.tail = MASK THEN before.url ELSE sent.url,
                     secret |-> IF sent.secret = MASK THEN before.secret ELSE sent.secret]
         IN /\ kept.url = now.url
            /\ kept.secret \in {now.secret} \cup (IF now.secret = Absent THEN {MASK} ELSE {})
BY SecretsAssumption DEF restoreRedacted, Config

LEMMA ConfigCommit ==
  ASSUME TxInv, RowInv, ConfigInv, NEW r \in Requests, Commit(r)
  PROVE  ConfigInv'
<1> DEFINE writes == Id(r) \in tx[r].lock /\ tx[r].config # Keep
<1>1. /\ EndingWith(r, tx[r].gone) /\ At(r, "commit")
      /\ config' = IF writes THEN [config EXCEPT ![Id(r)] = tx[r].config] ELSE config
      /\ typed' = IF writes THEN [typed EXCEPT ![Id(r)] = Typed(r)] ELSE typed
  BY DEF Commit
<1>2. r \in Busy /\ config \in [Having("channel") -> Config] /\ typed \in [Having("channel") -> Config]
  BY <1>1 DEF Busy, At, TxInv, Typed0
<1>3. /\ tx'[r].stage = "idle"
      /\ \A s \in Requests \ {r} : Aside(s) /\ tx'[s].overlaps = tx[s].overlaps
  BY <1>1, Ends DEF At, TxInv, Idle
<1>4. \A s \in Requests \ {r} : /\ (At(s, "idle")' <=> At(s, "idle"))
                                /\ Id(s)' = Id(s) /\ tx'[s].config = tx[s].config
                                /\ tx'[s].call = tx[s].call
                                /\ (Configures(s)' <=> Configures(s))
                                /\ tx'[s].overlaps = tx[s].overlaps
  BY <1>3 DEF Aside, At, Id, Configures
<1>5. Busy' = Busy \ {r}
  BY <1>3, <1>4 DEF Busy, At
<1>6. ASSUME NEW c \in Having("channel")
      PROVE  Unspoilt(c)'
  <2>1. Unspoilt(c)
    BY DEF ConfigInv
  <2>2. CASE ~(writes /\ c = Id(r))
    BY <1>1, <1>2, <2>1, <2>2 DEF Unspoilt
  <2>3. CASE writes /\ c = Id(r)
    <3>1. config'[c] = tx[r].config /\ typed'[c] = Typed(r)
      BY <1>1, <1>2, <2>3
    <3>2. CASE Creating(r) \/ "config" \in tx[r].overlaps
      <4>1. Typed(r) = tx[r].config
        BY <3>2 DEF Typed, Creating
      <4> QED  BY <3>1, <4>1 DEF Unspoilt
    <3>3. CASE ~Creating(r) /\ "config" \notin tx[r].overlaps
      <4>1. tx[r].call.op = "patch"
        BY <1>1, <1>2, <3>3, BusyShapes DEF Shape, At, CallOK, Handled, Creating
      <4>2. tx[r].config = restoreRedacted(tx[r].call.config, config[c])
        BY <1>2, <2>3, <3>3, <4>1 DEF ConfigInv, Configures
      <4>3. tx[r].call.config \in Config
        BY <1>2, <2>3, BusyShapes DEF Shape, CallOK
      <4>4. Typed(r) = [url |-> IF tx[r].call.config.url.tail = MASK THEN typed[c].url ELSE tx[r].call.config.url,
                        secret |-> IF tx[r].call.config.secret = MASK THEN typed[c].secret
                                   ELSE tx[r].call.config.secret]
        BY <2>3, <3>3 DEF Typed, Creating
      <4>5. config[c] \in Config /\ typed[c] \in Config
        BY <1>2
      <4> QED  BY <2>1, <3>1, <4>2, <4>3, <4>4, <4>5, RestoredUnspoilt DEF Unspoilt
    <3> QED  BY <3>2, <3>3
  <2> QED  BY <2>2, <2>3
<1>7. ASSUME NEW s \in Busy \ {r}, Configures(s), "config" \notin tx[s].overlaps
      PROVE  tx[s].config = restoreRedacted(tx[s].call.config, config'[Id(s)])
  <2>1. Id(s) \in Having("channel") /\ tx[s].config = restoreRedacted(tx[s].call.config, config[Id(s)])
    BY <1>7, TypedTyped DEF ConfigInv, Configures
  <2>2. CASE writes /\ Id(s) = Id(r)
    <3>1. KindOf[Id(r)] # "tag"
      BY <2>1, <2>2 DEF Having
    <3>2. ~Creating(r)
      BY <1>2, <2>2, <3>1 DEF RowInv, LockOK
    <3>3. Configures(r)
      BY <1>1, <1>2, <2>2, <3>2, BusyShapes DEF Shape, At, CallOK, Handled, Creating, Configures
    <3> QED  BY <1>2, <1>7, <2>2, <3>3 DEF ConfigInv
  <2>3. CASE ~(writes /\ Id(s) = Id(r))
    BY <1>1, <1>2, <2>1, <2>3
  <2> QED  BY <2>2, <2>3
<1> QED  BY <1>4, <1>5, <1>6, <1>7 DEF ConfigInv, Busy

LEMMA ConfigCascade ==
  ASSUME TxInv, ConfigInv, NEW r \in Requests, Cascade(r)
  PROVE  ConfigInv'
<1>1. EndingWith(r, LinksWith(Id(r))) /\ config' = config /\ typed' = typed
  BY DEF Cascade
<1>2. r \notin Busy' /\ \A s \in Requests \ {r} : Aside(s)
  BY <1>1, Ends DEF TxInv, Idle, Busy, At
<1> QED  BY <1>1, <1>2, ConfigStep

-----------------------------------------------------------------------------
(* The lists.                                                              *)

LEMMA ListStep ==
  ASSUME ListInv, NEW r \in Requests, UNCHANGED <<tables, asked, mixed>>,
         \A s \in Requests \ {r} : Aside(s) /\ tx'[s].seen = tx[s].seen,
         r \in Busy' =>
           /\ \A k \in DOMAIN tx'[r].done \ tx'[r].overlaps : Replaces(r, k)'
           /\ \A s \in Busy \ {r} : Id(s) = Id(r)' =>
                DOMAIN tx'[r].done \cap DOMAIN tx[s].done \subseteq tx'[r].overlaps \cap tx'[s].overlaps
  PROVE  ListInv'
<1>1. \A s \in Requests \ {r} : /\ (At(s, "idle")' <=> At(s, "idle"))
                                /\ Id(s)' = Id(s) /\ tx'[s].done = tx[s].done
                                /\ tx[s].overlaps \subseteq tx'[s].overlaps
  BY DEF Aside, At, Id
<1>2. links' = links /\ life' = life /\ asked' = asked /\ mixed' = mixed
  BY DEF tables
<1>3. ListsReplaced'
  BY <1>2 DEF ListInv, ListsReplaced, Live, Links
<1>4. ASSUME NEW s \in Busy', NEW k \in DOMAIN tx'[s].done \ tx'[s].overlaps
      PROVE  Replaces(s, k)'
  <2>1. CASE s = r
    BY <1>4, <2>1
  <2>2. CASE s # r
    <3>1. Replaces(s, k)
      BY <1>1, <2>2 DEF ListInv, Busy
    <3> QED  BY <1>2, <2>2, <3>1 DEF Busy, Aside, Replaces, Links, Id
  <2> QED  BY <2>1, <2>2
<1>5. ASSUME NEW s \in Busy', NEW u \in Busy', s # u, Id(s)' = Id(u)'
      PROVE  DOMAIN tx'[s].done \cap DOMAIN tx'[u].done \subseteq tx'[s].overlaps
  <2>1. CASE s = r
    BY <1>1, <1>5, <2>1 DEF Busy
  <2>2. CASE u = r
    BY <1>1, <1>5, <2>2 DEF Busy
  <2>3. CASE s # r /\ u # r
    BY <1>1, <1>5, <2>3 DEF ListInv, Busy
  <2> QED  BY <2>1, <2>2, <2>3
<1>6. \A l \in Listed : life'[l[1]] = "unborn" => asked'[l] = {}
  BY <1>2 DEF ListInv
<1> QED  BY <1>3, <1>4, <1>5, <1>6 DEF ListInv

LEMMA ListFail ==
  ASSUME TxInv, ListInv, NEW r \in Requests, Fail(r)
  PROVE  ListInv'
<1>1. EndingWith(r, {}) /\ UNCHANGED <<tables, asked, mixed>>
  BY DEF Fail
<1>2. /\ tx'[r] = Idle
      /\ \A s \in Requests \ {r} : Aside(s) /\ tx'[s].seen = tx[s].seen \ {}
  BY <1>1, Ends, ZenonT(30) DEF TxInv
<1>3. r \notin Busy'
  BY <1>2 DEF Idle, Busy, At
<1>4. \A seen : seen \ {} = seen
  OBVIOUS
<1> QED  BY <1>1, <1>2, <1>3, <1>4, ListStep

LEMMA ListStart ==
  ASSUME TxInv, ListInv, NEW r \in Requests, NEW c \in Calls, Start(r, c)
  PROVE  ListInv'
<1>1. /\ Started(r, c) /\ UNCHANGED <<tables, asked, mixed>>
      /\ \A s \in Requests \ {r} : Aside(s) /\ tx'[s].seen = tx[s].seen
  BY StartStep
<1>2. DOMAIN tx'[r].done = {}
  BY <1>1 DEF Started
<1> QED  BY <1>1, <1>2, ListStep

\* A step that neither sees, deletes nor inserts links.
LEMMA ListKept ==
  ASSUME ListInv, NEW r \in Busy, UNCHANGED <<tables, asked, mixed>>, Untouched(r), SameRow(r),
         SameLists(r)
  PROVE  ListInv'
<1>1. r \in Requests /\ Id(r)' = Id(r) /\ links' = links
  BY DEF Busy, SameRow, Id, tables
<1>2. ASSUME NEW k \in DOMAIN tx'[r].done \ tx'[r].overlaps
      PROVE  Replaces(r, k)'
  <2>1. Replaces(r, k)
    BY DEF ListInv, SameRow, SameLists
  <2> QED  BY <1>1, <2>1 DEF Replaces, Links, SameLists
<1>3. \A s \in Busy \ {r} : Id(s) = Id(r)' =>
        DOMAIN tx'[r].done \cap DOMAIN tx[s].done \subseteq tx'[r].overlaps \cap tx'[s].overlaps
  BY <1>1 DEF ListInv, SameRow, SameLists, Untouched, Busy
<1>4. \A s \in Requests \ {r} : Aside(s) /\ tx'[s].seen = tx[s].seen
  BY Alone DEF Untouched
<1> QED  BY <1>1, <1>2, <1>3, <1>4, ListStep

LEMMA ListBeginList ==
  ASSUME TxInv, RowInv, ListInv, NEW r \in Requests, BeginList(r)
  PROVE  ListInv'
<1>1. /\ UNCHANGED <<tables, asked, mixed>> /\ SameRow(r) /\ \A s \in Requests \ {r} : Aside(s)
      /\ SkipsList(r) \/ \E kind \in tx[r].left : BeginsList(r, kind)
  BY BeginListStep DEF Quiet
<1>2. r \in Busy /\ At(r, "list") /\ Id(r)' = Id(r) /\ links' = links
  BY <1>1 DEF SkipsList, BeginsList, Busy, At, SameRow, Id, tables
<1>3. ListShape(tx[r]) /\ DOMAIN tx[r].done \cap tx[r].left = {} /\ tx[r].seen = {}
  BY <1>2, BusyShapes DEF ListShape, At
<1>4. \A s \in Requests \ {r} : tx'[s].seen = tx[s].seen
  BY <1>1 DEF SkipsList, BeginsList, Untouched
<1>5. \A s \in Busy \ {r} : Id(s) = Id(r) =>
        DOMAIN tx[r].done \cap DOMAIN tx[s].done \subseteq tx'[r].overlaps \cap tx'[s].overlaps
  <2>1. ASSUME NEW s \in Busy \ {r}, Id(s) = Id(r)
        PROVE  DOMAIN tx[r].done \cap DOMAIN tx[s].done \subseteq tx[r].overlaps \cap tx[s].overlaps
    BY <1>2, <2>1 DEF ListInv
  <2>2. \A s \in Requests \ {r} : tx[s].overlaps \subseteq tx'[s].overlaps
    BY <1>1 DEF Aside
  <2> QED  BY <1>1, <2>1, <2>2 DEF SameRow, Busy
<1>6. \A k \in DOMAIN tx[r].done \ tx'[r].overlaps : Replaces(r, k) /\ k \notin tx[r].left
  BY <1>1, <1>2, <1>3 DEF ListInv, SameRow
<1>7. CASE SkipsList(r)
  <2>1. tx'[r].done = tx[r].done /\ tx'[r].seen = tx[r].seen /\ tx'[r].gone = tx[r].gone
        /\ tx'[r].new = tx[r].new
    BY <1>7 DEF SkipsList
  <2>2. \A k \in DOMAIN tx'[r].done \ tx'[r].overlaps : Replaces(r, k)'
    BY <1>2, <1>6, <2>1 DEF Replaces, Links
  <2> QED  BY <1>1, <1>2, <1>4, <1>5, <2>1, <2>2, ListStep
<1>8. ASSUME NEW kind \in tx[r].left, BeginsList(r, kind)
      PROVE  ListInv'
  <2>1. ASSUME NEW k \in DOMAIN tx'[r].done \ tx'[r].overlaps
        PROVE  Replaces(r, k)'
    <3>1. CASE k = kind
      BY <1>2, <1>8, <3>1 DEF Replaces, BeginsList, Links
    <3>2. CASE k # kind
      <4>1. k \in DOMAIN tx[r].done /\ tx'[r].done[k] = tx[r].done[k]
        BY <1>8, <3>2 DEF BeginsList
      <4>2. Replaces(r, k) /\ k \notin tx[r].left
        BY <1>6, <4>1
      <4> QED  BY <1>2, <1>3, <1>8, <4>1, <4>2 DEF Replaces, BeginsList, Links
    <3> QED  BY <3>1, <3>2
  <2>2. ASSUME NEW s \in Busy \ {r}, Id(s) = Id(r)
        PROVE  DOMAIN tx'[r].done \cap DOMAIN tx[s].done \subseteq tx'[r].overlaps \cap tx'[s].overlaps
    <3>1. Id(r) \notin tx[r].lock \cap tx[s].lock
      BY <1>2 DEF RowInv, LockOK
    <3>2. kind \in DOMAIN tx[s].done => kind \in tx'[r].overlaps \cap tx'[s].overlaps
      BY <1>8, <2>2, <3>1, BusyOthers DEF BeginsList, Overlapping
    <3> QED  BY <1>5, <1>8, <2>2, <3>2 DEF BeginsList
  <2> QED  BY <1>1, <1>2, <1>4, <2>1, <2>2, ListStep
<1> QED  BY <1>1, <1>7, <1>8

LEMMA ListClear ==
  ASSUME TxInv, LinkInv, ListInv, NEW r \in Requests, Clear(r)
  PROVE  ListInv'
<1>1. /\ UNCHANGED <<tables, asked, mixed>> /\ Untouched(r) /\ SameRow(r) /\ At(r, "clear")
      /\ tx'[r].seen = {} /\ tx'[r].gone = tx[r].gone \cup (tx[r].seen \cap links)
      /\ tx'[r].new = tx[r].new /\ tx'[r].done = tx[r].done
      /\ IF tx[r].found = {} THEN tx'[r].left = tx[r].left \ {Current(tx[r])}
         ELSE tx'[r].left = tx[r].left
  BY ClearStep DEF Quiet
<1>2. r \in Busy /\ Id(r)' = Id(r) /\ links' = links
  BY <1>1 DEF Busy, At, SameRow, Id, tables
<1>3. Current(tx[r]) \in DOMAIN tx[r].done /\ tx[r].done[Current(tx[r])] = tx[r].found
  BY <1>1, <1>2, BusyShapes DEF ListShape, At
<1>4. ASSUME NEW k \in DOMAIN tx'[r].done \ tx'[r].overlaps
      PROVE  Replaces(r, k)'
  <2>1. Replaces(r, k)
    BY <1>1, <1>2 DEF ListInv, SameRow
  <2>2. Links(Id(r), k) \subseteq tx'[r].gone
    BY <1>1, <2>1 DEF Replaces, Links
  <2>3. k \notin tx'[r].left => {Id(r)} \X tx[r].done[k] \subseteq tx[r].new
    BY <1>1, <1>3, <2>1 DEF Replaces
  <2> QED  BY <1>1, <1>2, <2>2, <2>3 DEF Replaces, Links
<1>5. \A s \in Busy \ {r} : Id(s) = Id(r) =>
        DOMAIN tx'[r].done \cap DOMAIN tx[s].done \subseteq tx'[r].overlaps \cap tx'[s].overlaps
  BY <1>1, <1>2 DEF ListInv, SameRow, Untouched, Busy
<1>6. \A s \in Requests \ {r} : Aside(s) /\ tx'[s].seen = tx[s].seen
  BY <1>1, Alone DEF Untouched
<1> QED  BY <1>1, <1>2, <1>4, <1>5, <1>6, ListStep

LEMMA ListInsert ==
  ASSUME TxInv, ListInv, NEW r \in Requests, InsertLinks(r)
  PROVE  ListInv'
<1>1. /\ UNCHANGED <<tables, asked, mixed>> /\ Untouched(r) /\ SameRow(r) /\ At(r, "insert")
      /\ tx'[r].seen = tx[r].seen /\ tx'[r].gone = tx[r].gone
      /\ tx'[r].new = tx[r].new \cup (({Id(r)} \X tx[r].found) \ (links \ tx[r].gone))
      /\ tx'[r].done = tx[r].done /\ tx'[r].left = tx[r].left \ {Current(tx[r])}
  BY InsertStep DEF Quiet
<1>2. r \in Busy /\ Id(r)' = Id(r) /\ links' = links
  BY <1>1 DEF Busy, At, SameRow, Id, tables
<1>3. /\ Current(tx[r]) \in DOMAIN tx[r].done /\ tx[r].done[Current(tx[r])] = tx[r].found
      /\ tx[r].seen = {} /\ tx[r].found \subseteq Linkable(Id(r), Current(tx[r]))
  BY <1>1, <1>2, BusyShapes DEF ListShape, At, Id
<1>4. ASSUME NEW k \in DOMAIN tx'[r].done \ tx'[r].overlaps
      PROVE  Replaces(r, k)'
  <2>1. Replaces(r, k)
    BY <1>1, <1>2 DEF ListInv, SameRow
  <2>2. CASE k = Current(tx[r])
    <3>1. \A o \in tx[r].found : <<Id(r), o>> \in links => <<Id(r), o>> \in tx[r].gone
      BY <1>3, <2>1, <2>2 DEF Replaces, Links, Linkable
    <3>2. {Id(r)} \X tx[r].done[k] \subseteq tx'[r].new
      BY <1>1, <1>3, <2>2, <3>1
    <3> QED  BY <1>1, <1>2, <2>1, <3>2 DEF Replaces, Links
  <2>3. CASE k # Current(tx[r])
    BY <1>1, <1>2, <2>1, <2>3 DEF Replaces, Links
  <2> QED  BY <2>2, <2>3
<1>5. \A s \in Busy \ {r} : Id(s) = Id(r) =>
        DOMAIN tx'[r].done \cap DOMAIN tx[s].done \subseteq tx'[r].overlaps \cap tx'[s].overlaps
  BY <1>1, <1>2 DEF ListInv, SameRow, Untouched, Busy
<1>6. \A s \in Requests \ {r} : Aside(s) /\ tx'[s].seen = tx[s].seen
  BY <1>1, Alone DEF Untouched
<1> QED  BY <1>1, <1>2, <1>4, <1>5, <1>6, ListStep

\* When r ends, what the others have seen and replace shrinks with the links.
LEMMA ListEnd ==
  ASSUME TxInv, ListInv, NEW r \in Busy, NEW gone, EndingWith(r, gone), ListsReplaced',
         \A l \in Listed : life'[l[1]] = "unborn" => asked'[l] = {},
         \A s \in Busy \ {r} : \A k \in DOMAIN tx[s].done \ tx[s].overlaps :
           \A l \in links' : l[1] = Id(s) /\ KindOf[l[2]] = k => l \in links \ gone
  PROVE  ListInv'
<1>0. r \in Requests
  BY DEF Busy
<1>1. /\ tx'[r].stage = "idle"
      /\ \A s \in Requests \ {r} : /\ (At(s, "idle")' <=> At(s, "idle")) /\ Id(s)' = Id(s)
                                   /\ tx'[s].gone = tx[s].gone /\ tx'[s].new = tx[s].new
                                   /\ tx'[s].seen = tx[s].seen \ gone
                                   /\ tx'[s].done = tx[s].done /\ tx'[s].left = tx[s].left
                                   /\ tx'[s].overlaps = tx[s].overlaps
  BY <1>0, Ends DEF Aside, At, Id, TxInv, Idle
<1>2. Busy' = Busy \ {r} /\ Busy \subseteq Requests
  BY <1>1 DEF Busy, At
<1>3. ASSUME NEW s \in Busy \ {r}, NEW k \in DOMAIN tx[s].done \ tx[s].overlaps
      PROVE  Replaces(s, k)'
  <2>1. Replaces(s, k)
    BY DEF ListInv
  <2>2. Links(Id(s), k)' = {l \in links' : l[1] = Id(s)' /\ KindOf[l[2]] = k}
    BY <1>1, <1>2 DEF Links
  <2>3. Links(Id(s), k)' \subseteq tx'[s].gone \cup tx'[s].seen
    BY <1>1, <1>2, <2>1, <2>2 DEF Replaces, Links
  <2> QED  BY <1>1, <1>2, <2>1, <2>3 DEF Replaces
<1>4. \A s, u \in Busy' : s # u /\ Id(s)' = Id(u)' =>
        DOMAIN tx'[s].done \cap DOMAIN tx'[u].done \subseteq tx'[s].overlaps
  BY <1>1, <1>2 DEF ListInv
<1> QED  BY <1>1, <1>2, <1>3, <1>4 DEF ListInv

LEMMA ListCommit ==
  ASSUME TxInv, RowInv, LinkInv, ListInv, NEW r \in Requests, Commit(r)
  PROVE  ListInv'
<1>1. /\ EndingWith(r, tx[r].gone) /\ links' = (links \ tx[r].gone) \cup tx[r].new
      /\ At(r, "commit")
      /\ asked' = [l \in DOMAIN asked |-> IF l[1] = Id(r) /\ l[2] \in DOMAIN tx[r].done
                                          THEN tx[r].done[l[2]] ELSE asked[l]]
      /\ mixed' = (mixed \ ({Id(r)} \X DOMAIN tx[r].done)) \cup ({Id(r)} \X (tx[r].overlaps \cap Kinds))
  BY DEF Commit
<1>2. r \in Busy /\ DOMAIN asked = Listed
  BY <1>1 DEF Busy, At, TxInv, Typed0
<1>3. ListShape(tx[r]) /\ tx[r].left = {} /\ tx[r].seen = {} /\ Id(r) \in Objects
  BY <1>1, <1>2, BusyShapes DEF ListShape, At
<1>4. \A l \in tx[r].gone \cup tx[r].new : l[1] = Id(r) /\ KindOf[l[2]] \in DOMAIN tx[r].done
  BY <1>3 DEF ListShape, Id
<1>5. \A o, k : o # Id(r) \/ k \notin DOMAIN tx[r].done => Links(o, k)' = Links(o, k)
  BY <1>1, <1>4 DEF Links
<1>6. ASSUME NEW l \in Listed, l[1] \in Live', l \notin mixed'
      PROVE  {m[2] : m \in Links(l[1], l[2])'} = asked'[l]
  <2>1. CASE l[1] = Id(r) /\ l[2] \in DOMAIN tx[r].done
    <3>1. l = <<Id(r), l[2]>> /\ l[2] \in Kinds
      BY <2>1 DEF Listed
    <3>2. l[2] \notin tx[r].overlaps
      BY <1>1, <1>6, <3>1
    <3>3. Replaces(r, l[2])
      BY <1>2, <2>1, <3>2 DEF ListInv
    <3>4. Links(l[1], l[2]) \subseteq tx[r].gone /\ {Id(r)} \X tx[r].done[l[2]] \subseteq tx[r].new
      BY <1>3, <2>1, <3>3 DEF Replaces
    <3>5. tx[r].done[l[2]] \subseteq Linkable(Id(r), l[2])
      BY <1>3, <2>1 DEF ListShape, Id
    <3>6. \A o \in tx[r].done[l[2]] : <<Id(r), o>> \in Links(l[1], l[2])'
      BY <1>1, <2>1, <3>4, <3>5 DEF Links, Linkable
    <3>7. \A m \in Links(l[1], l[2])' : m[2] \in tx[r].done[l[2]]
      BY <1>1, <1>3, <3>4 DEF Links, ListShape
    <3>8. asked'[l] = tx[r].done[l[2]]
      BY <1>1, <1>2, <2>1
    <3>9. \A o \in tx[r].done[l[2]] : \E m \in Links(l[1], l[2])' : m[2] = o
      BY <3>6
    <3> QED  BY <3>7, <3>8, <3>9
  <2>2. CASE ~(l[1] = Id(r) /\ l[2] \in DOMAIN tx[r].done)
    <3>1. asked'[l] = asked[l] /\ Links(l[1], l[2])' = Links(l[1], l[2])
      BY <1>1, <1>2, <1>5, <2>2
    <3>2. l \notin mixed
      BY <1>1, <1>6, <2>2
    <3>3. CASE l[1] \in Live
      BY <1>2, <3>1, <3>2, <3>3 DEF ListInv, ListsReplaced, Live
    <3>4. CASE l[1] \notin Live
      <4>1. Links(l[1], l[2]) = {}
        BY <3>4 DEF LinkInv, Links
      <4>2. life[l[1]] = "unborn"
        BY <1>6, <3>4, LifeAfter DEF Live
      <4> QED  BY <3>1, <4>1, <4>2 DEF ListInv
    <3> QED  BY <3>3, <3>4
  <2> QED  BY <2>1, <2>2
<1>7. ListsReplaced'
  BY <1>1, <1>2, <1>6 DEF ListsReplaced, Live, Listed
<1>8. ASSUME NEW l \in Listed, life'[l[1]] = "unborn"
      PROVE  asked'[l] = {}
  <2>1. life[l[1]] = "unborn" /\ (l[1] = Id(r) => ~Creating(r))
    BY <1>3, <1>8 DEF Commit, Creating, TxInv, Typed0, Listed
  <2>2. l[1] # Id(r)
    BY <1>2, <2>1 DEF RowInv, RowOK
  <2> QED  BY <1>1, <1>2, <2>1, <2>2 DEF ListInv
<1>9. ASSUME NEW s \in Busy \ {r}, NEW k \in DOMAIN tx[s].done \ tx[s].overlaps
      PROVE  \A l \in links' : l[1] = Id(s) /\ KindOf[l[2]] = k => l \in links \ tx[r].gone
  <2>1. Id(s) = Id(r) => k \notin DOMAIN tx[r].done
    BY <1>2 DEF ListInv
  <2> QED  BY <1>1, <1>4, <2>1
<1> QED  BY <1>1, <1>2, <1>7, <1>8, <1>9, ListEnd

LEMMA ListCascade ==
  ASSUME TxInv, ListInv, NEW r \in Requests, Cascade(r)
  PROVE  ListInv'
<1>1. /\ EndingWith(r, LinksWith(Id(r))) /\ links' = links \ LinksWith(Id(r))
      /\ At(r, "cascade") /\ mixed' = mixed
      /\ asked' = [l \in DOMAIN asked |-> IF l[1] = Id(r) THEN {} ELSE asked[l] \ {Id(r)}]
  BY DEF Cascade
<1>2. r \in Busy /\ DOMAIN asked = Listed
  BY <1>1 DEF Busy, At, TxInv, Typed0
<1>3. ASSUME NEW l \in Listed, l[1] \in Live', l \notin mixed'
      PROVE  {m[2] : m \in Links(l[1], l[2])'} = asked'[l]
  <2>1. l[1] \in Live /\ l[1] # Id(r)
    BY <1>3, LifeAfter
  <2>2. {m[2] : m \in Links(l[1], l[2])} = asked[l]
    BY <1>1, <1>2, <1>3, <2>1 DEF ListInv, ListsReplaced, Live
  <2>3. Links(l[1], l[2])' = {m \in Links(l[1], l[2]) : m[2] # Id(r)}
    BY <1>1, <2>1 DEF Links, LinksWith
  <2>4. asked'[l] = asked[l] \ {Id(r)}
    BY <1>1, <1>2, <2>1
  <2> QED  BY <2>2, <2>3, <2>4
<1>4. ListsReplaced'
  BY <1>1, <1>2, <1>3 DEF ListsReplaced, Live, Listed
<1>5. ASSUME NEW l \in Listed, life'[l[1]] = "unborn"
      PROVE  asked'[l] = {}
  <2>1. life[l[1]] = "unborn"
    BY <1>5, LifeAfter DEF Cascade, TxInv, Typed0, Listed
  <2> QED  BY <1>1, <1>2, <2>1 DEF ListInv
<1> QED  BY <1>1, <1>2, <1>4, <1>5, ListEnd

-----------------------------------------------------------------------------
(* The pool, and the steps put together.                                   *)

LEMMA PoolStep ==
  ASSUME Pooled, pool' = pool, NEW r \in Requests, \A s \in Requests \ {r} : Aside(s),
         r \in Connected' => r \in Connected \/ Free
  PROVE  Pooled'
<1>1. Connected' \subseteq Connected \cup {r}
  BY DEF Connected, Aside
<1>2. /\ IsFiniteSet(Connected) /\ Cardinality(Connected) \in Nat
      /\ pool \in PoolSizes /\ pool \in Nat /\ Cardinality(Connected) <= pool
  BY WorkspaceAssumption, FS_Subset, FS_CardinalityType DEF Connected, Pooled
<1>3. CASE r \in Connected'
  <2>1. Cardinality(Connected \cup {r}) <= pool /\ IsFiniteSet(Connected \cup {r})
    <3>1. /\ IsFiniteSet(Connected \cup {r})
          /\ Cardinality(Connected \cup {r}) = IF r \in Connected THEN Cardinality(Connected)
                                               ELSE Cardinality(Connected) + 1
      BY <1>2, FS_AddElement
    <3>2. r \in Connected \/ Cardinality(Connected) < pool
      BY <1>3 DEF Free
    <3> QED  BY <1>2, <3>1, <3>2
  <2>2. Cardinality(Connected') <= Cardinality(Connected \cup {r}) /\ IsFiniteSet(Connected')
    BY <1>1, <2>1, FS_Subset
  <2> QED  BY <1>2, <2>1, <2>2, FS_CardinalityType DEF Pooled
<1>4. CASE r \notin Connected'
  <2>1. Connected' \subseteq Connected
    BY <1>1, <1>4
  <2>2. Cardinality(Connected') <= Cardinality(Connected) /\ IsFiniteSet(Connected')
    BY <1>2, <2>1, FS_Subset
  <2> QED  BY <1>2, <2>2, FS_CardinalityType DEF Pooled
<1> QED  BY <1>3, <1>4

\* A request that is past its connection takes none.
LEMMA PoolKept ==
  ASSUME Pooled, pool' = pool, NEW r \in Requests, \A s \in Requests \ {r} : Aside(s),
         tx[r].stage \notin {"idle", "connect"} \/ tx'[r].stage \in {"idle", "connect"}
  PROVE  Pooled'
BY PoolStep DEF Connected

LEMMA GroupKept ==
  ASSUME GroupInv, UNCHANGED tables
  PROVE  GroupInv'
BY DEF GroupInv, tables, Live

LEMMA FailKeeps == ASSUME WorkspaceInv, pool' = pool, NEW r \in Requests, Fail(r) PROVE WorkspaceInv'
<1>1. TxInv' /\ RowInv' /\ LinkInv' /\ RegionInv' /\ ConfigInv' /\ ListInv'
  BY TxFail, RowFail, LinkFail, RegionFail, ConfigFail, ListFail DEF WorkspaceInv
<1>2. /\ UNCHANGED tables /\ tx'[r].stage = "idle" /\ r \notin Busy'
      /\ \A s \in Requests \ {r} : Aside(s)
  BY Ends DEF Fail, WorkspaceInv, TxInv, Idle, Busy, At
<1>3. SlugInv' /\ GroupInv' /\ Pooled'
  BY <1>2, SlugIdle, GroupKept, PoolKept DEF WorkspaceInv
<1> QED  BY <1>1, <1>3 DEF WorkspaceInv

LEMMA StartKeeps ==
  ASSUME WorkspaceInv, pool' = pool, NEW r \in Requests, NEW c \in Calls, calls < MaxCalls, Start(r, c)
  PROVE  WorkspaceInv'
<1>1. TxInv' /\ RowInv' /\ LinkInv' /\ RegionInv' /\ ConfigInv' /\ ListInv'
  BY TxStart, RowStart, LinkStart, RegionStart, ConfigStart, ListStart DEF WorkspaceInv
<1>2. /\ UNCHANGED tables /\ tx'[r].stage = "connect" /\ tx'[r].lock = {}
      /\ \A s \in Requests \ {r} : Aside(s)
  BY StartStep DEF WorkspaceInv, Started
<1>3. SlugInv' /\ GroupInv' /\ Pooled'
  BY <1>2, SlugIdle, GroupKept, PoolKept DEF WorkspaceInv, Takes
<1> QED  BY <1>1, <1>3 DEF WorkspaceInv

LEMMA ConnectKeeps == ASSUME WorkspaceInv, pool' = pool, NEW r \in Requests, Connect(r) PROVE WorkspaceInv'
<1>1. /\ UNCHANGED <<tables, asked, mixed>> /\ typed' = typed /\ Untouched(r)
      /\ SameRow(r) /\ SameLocks(r) /\ SameLists(r)
      /\ r \in Busy /\ tx'[r].stage = "row"
  BY ConnectStep DEF WorkspaceInv, TxInv, Quiet, Busy, At
<1>2. \A s \in Requests \ {r} : Aside(s)
  BY <1>1, Alone
<1>3. TxInv' /\ RowInv' /\ LinkInv'
  BY <1>1, <1>2, TxConnect, RowKept, LinkKept DEF WorkspaceInv, SameLists, tables
<1>4. RegionInv' /\ SlugInv' /\ ConfigInv' /\ ListInv' /\ GroupInv'
  BY <1>1, <1>2, RegionKept, SlugKept, ConfigKept, ListKept, GroupKept
     DEF WorkspaceInv, SameLists, SameLocks
<1>5. Pooled'
  BY <1>2, PoolStep DEF WorkspaceInv, Connect
<1> QED  BY <1>3, <1>4, <1>5 DEF WorkspaceInv

LEMMA WriteRowKeeps == ASSUME WorkspaceInv, pool' = pool, NEW r \in Requests, WriteRow(r) PROVE WorkspaceInv'
<1>1. /\ UNCHANGED <<tables, asked, mixed>> /\ typed' = typed /\ Untouched(r)
      /\ SameRow(r) /\ SameLists(r) /\ r \in Busy /\ At(r, "row")
  BY WriteRowStep DEF WorkspaceInv, Quiet, Busy, At
<1>2. \A s \in Requests \ {r} : Aside(s)
  BY <1>1, Alone
<1>3. TxInv' /\ RowInv' /\ LinkInv' /\ SlugInv'
  BY <1>1, TxWriteRow, RowWriteRow, LinkKept, SlugWriteRow DEF WorkspaceInv, SameLists
<1>4. RegionInv' /\ ConfigInv' /\ ListInv' /\ GroupInv'
  BY <1>1, <1>2, RegionKept, ConfigKept, ListKept, GroupKept DEF WorkspaceInv, SameLists
<1>5. Pooled'
  BY <1>1, <1>2, PoolKept DEF WorkspaceInv, At
<1> QED  BY <1>3, <1>4, <1>5 DEF WorkspaceInv

LEMMA LockRowKeeps == ASSUME WorkspaceInv, pool' = pool, NEW r \in Requests, LockRow(r) PROVE WorkspaceInv'
<1>1. /\ UNCHANGED <<tables, asked, mixed>> /\ typed' = typed /\ Untouched(r)
      /\ SameRow(r) /\ SameLists(r) /\ r \in Busy /\ At(r, "row") /\ Deletes(r)
  BY LockRowStep DEF WorkspaceInv, Quiet, Busy, At
<1>2. \A s \in Requests \ {r} : Aside(s)
  BY <1>1, Alone
<1>3. ~Takes(r)'
  BY <1>1 DEF SameRow, Takes, Deletes
<1>4. TxInv' /\ RowInv' /\ LinkInv' /\ SlugInv'
  BY <1>1, <1>2, <1>3, TxLockRow, RowLockRow, LinkKept, SlugIdle DEF WorkspaceInv, SameLists
<1>5. RegionInv' /\ ConfigInv' /\ ListInv' /\ GroupInv'
  BY <1>1, <1>2, RegionKept, ConfigKept, ListKept, GroupKept DEF WorkspaceInv, SameLists
<1>6. Pooled'
  BY <1>1, <1>2, PoolKept DEF WorkspaceInv, At
<1> QED  BY <1>4, <1>5, <1>6 DEF WorkspaceInv

\* The steps of a list write no row.
LEMMA BetweenKeeps ==
  ASSUME WorkspaceInv, pool' = pool, NEW r \in Busy, UNCHANGED tables, typed' = typed, SameRow(r),
         tx'[r].lock = tx[r].lock, tx[r].stage \notin {"idle", "connect"},
         \A s \in Requests \ {r} : Aside(s)
  PROVE  SlugInv' /\ ConfigInv' /\ GroupInv' /\ Pooled'
<1>1. r \in Requests
  BY DEF Busy
<1> QED  BY <1>1, SlugKept, ConfigKept, GroupKept, PoolKept DEF WorkspaceInv

LEMMA BeginListKeeps == ASSUME WorkspaceInv, pool' = pool, NEW r \in Requests, BeginList(r) PROVE WorkspaceInv'
<1>1. /\ UNCHANGED tables /\ typed' = typed /\ SameRow(r) /\ SameLocks(r) /\ At(r, "list")
      /\ tx'[r].stage # "cascade" /\ \A s \in Requests \ {r} : Aside(s)
  BY BeginListStep DEF WorkspaceInv, Quiet, SkipsList, BeginsList, After
<1>2. r \in Busy
  BY <1>1 DEF Busy, At
<1>3. TxInv' /\ RowInv' /\ LinkInv'
  BY <1>1, <1>2, TxBeginList, RowKept, LinkBeginList DEF WorkspaceInv, tables
<1>4. RegionInv' /\ ListInv'
  BY RegionBeginList, ListBeginList DEF WorkspaceInv
<1>5. SlugInv' /\ ConfigInv' /\ GroupInv' /\ Pooled'
  BY <1>1, <1>2, BetweenKeeps DEF At, SameLocks
<1> QED  BY <1>3, <1>4, <1>5 DEF WorkspaceInv

LEMMA ClearKeeps == ASSUME WorkspaceInv, pool' = pool, NEW r \in Requests, Clear(r) PROVE WorkspaceInv'
<1>1. /\ UNCHANGED tables /\ typed' = typed /\ SameRow(r) /\ SameLocks(r) /\ At(r, "clear")
      /\ tx'[r].stage # "cascade" /\ Untouched(r)
  BY ClearStep DEF WorkspaceInv, Quiet, After
<1>2. r \in Busy /\ \A s \in Requests \ {r} : Aside(s)
  BY <1>1, Alone DEF Busy, At
<1>3. TxInv' /\ RowInv' /\ LinkInv'
  BY <1>1, <1>2, TxClear, RowKept, LinkClear DEF WorkspaceInv, tables
<1>4. RegionInv' /\ ListInv'
  BY RegionClear, ListClear DEF WorkspaceInv
<1>5. SlugInv' /\ ConfigInv' /\ GroupInv' /\ Pooled'
  BY <1>1, <1>2, BetweenKeeps DEF At, SameLocks
<1> QED  BY <1>3, <1>4, <1>5 DEF WorkspaceInv

LEMMA InsertKeeps == ASSUME WorkspaceInv, pool' = pool, NEW r \in Requests, InsertLinks(r) PROVE WorkspaceInv'
<1>1. /\ UNCHANGED tables /\ typed' = typed /\ SameRow(r) /\ tx'[r].lock = tx[r].lock
      /\ At(r, "insert") /\ Untouched(r)
  BY InsertStep DEF WorkspaceInv, Quiet
<1>2. r \in Busy /\ \A s \in Requests \ {r} : Aside(s)
  BY <1>1, Alone DEF Busy, At
<1>3. TxInv' /\ RowInv' /\ LinkInv' /\ RegionInv' /\ ListInv'
  BY TxInsert, RowInsert, LinkInsert, RegionInsert, ListInsert DEF WorkspaceInv
<1>4. SlugInv' /\ ConfigInv' /\ GroupInv' /\ Pooled'
  BY <1>1, <1>2, BetweenKeeps DEF At
<1> QED  BY <1>3, <1>4 DEF WorkspaceInv

LEMMA CommitKeeps == ASSUME WorkspaceInv, pool' = pool, NEW r \in Requests, Commit(r) PROVE WorkspaceInv'
<1>1. TxInv' /\ RowInv' /\ LinkInv' /\ GroupInv'
  BY TxCommit, RowCommit, LinkCommit, GroupCommit DEF WorkspaceInv
<1>2. RegionInv' /\ SlugInv' /\ ConfigInv' /\ ListInv'
  BY RegionCommit, SlugCommit, ConfigCommit, ListCommit DEF WorkspaceInv
<1>3. tx'[r].stage = "idle" /\ \A s \in Requests \ {r} : Aside(s)
  BY Ends DEF Commit, WorkspaceInv, TxInv, Idle
<1>4. Pooled'
  BY <1>3, PoolKept DEF WorkspaceInv
<1> QED  BY <1>1, <1>2, <1>4 DEF WorkspaceInv

LEMMA CascadeKeeps == ASSUME WorkspaceInv, pool' = pool, NEW r \in Requests, Cascade(r) PROVE WorkspaceInv'
<1>1. TxInv' /\ RowInv' /\ LinkInv' /\ GroupInv'
  BY TxCascade, RowCascade, LinkCascade, GroupCascade DEF WorkspaceInv
<1>2. RegionInv' /\ SlugInv' /\ ConfigInv' /\ ListInv'
  BY RegionCascade, SlugCascade, ConfigCascade, ListCascade DEF WorkspaceInv
<1>3. tx'[r].stage = "idle" /\ \A s \in Requests \ {r} : Aside(s)
  BY Ends DEF Cascade, WorkspaceInv, TxInv, Idle
<1>4. Pooled'
  BY <1>3, PoolKept DEF WorkspaceInv
<1> QED  BY <1>1, <1>2, <1>4 DEF WorkspaceInv

LEMMA Inductive == WorkspaceInv /\ [Next]_<<vars, pool>> => WorkspaceInv'
<1> SUFFICES ASSUME WorkspaceInv, [Next]_<<vars, pool>> PROVE WorkspaceInv'
  OBVIOUS
<1>1. ASSUME NEW r \in Requests, NEW c \in Calls, calls < MaxCalls, pool' = pool, Start(r, c)
      PROVE  WorkspaceInv'
  BY <1>1, StartKeeps
<1>2. ASSUME NEW r \in Requests, pool' = pool, Proceed(r) PROVE WorkspaceInv'
  <2>1. RowFails(r) \/ InsertFails(r) \/ NothingToDelete(r) => Fail(r)
    BY DEF RowFails, InsertFails, NothingToDelete
  <2> QED  BY <1>2, <2>1, FailKeeps, ConnectKeeps, WriteRowKeeps, BeginListKeeps, ClearKeeps,
              InsertKeeps, CommitKeeps, LockRowKeeps, CascadeKeeps DEF Proceed
<1>3. ASSUME NEW r \in Requests, pool' = pool, ConnectionTimeout(r) \/ DeadlockVictim(r) \/ Abort(r)
      PROVE  WorkspaceInv'
  <2>1. Fail(r)
    BY <1>3 DEF ConnectionTimeout, DeadlockVictim, Abort
  <2> QED  BY <1>3, <2>1, FailKeeps
<1>4. CASE UNCHANGED <<vars, pool>>
  <2>1. UNCHANGED <<life, group, slug, config, links, tx, calls, asked, mixed, typed, pool>>
    BY <1>4 DEF vars, tables
  <2>2. Busy' = Busy /\ Live' = Live
    BY <2>1 DEF Busy, At, Live
  <2>3. TxInv'
    BY <2>1 DEF WorkspaceInv, TxInv, Typed0, At
  <2>4. RowInv'
    BY <2>1, <2>2 DEF WorkspaceInv, RowInv, RowOK, LockOK, Creating, Deletes, Id, At
  <2>5. LinkInv' /\ GroupInv'
    BY <2>1, <2>2 DEF WorkspaceInv, LinkInv, GroupInv
  <2>6. RegionInv'
    BY <2>1, <2>2 DEF WorkspaceInv, RegionInv, Bare, RegionNew, Creating, Id, Links
  <2>7. SlugInv'
    BY <2>1, <2>2 DEF WorkspaceInv, SlugInv, AddressesDistinct, Takes, Deletes, Id
  <2>8. ConfigInv'
    BY <2>1, <2>2 DEF WorkspaceInv, ConfigInv, Unspoilt, Configures, Id
  <2>9. ListInv'
    BY <2>1, <2>2 DEF WorkspaceInv, ListInv, ListsReplaced, Replaces, Links, Id
  <2>10. Pooled'
    BY <2>1 DEF WorkspaceInv, Pooled, Connected
  <2> QED  BY <2>3, <2>4, <2>5, <2>6, <2>7, <2>8, <2>9, <2>10 DEF WorkspaceInv
<1> QED  BY <1>1, <1>2, <1>3, <1>4 DEF Next

LEMMA Initially == Init => WorkspaceInv
<1> SUFFICES ASSUME Init PROVE WorkspaceInv
  OBVIOUS
<1>1. slug \in [Having("page") -> Slugs] /\ \A p, q \in Having("page") : slug[p] = slug[q] => p = q
  <2>1. slug \in Injection(Having("page"), Slugs)
    BY WorkspaceAssumption DEF Init
  <2> QED  BY <2>1 DEF Injection, IsInjective
<1>2. Busy = {} /\ Live = Preset
  BY WorkspaceAssumption DEF Init, Busy, At, Idle, Live
<1>3. asked = [l \in Listed |-> {o \in Objects : <<l[1], o>> \in PresetLinks /\ KindOf[o] = l[2]}]
  BY DEF Init, Listed
<1>4. Typed0
  <2>1. tx \in [Requests -> Transaction]
    BY IdleTyped DEF Init
  <2>2. asked \in [Listed -> SUBSET Objects]
    BY <1>3
  <2>3. links \subseteq Pairs
    BY WorkspaceAssumption DEF Init, Pairs
  <2> QED  BY <1>1, <2>1, <2>2, <2>3, WorkspaceAssumption DEF Init, Typed0
<1>5. TxInv
  BY <1>4 DEF Init, Idle, TxInv, At
<1>6. RowInv /\ LinkInv /\ GroupInv
  BY <1>2, WorkspaceAssumption DEF Init, RowInv, LinkInv, GroupInv
<1>7. RegionInv
  <2>1. \A m : Bare(m) = {}
    BY <1>2 DEF Bare
  <2>2. ASSUME NEW m \in Having("monitor") \cap Live
        PROVE  \E l \in Links(m, "region") : TRUE
    <3>1. PICK o \in Having("region") : <<m, o>> \in links
      BY <1>2, WorkspaceAssumption DEF Init
    <3> QED  BY <3>1 DEF Links, Having
  <2> QED  BY <1>2, <2>1, <2>2 DEF RegionInv
<1>8. SlugInv /\ ConfigInv
  BY <1>1, <1>2 DEF Init, SlugInv, AddressesDistinct, ConfigInv, Unspoilt
<1>9. ListInv
  <2>1. ASSUME NEW l \in Listed
        PROVE  {m[2] : m \in Links(l[1], l[2])} = asked[l]
    <3>1. asked[l] = {o \in Objects : <<l[1], o>> \in links /\ KindOf[o] = l[2]}
      BY <1>3 DEF Init
    <3>2. \A o \in asked[l] : <<l[1], o>> \in Links(l[1], l[2])
      BY <3>1 DEF Links
    <3>3. \A o \in asked[l] : \E m \in Links(l[1], l[2]) : m[2] = o
      BY <3>2
    <3>4. \A m \in Links(l[1], l[2]) : m[2] \in asked[l]
      BY <1>4, <3>1 DEF Links, Typed0, Pairs
    <3> QED  BY <3>3, <3>4
  <2>2. \A l \in Listed : life[l[1]] = "unborn" => asked[l] = {}
    BY <1>3, WorkspaceAssumption DEF Init, Listed
  <2>3. ListsReplaced
    BY <1>3, <2>1 DEF ListsReplaced
  <2> QED  BY <1>2, <2>2, <2>3 DEF ListInv
<1>10. Pooled
  <2>1. Connected = {}
    BY DEF Init, Idle, Connected
  <2> QED  BY <2>1, FS_EmptySet, WorkspaceAssumption DEF Init, Pooled
<1> QED  BY <1>5, <1>6, <1>7, <1>8, <1>9, <1>10 DEF WorkspaceInv

LEMMA Invariantly == Spec => []WorkspaceInv
BY Initially, Inductive, PTL DEF Spec

\* The rows and the requests have their types, what a request has seen of the links is
\* still there, and no more requests hold a connection than the pool has (client.ts).
THEOREM TypeCorrect == Spec => []TypeOK
<1>1. WorkspaceInv => TypeOK
  <2> SUFFICES ASSUME WorkspaceInv PROVE TypeOK
    OBVIOUS
  <2>1. ASSUME NEW r \in Requests
        PROVE  tx[r].stage \in Stages /\ tx[r].seen \subseteq links /\ tx[r].found \subseteq Objects
    <3>1. tx[r].stage \in Stages /\ tx[r].found \subseteq Objects
      BY DEF WorkspaceInv, TxInv, Typed0, Transaction
    <3>2. tx[r].seen \subseteq links
      BY DEF WorkspaceInv, TxInv, LinkInv, Busy
    <3> QED  BY <3>1, <3>2
  <2> QED  BY <2>1 DEF WorkspaceInv, Pooled, TxInv, Typed0, TypeOK, Pairs
<1> QED  BY <1>1, Invariantly, PTL

\* Whatever requests meet, fail or are chosen as the victim of a deadlock: every link and
\* group joins rows that exist, of one workspace; every monitor has a region; and no two
\* status pages have one address (the repositories and services of monitors and pages).
THEOREM LinksStaySound == Spec => []LinksSound
<1>1. WorkspaceInv => LinksSound
  BY DEF WorkspaceInv, LinkInv, GroupInv, RegionInv, SlugInv, LinksSound, OneWorkspace, AlwaysProbed
<1> QED  BY <1>1, Invariantly, PTL

\* Of the requests that replace a list, the last one's is what the list holds.  Requests
\* that write a column of the row are serialised by its lock; the exception is a list
\* whose last replacement overlapped another when one of the two wrote no column
\* (update, replaceAssignments, replaceTags, replaceChannels and setMonitors).
THEOREM ListsAreReplaced == Spec => []ListsReplaced
<1>1. WorkspaceInv => ListsReplaced
  BY DEF WorkspaceInv, ListInv
<1> QED  BY <1>1, Invariantly, PTL

\* Masks that come back never replace a credential: what is stored is what was typed last,
\* unless two PATCHes of a channel's config overlap (restoreRedacted, channel-service.ts).
\* A URL that maskUrl has shown without a mask counts as typed when it comes back.
THEOREM CredentialsAreKept == Spec => []CredentialsKept
<1>1. WorkspaceInv => CredentialsKept
  BY DEF WorkspaceInv, ConfigInv, Unspoilt, CredentialsKept
<1> QED  BY <1>1, Invariantly, PTL

=============================================================================
