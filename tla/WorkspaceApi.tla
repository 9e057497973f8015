---------------------------- MODULE WorkspaceApi ----------------------------
(***************************************************************************)
(* What the endpoints of a workspace make of a request: the fields that a   *)
(* schema takes from the body, and what the services and repositories then  *)
(* write.  A body is a record with the fields that were sent.  A request is *)
(* [method, id, body]; the id of a POST is the one the new row will have.   *)
(* A field that is neither a link, a credential nor a part of an address    *)
(* matters only by being there; values that a schema refuses are not sent.  *)
(***************************************************************************)
EXTENDS Functions

CONSTANTS
  Keep,      \* an absent field of a PATCH
  NoGroup    \* null

(* Schemas: the fields that a body must and may have.                      *)

Schema(required, optional) == [required |-> required, fields |-> required \cup optional]

Policy == {"intervalSeconds", "timeoutMs", "failureThreshold", "recoveryThreshold", "quorum"}

createMonitorSchema ==
  Schema({"name", "type", "target", "intervalSeconds"},
         Policy \cup {"config", "regionIds", "groupId", "tagIds", "channelIds"})
updateMonitorSchema ==
  Schema({}, Policy \cup {"name", "target", "config", "regionIds", "groupId", "tagIds", "channelIds"})
createTagSchema == Schema({"name"}, {"color"})
createGroupSchema == Schema({"name"}, {"sortOrder"})
updateGroupSchema == Schema({}, {"name", "sortOrder"})
createStatusPageSchema == Schema({"title"}, {"slug", "description", "monitorIds"})
updateStatusPageSchema == Schema({}, {"title", "slug", "description", "monitorIds"})
createChannelSchema == Schema({"type", "name", "config"}, {"enabled"})
updateChannelSchema == Schema({}, {"name", "config", "enabled"})

\* The body of a request of that method as the handler gets it, if it passes: other
\* fields are dropped, and something must be left.
parse(q, method, schema) ==
  {b \in {Restrict(q.body, DOMAIN q.body \cap schema.fields)} :
     q.method = method /\ schema.required \subseteq DOMAIN b /\ DOMAIN b # {}}

-----------------------------------------------------------------------------
(* Services and repositories: the call that a request comes to.  It sets    *)
(* columns of the object's own row (the group, the address and the config   *)
(* are some of those), and replaces the lists it has, by kind.              *)

Writes(op, id) == [op |-> op, id |-> id, columns |-> op = "create", group |-> Keep,
                   slug |-> Keep, config |-> Keep, lists |-> <<>>]

Given(b, field) == IF field \in DOMAIN b THEN b[field] ELSE Keep
Sets(b, columns) == DOMAIN b \cap columns # {}

ListsIn(b, fields) == [kind \in {k \in DOMAIN fields : fields[k] \in DOMAIN b} |-> b[fields[kind]]]
NonEmpty(lists) == Restrict(lists, {kind \in DOMAIN lists : lists[kind] # {}})

MonitorLists == [region |-> "regionIds", tag |-> "tagIds", channel |-> "channelIds"]
PageLists == [monitor |-> "monitorIds"]

\* The regions of a new monitor are always written.
createWithRegions(id, group, regions) ==
  [Writes("create", id) EXCEPT !.group = group, !.lists = [region |-> regions]]

createMonitor(id, b) ==
  LET lists == NonEmpty(ListsIn(b, MonitorLists))
      created == createWithRegions(id, IF "groupId" \in DOMAIN b THEN b.groupId ELSE NoGroup,
                                   IF "regionIds" \in DOMAIN b THEN b.regionIds ELSE {})
  IN [created EXCEPT !.lists = [kind \in DOMAIN lists \cup {"region"} |->
                                  IF kind = "region" THEN @[kind] ELSE lists[kind]]]

MonitorColumns == Policy \cup {"name", "target", "config", "groupId"}
updateMonitor(id, b) ==
  [Writes("patch", id) EXCEPT !.columns = Sets(b, MonitorColumns), !.group = Given(b, "groupId"),
                              !.lists = ListsIn(b, MonitorLists)]

createGroup(id, b) == Writes("create", id)

GroupColumns == {"name", "sortOrder"}
updateGroup(id, b) == [Writes("patch", id) EXCEPT !.columns = Sets(b, GroupColumns)]

\* A tag that has the name gets the colour instead; its id is the id here.
createTag(id, b) == Writes("create", id)

createChannel(id, b) == [Writes("create", id) EXCEPT !.config = b.config]

ChannelColumns == {"name", "config", "enabled"}
updateChannel(id, b) ==
  [Writes("patch", id) EXCEPT !.columns = Sets(b, ChannelColumns), !.config = Given(b, "config")]

\* Without an address the title makes one.
createPage(id, b) ==
  [Writes("create", id) EXCEPT !.slug = IF "slug" \in DOMAIN b THEN b.slug ELSE b.title,
                               !.lists = NonEmpty(ListsIn(b, PageLists))]

\* The address is a column too, if it is another than before.
PageColumns == {"title", "description"}
updatePage(id, b) ==
  [Writes("patch", id) EXCEPT !.columns = Sets(b, PageColumns), !.slug = Given(b, "slug"),
                              !.lists = ListsIn(b, PageLists)]

deleteRow(q) == {Writes("delete", q.id) : m \in {q.method} \cap {"DELETE"}}

-----------------------------------------------------------------------------
(* Routes.                                                                 *)

monitorRoutes(q) ==
  {createMonitor(q.id, b) : b \in parse(q, "POST", createMonitorSchema)} \cup
  {updateMonitor(q.id, b) : b \in parse(q, "PATCH", updateMonitorSchema)} \cup deleteRow(q)

groupRoutes(q) ==
  {createGroup(q.id, b) : b \in parse(q, "POST", createGroupSchema)} \cup
  {updateGroup(q.id, b) : b \in parse(q, "PATCH", updateGroupSchema)} \cup deleteRow(q)

tagRoutes(q) == {createTag(q.id, b) : b \in parse(q, "POST", createTagSchema)} \cup deleteRow(q)

channelRoutes(q) ==
  {createChannel(q.id, b) : b \in parse(q, "POST", createChannelSchema)} \cup
  {updateChannel(q.id, b) : b \in parse(q, "PATCH", updateChannelSchema)} \cup deleteRow(q)

statusPageRoutes(q) ==
  {createPage(q.id, b) : b \in parse(q, "POST", createStatusPageSchema)} \cup
  {updatePage(q.id, b) : b \in parse(q, "PATCH", updateStatusPageSchema)} \cup deleteRow(q)

\* What a request on a row of a table comes to: one call, or none if it is refused.
Handle(q, kind) ==
  CASE kind = "monitor" -> monitorRoutes(q)
    [] kind = "group"   -> groupRoutes(q)
    [] kind = "tag"     -> tagRoutes(q)
    [] kind = "channel" -> channelRoutes(q)
    [] kind = "page"    -> statusPageRoutes(q)
    [] OTHER            -> {}
=============================================================================
