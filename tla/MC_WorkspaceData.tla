-------------------------- MODULE MC_WorkspaceData --------------------------
(***************************************************************************)
(* A workspace with one or two rows of each table, and a tag of another.   *)
(***************************************************************************)
EXTENDS WorkspaceData, TLC

CONSTANTS wa, wb, m1, m2, g1, t1, tb, c1, c2, p1, p2, ra, rb, s1, s2, q1, q2,
          host, tail1, tail2, secret1, secret2

TwoRequests == {q1, q2}
Rows == {m1, m2, g1, t1, tb, c1, c2, p1, p2, ra, rb}
Tables == [o \in Rows |-> CASE o \in {m1, m2} -> "monitor"
                            [] o = g1 -> "group"
                            [] o \in {t1, tb} -> "tag"
                            [] o \in {c1, c2} -> "channel"
                            [] o \in {p1, p2} -> "page"
                            [] o \in {ra, rb} -> "region"]
Owners == [o \in Rows |-> IF o = tb THEN wb ELSE IF o \in {ra, rb} THEN Shared ELSE wa]
FirstRows == Rows \ {m2, c2, p2}
FirstLinks == {<<m1, ra>>, <<m1, t1>>}
TwoSlugs == {s1, s2}
OneHost == {host}
TwoTails == {tail1, tail2}
Slash == {tail1}
TwoSecrets == {secret1, secret2}
Stored(t, s) == [url |-> [visible |-> host, tail |-> t], secret |-> s]
FirstConfig == [c \in {c1, c2} |-> Stored(tail1, secret1)]

Request(method, id, body) == [method |-> method, id |-> id, body |-> body]
Patch(id, body) == Request("PATCH", id, body)
Delete(id) == Request("DELETE", id, <<>>)
Naming(fields) == "name" :> "n" @@ fields
Configured(stored) == Patch(c1, "config" :> stored)

SomeRequests ==
  {Delete(o) : o \in {m1, g1, t1, c1, p1}} \cup
  {Patch(m1, "regionIds" :> {rb}),
   Patch(m1, "groupId" :> g1 @@ "regionIds" :> {} @@ "tagIds" :> {t1, tb}),
   Patch(m1, Naming("regionIds" :> {ra, rb} @@ "channelIds" :> {c1})),
   Patch(m1, "type" :> "http"),
   Request("POST", m2, Naming("type" :> "http" @@ "target" :> "t" @@ "intervalSeconds" :> 60
                              @@ "groupId" :> g1 @@ "tagIds" :> {} @@ "channelIds" :> {c1})),
   Request("POST", t1, Naming("color" :> "c")),
   Request("POST", c2, Naming("type" :> "webhook" @@ "config" :> Stored(tail2, Absent))),
   Request("POST", p2, "title" :> s2 @@ "monitorIds" :> {m1}),
   Patch(p1, "slug" :> s2 @@ "monitorIds" :> {m1, m2}),
   Configured(redactConfig(FirstConfig[c1])), Configured(Stored(tail2, Absent)),
   Configured(Stored(MASK, secret2))}
=============================================================================
