------------------------------ MODULE MC_Probes ------------------------------
(***************************************************************************)
(* Every kind of probe, and assertions of every source and operator nested *)
(* in each other.                                                          *)
(***************************************************************************)
EXTENDS Probes, FiniteSetsExt, TLC

MCPolicies == [failureThreshold: 0..2, recoveryThreshold: 1..2]

N(number) == [there |-> TRUE, number |-> number, text |-> ToString(number)]
T(text) == [there |-> TRUE, number |-> NaN, text |-> text]
Null == [there |-> FALSE, number |-> 0, text |-> "null"]

Bodies == {"ok", "busy"}
Expressions == {"o.", "o+"}
SomeTexts == Bodies \cup Expressions \cup {"(", "undefined", "null"} \cup {ToString(n) : n \in 0..999}
SomeIncludes == {<<t, t>> : t \in Bodies} \cup {<<"undefined", "undefined">>}
SomeMatches == Expressions \X {"ok"}

SomePaths == {"state"}
At(path, value) == path :> value
SomeResponses ==
  [status: {N(200), N(500)}, responseMs: {N(90), N(900)}, headers: {At("state", Undefined)},
   body: {T("ok"), T("busy")},
   json: {NotJson} \cup {None :> T("busy") @@ At("state", v) : v \in {N(1), Null}}]

R(source, op, value) ==
  [logic |-> "rule", source |-> source, op |-> op, value |-> value,
   path |-> IF source \in {"header", "json"} THEN "state" ELSE None]
Both(rules) == [logic |-> "and", rules |-> rules]
Either(rules) == [logic |-> "or", rules |-> rules]

\* The body of the first one is needed by an inner group only.
Inner == Both({R("status", "lte", N(299)), R("body", "contains", T("ok")), R("json", "gte", N(1))})
Nested == Either({R("header", "exists", Undefined), Inner})
Quick == Both({R("response_time", "lt", N(500)), R("header", "not_exists", Undefined),
               R("header", "eq", T("undefined"))})
Odd == Either({R("body", "regex", T("(")), R("status", "gt", N(499)), R("header", "contains", T("ok"))})
Search == Either({R("body", "regex", T("o+")), R("json", "eq", T("null"))})
Strange == Both({R("body", "not_contains", T("null")), R("header", "ne", N(0)), Either({Odd, Search})})
Within == {Nested, Inner, Quick, Strange, Either({Odd, Search}), Odd, Search}
SomeTrees == Within \cup UNION {tree.rules : tree \in Within}
SomeDepth[tree \in SomeTrees] ==
  IF tree.logic = "rule" THEN 0 ELSE 1 + Max({SomeDepth[rule] : rule \in tree.rules})

Http(keyword, assertions, sslDays, valid) ==
  [type |-> "http", valid |-> valid, ranges |-> {<<200, 399>>}, keyword |-> keyword,
   assertions |-> assertions, sslDays |-> sslDays, https |-> TRUE]

SomeJobs ==
  {Http(None, None, None, FALSE), Http(None, None, 7, TRUE), Http("ok", None, None, TRUE),
   Http(None, Nested, None, TRUE), Http(None, Quick, None, TRUE), Http(None, Strange, None, TRUE)}
  \cup [type: {"tcp", "icmp"}, valid: BOOLEAN]
SomeDays == {7, 8}
=============================================================================
