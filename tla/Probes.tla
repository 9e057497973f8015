------------------------------- MODULE Probes -------------------------------
(***************************************************************************)
(* The checks of one region: each runs the probe of its job against a      *)
(* target that answers, breaks or stays silent, while the probe's timers   *)
(* run, and folds the outcome into the region's health                     *)
(* (JobProcessor.process).  A value of JavaScript is what assertions can   *)
(* tell of it: whether it is there (not undefined, not null), what Number  *)
(* makes of it and what String makes of it; a text is known by the texts   *)
(* it includes and the regular expressions it matches.                     *)
(***************************************************************************)
EXTENDS HealthHistory, Integers, FiniteSets

CONSTANTS
  Jobs,        \* the jobs tried
  Responses,   \* what a target answers over HTTP
  Texts,       \* texts
  Includes,    \* the pairs of them of which the second includes the first
  Patterns,    \* the texts that are regular expressions
  Matches,     \* the pairs of one and a text that it matches
  Paths,       \* names of headers and JSON paths
  Trees,       \* the assertions of the jobs, with the groups and rules within them
  Nesting,     \* how deep groups are nested
  Depth,       \* how deep each of the trees is
  NaN,         \* what Number makes of a text that is no number
  NotJson,     \* what JSON.parse makes of a body that is no JSON: an error
  None,        \* an option that is not set
  DaysLeft     \* what a certificate may have left

Value == [there: BOOLEAN, number: Int \cup {NaN}, text: Texts]
Undefined == [there |-> FALSE, number |-> NaN, text |-> "undefined"]

\* status, responseMs once all that is needed was read, headers, the body as a text and
\* what is found in it at each JSON path.
Response == [status: [there: {TRUE}, number: Nat, text: Texts], responseMs: Value,
             headers: [Paths -> Value], body: Value,
             json: [Paths \cup {None} -> Value] \cup {NotJson}]

ASSERTION_SOURCES == {"status", "response_time", "body", "header", "json"}
ASSERTION_OPERATORS == {"eq", "ne", "gt", "gte", "lt", "lte", "contains", "not_contains",
                        "regex", "exists", "not_exists"}

ASSUME ProbesAssumption ==
  /\ Responses \subseteq Response
  /\ \A j \in Jobs :
       /\ j.type \in {"http", "tcp", "icmp"} /\ j.valid \in BOOLEAN
       /\ j.type = "http" /\ j.valid =>
            /\ j.ranges \subseteq Nat \X Nat
            /\ j.assertions \in Trees \cup {None} /\ j.sslDays \in Nat \cup {None}
  /\ \A tree \in Trees :
       \/ /\ tree.logic = "rule" /\ tree.source \in ASSERTION_SOURCES
          /\ tree.op \in ASSERTION_OPERATORS
          /\ tree.path \in Paths \cup {None} /\ tree.value \in Value
       \/ tree.logic \in {"and", "or"}
  /\ Nesting \in Nat /\ Depth \in [Trees -> 0..Nesting]
  /\ \A tree \in Trees :
       tree.logic # "rule" => \A rule \in tree.rules : rule \in Trees /\ Depth[rule] < Depth[tree]
  /\ "undefined" \in Texts /\ Includes \subseteq Texts \X Texts
  /\ Patterns \subseteq Texts /\ Matches \subseteq Patterns \X Texts
  /\ DaysLeft \subseteq Nat
  /\ NaN \notin Int /\ None # NotJson /\ None \notin Nat \cup Paths
  /\ None \notin Responses /\ None \notin {"http_status", "protocol"}

VARIABLES
  job,      \* the job being worked on
  phase,    \* what its probe waits for
  answer,   \* what the target has answered
  days,     \* what the certificate has left, if it was seen
  outcome   \* the outcome of the probe

probe == <<job, phase, answer, days, outcome>>

-----------------------------------------------------------------------------
(* Assertions.                                                             *)

Sources[tree \in Trees] ==
  IF tree.logic = "rule" THEN {tree.source} ELSE UNION {Sources[rule] : rule \in tree.rules}

\* Mutation: groups within groups are not looked into.
NeedBodyOfRules(tree) ==
  \E rule \in tree.rules : rule.logic = "rule" /\ rule.source \in {"body", "json"}

assertionsNeedBody(tree) == Sources[tree] \cap {"body", "json"} # {}

assertionsNeedJson(tree) == "json" \in Sources[tree]

\* A body that was not read is undefined, and so is what it says at a JSON path.
actualValue(rule, response, read) ==
  CASE rule.source = "status"        -> response.status
    [] rule.source = "response_time" -> response.responseMs
    [] rule.source = "header" -> IF rule.path = None THEN Undefined ELSE response.headers[rule.path]
    [] rule.source = "body"   -> IF read THEN response.body ELSE Undefined
    [] rule.source = "json"   -> IF read THEN response.json[rule.path] ELSE Undefined

\* Two numbers are compared as such, anything else as text.
looseEquals(a, b) ==
  IF a.number # NaN /\ b.number # NaN THEN a.number = b.number ELSE a.text = b.text

\* A comparison with NaN is false.
Ordered(a, b) == a.number # NaN /\ b.number # NaN

\* A text that is no regular expression matches nothing.
applyOperator(op, actual, expected) ==
  CASE op = "exists"       -> actual.there
    [] op = "not_exists"   -> ~actual.there
    [] op = "eq"           -> looseEquals(actual, expected)
    [] op = "ne"           -> ~looseEquals(actual, expected)
    [] op = "gt"           -> Ordered(actual, expected) /\ actual.number > expected.number
    [] op = "gte"          -> Ordered(actual, expected) /\ actual.number >= expected.number
    [] op = "lt"           -> Ordered(actual, expected) /\ actual.number < expected.number
    [] op = "lte"          -> Ordered(actual, expected) /\ actual.number <= expected.number
    [] op = "contains"     -> <<expected.text, actual.text>> \in Includes
    [] op = "not_contains" -> <<expected.text, actual.text>> \notin Includes
    [] op = "regex"        -> expected.text \in Patterns /\ <<expected.text, actual.text>> \in Matches

evaluateAssertions(assertions, response, read) ==
  LET holds[tree \in Trees] ==
        IF tree.logic = "rule"
        THEN applyOperator(tree.op, actualValue(tree, response, read), tree.value)
        ELSE IF tree.logic = "and" THEN \A rule \in tree.rules : holds[rule]
        ELSE \E rule \in tree.rules : holds[rule]
  IN holds[assertions]

-----------------------------------------------------------------------------
(* Outcomes.                                                               *)

Up == [up |-> TRUE, kind |-> None]
Down(kind) == [up |-> FALSE, kind |-> kind]

TlsCodes == {"CERT_HAS_EXPIRED", "DEPTH_ZERO_SELF_SIGNED_CERT"}
Codes == TlsCodes \cup {"ENOTFOUND", "ECONNREFUSED", "EHOSTUNREACH", "ETIMEDOUT", "EPIPE"}

\* An error without a known code of its own, or in its causes, is unknown.
classifyNetworkError(code) ==
  CASE code = "AbortError" -> "timeout"
    [] code \in TlsCodes -> "tls"
    [] code = "ENOTFOUND" -> "dns"
    [] code \in {"ECONNREFUSED", "EHOSTUNREACH"} -> "connection"
    [] code = "ETIMEDOUT" -> "timeout"
    [] OTHER -> "unknown"

\* The ranges are inclusive.
statusAccepted(status, ranges) == \E range \in ranges : range[1] <= status /\ status <= range[2]

needsBody(j) == j.keyword # None \/ (j.assertions # None /\ assertionsNeedBody(j.assertions))

\* The first complaint about a response, in the order of the code.
Complaint(j, response, read) ==
  IF ~statusAccepted(response.status.number, j.ranges) THEN "http_status"
  ELSE IF j.keyword # None /\ ~(read /\ <<j.keyword, response.body.text>> \in Includes) THEN "protocol"
  ELSE IF j.assertions = None THEN None
  ELSE IF assertionsNeedJson(j.assertions) /\ ~(read /\ response.json # NotJson) THEN "protocol"
  ELSE IF ~evaluateAssertions(j.assertions, response, read) THEN "protocol"
  ELSE None

-----------------------------------------------------------------------------
(* The probe.                                                              *)

Settle(result) == phase' = "settled" /\ outcome' = result

\* The registry picks the executor, which validates the stored config.
Begin(j) ==
  /\ phase = "idle" /\ Len(history) < MaxHistory
  /\ job' = j
  /\ IF j.valid \/ j.type = "icmp"
     THEN phase' = (CASE j.type = "http" -> "fetch" [] j.type = "tcp" -> "connect"
                      [] j.type = "icmp" -> "ping") /\ outcome' = Up
     ELSE Settle(Down("protocol"))
  /\ answer' = None /\ days' = None
  /\ UNCHANGED historyVars

\* Once fetch, and text() where the body is needed, are through.
Judge(response, read) ==
  LET complaint == Complaint(job, response, read) IN
  IF complaint # None THEN Settle(Down(complaint))
  ELSE IF job.sslDays # None /\ job.https THEN phase' = "certificate" /\ UNCHANGED outcome
  ELSE Settle(Up)

\* fetch resolves with the headers.
HeadersArrive(response) ==
  /\ phase = "fetch"
  /\ answer' = response
  /\ IF needsBody(job) THEN phase' = "body" /\ UNCHANGED outcome ELSE Judge(response, FALSE)
  /\ UNCHANGED <<job, days, historyVars>>

BodyArrives ==
  /\ phase = "body"
  /\ Judge(answer, TRUE)
  /\ UNCHANGED <<job, answer, days, historyVars>>

\* The first of connect, error and timeout of a TCP socket wins.
Connected ==
  /\ phase = "connect"
  /\ Settle(Up)
  /\ UNCHANGED <<job, answer, days, historyVars>>

ConnectionBreaks(code) ==
  /\ phase \in {"fetch", "body", "connect"}
  /\ Settle(Down(classifyNetworkError(code)))
  /\ UNCHANGED <<job, answer, days, historyVars>>

\* Mutation: the timer of fetch does not cover the body.
TimesHeaders == {"fetch", "connect"}

\* What a timer of timeoutMs ends: the fetch, its body, the TCP connection.
Timed == {"fetch", "body", "connect"}

Timeout ==
  /\ phase \in Timed
  /\ Settle(Down(classifyNetworkError("AbortError")))
  /\ UNCHANGED <<job, answer, days, historyVars>>

\* The certificate guard, on a connection and with a timeout of its own; a handshake
\* that fails or takes too long says nothing.
Expires(left) == left <= job.sslDays

CertificateSeen(left) ==
  /\ phase = "certificate"
  /\ days' = left
  /\ Settle(IF Expires(left) THEN Down("tls") ELSE Up)
  /\ UNCHANGED <<job, answer, historyVars>>

CertificateUnseen ==
  /\ phase = "certificate"
  /\ Settle(Up)
  /\ UNCHANGED <<job, answer, days, historyVars>>

\* ping exits: with a reply, or without one, which it waits for in whole seconds.
PingReplies ==
  /\ phase = "ping"
  /\ answer' = 0
  /\ Settle(Up)
  /\ UNCHANGED <<job, days, historyVars>>

PingFails ==
  /\ phase = "ping"
  /\ Settle(Down("connection"))
  /\ UNCHANGED <<job, answer, days, historyVars>>

\* execFile kills a ping that does not come back.
PingKilled ==
  /\ phase = "ping"
  /\ Settle(Down("timeout"))
  /\ UNCHANGED <<job, answer, days, historyVars>>

\* The outcome is folded into the region's health.
Fold ==
  /\ phase = "settled"
  /\ Check(outcome.up)
  /\ phase' = "idle" /\ answer' = None /\ days' = None /\ outcome' = Up
  /\ UNCHANGED job

ProbeInit ==
  /\ HistoryInit
  /\ job \in Jobs /\ phase = "idle" /\ answer = None /\ days = None /\ outcome = Up

\* What the probe's own timers do: the others wait for the target.
Timers == Timeout \/ CertificateUnseen \/ PingKilled

ProbeNext ==
  \/ \E j \in Jobs : Begin(j)
  \/ \E response \in Responses : HeadersArrive(response)
  \/ BodyArrives
  \/ Connected
  \/ \E code \in Codes : ConnectionBreaks(code)
  \/ Timers
  \/ \E left \in DaysLeft : CertificateSeen(left)
  \/ PingReplies
  \/ PingFails
  \/ Fold

ProbeSpec == ProbeInit /\ [][ProbeNext]_<<probe, historyVars>>

\* Timers fire; a target may stay silent for ever.
FairProbeSpec ==
  ProbeSpec /\ WF_<<probe, historyVars>>(Timers) /\ WF_<<probe, historyVars>>(Fold)

-----------------------------------------------------------------------------
(* Properties.                                                             *)

\* The sets of rules any of which makes a tree hold.
Ways[tree \in Trees] ==
  IF tree.logic = "rule" THEN {{tree}}
  ELSE LET all == UNION {Ways[rule] : rule \in tree.rules}
           picks == {f \in [tree.rules -> all] : \A rule \in tree.rules : f[rule] \in Ways[rule]}
       IN IF tree.logic = "and" THEN {UNION {f[rule] : rule \in tree.rules} : f \in picks} ELSE all

\* What a response says, by source and path, all of it known.
Said(r) ==
  [status |-> [path \in Paths \cup {None} |-> r.status],
   response_time |-> [path \in Paths \cup {None} |-> r.responseMs],
   header |-> [path \in Paths \cup {None} |-> IF path \in Paths THEN r.headers[path] ELSE Undefined],
   body |-> [path \in Paths \cup {None} |-> r.body],
   json |-> r.json]

\* How two values compare, and which outcomes of it an operator accepts.
Comparison(a, b) ==
  IF NaN \in {a.number, b.number} THEN (IF a.text = b.text THEN "alike" ELSE "unlike")
  ELSE IF a.number = b.number THEN "equal"
  ELSE IF a.number < b.number THEN "less" ELSE "more"

Accepted == [eq |-> {"equal", "alike"}, ne |-> {"less", "more", "unlike"},
             lt |-> {"less"}, lte |-> {"less", "equal"}, gt |-> {"more"}, gte |-> {"more", "equal"}]

\* What a rule demands of a value.
Demands(rule, value) ==
  \/ rule.op \in DOMAIN Accepted /\ Comparison(value, rule.value) \in Accepted[rule.op]
  \/ rule.op = "exists" /\ value.there
  \/ rule.op = "not_exists" /\ ~value.there
  \/ rule.op = "contains" /\ \E pair \in Includes : pair = <<rule.value.text, value.text>>
  \/ rule.op = "not_contains" /\ ~\E pair \in Includes : pair = <<rule.value.text, value.text>>
  \/ rule.op = "regex" /\ \E pair \in Matches : pair = <<rule.value.text, value.text>>

\* What a monitored response must be.
Acceptable(j, r) ==
  /\ \E range \in j.ranges : r.status.number \in range[1]..range[2]
  /\ j.keyword # None => <<j.keyword, r.body.text>> \in Includes
  /\ j.assertions # None =>
       /\ "json" \in Sources[j.assertions] => r.json # NotJson
       /\ \E way \in Ways[j.assertions] : \A rule \in way : Demands(rule, Said(r)[rule.source][rule.path])

\* An HTTP check is up exactly when the target gave an acceptable response in time and
\* no certificate that runs out was seen, whatever was read of the response, in whatever
\* order it was judged; a late or broken one is never up.
VerdictMatchesAnswer ==
  phase = "settled" /\ job.type = "http" /\ job.valid =>
    /\ outcome.up => answer # None /\ Acceptable(job, answer)
    /\ answer # None /\ Acceptable(job, answer) /\ ~outcome.up =>
         \/ outcome.kind \in {classifyNetworkError(code) : code \in Codes} /\ needsBody(job)
         \/ outcome.kind = "tls" /\ job.https /\ days <= job.sslDays
    /\ outcome.up /\ days # None => days > job.sslDays

\* However silent the target, a check comes to an end and is counted: a probe that hangs
\* would keep a place of the worker's concurrency for ever.
ProbesEnd == phase # "idle" ~> phase = "idle"
=============================================================================
