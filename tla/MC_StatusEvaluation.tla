------------------------- MODULE MC_StatusEvaluation -------------------------
(***************************************************************************)
(* Small instances of StatusEvaluation.                                    *)
(***************************************************************************)
EXTENDS StatusEvaluation, TLC

CONSTANTS r1, r2, e1, e2, c1, c2

TwoRegions == {r1, r2}
OneEvaluator == {e1}
TwoEvaluators == {e1, e2}
Alike == Permutations({e1, e2})   \* sound: the properties look at single steps
NoClients == {}
OneClient == {c1}
TwoClients == {c1, c2}

Fast == [failureThreshold |-> 1, recoveryThreshold |-> 1]
Slow == [failureThreshold |-> 2, recoveryThreshold |-> 1]
FastOnly == {Fast}
FastAndSlow == {Fast, Slow}

New(p, k, S) == [policy |-> p, quorum |-> k, regions |-> S]
Req(kind, p, k, S) == [kind |-> kind, policy |-> p, quorum |-> k, regions |-> S]

\* Two regions that must both be down; a quorum of 3 is clamped to 2.
BothDown == {New(Fast, 3, {r1, r2})}
\* One region with a slow policy, or two of which one is enough.
AnyDown == {New(Slow, 1, {r1}), New(Fast, 1, {r1, r2})}

Pausing == {Req("pause", Fast, 1, {}), Req("resume", Fast, 1, {})}
Deleting == {Req("delete", Fast, 1, {})}

NoRequests == {}
\* Two clients edit, move and delete at the same time.
Edits == Deleting \cup {Req("policy", Fast, 2, {}), Req("regions", Fast, 1, {r1})}
\* One client pauses, resumes, deletes, or replaces every row at once.
RaceRequests == Pausing \cup Deleting \cup {Req("policyAndRegions", Fast, 1, {r1})}
=============================================================================
