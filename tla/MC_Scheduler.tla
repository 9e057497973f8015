---------------------------- MODULE MC_Scheduler ----------------------------
(***************************************************************************)
(* Small instances of Scheduler.                                           *)
(***************************************************************************)
EXTENDS Scheduler

CONSTANTS a1, a2, a3, s1, s2

Three == {a1, a2, a3}
\* Two of the assignments are in the same region.
TwoRegions == [a \in Three |-> IF a = a3 THEN 2 ELSE 1]
TwoSchedulers == {s1, s2}
=============================================================================
