----------------------------- MODULE RegionFolds -----------------------------
(***************************************************************************)
(* What the evaluation transactions promise about the regions of one       *)
(* monitor, with no transaction in sight: the results of a region are      *)
(* folded into its health one at a time, each of them into the health the  *)
(* previous one left, and a region starts over only when its assignment    *)
(* is replaced.                                                            *)
(***************************************************************************)
EXTENDS HealthStateMachine

CONSTANTS Regions,   \* the probe regions
          Policies   \* the retry policies in use

VARIABLES present,   \* the regions the monitor is probed from
          health     \* the health of each region; initial when not present

vars == <<present, health>>

Init ==
  /\ present = {}
  /\ health = [r \in Regions |-> initialHealth]

\* One result of one region is folded, under some policy of the monitor.
Fold(r, up, p) ==
  /\ r \in present
  /\ health' = [health EXCEPT ![r] = evaluateHealth(health[r], up, p)]
  /\ UNCHANGED present

\* Assignments are removed and inserted; an inserted one starts from scratch.
Replace(gone, added) ==
  /\ gone \subseteq present
  /\ present' = (present \ gone) \cup added
  /\ health' = [r \in Regions |-> IF r \in gone \/ r \notin present
                                  THEN initialHealth ELSE health[r]]

Next ==
  \/ \E r \in Regions, up \in BOOLEAN, p \in Policies : Fold(r, up, p)
  \/ \E gone, added \in SUBSET Regions : Replace(gone, added)

Spec == Init /\ [][Next]_vars

=============================================================================
