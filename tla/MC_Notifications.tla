-------------------------- MODULE MC_Notifications --------------------------
(***************************************************************************)
(* Small instances of Notifications.                                       *)
(***************************************************************************)
EXTENDS Notifications, TLC

CONSTANTS n1, k1, k2

OneNotifier == {n1}
TwoChannels == {k1, k2}
ConnectorsOf == k1 :> "webhook" @@ k2 :> "smtp"

\* An outage, and a change nobody is alerted to.
OutageAndNoise == {[from |-> "up", to |-> "down"], [from |-> "pending", to |-> "up"]}
=============================================================================
