----------------------------- MODULE MC_Sessions -----------------------------
(***************************************************************************)
(* A browser with two tabs and a second browser, on a clean install or     *)
(* signed in to one account.                                               *)
(***************************************************************************)
EXTENDS Sessions, TLC

CONSTANTS u1, u2, b1, b2, t1, t2, t3, c1, c2, c3

OneUser     == {u1}
TwoBrowsers == {b1, b2}
ThreeTabs   == {t1, t2, t3}
ThreeCalls  == {c1, c2, c3}
TabsOf      == t1 :> b1 @@ t2 :> b1 @@ t3 :> b2
CallsOf     == c1 :> t1 @@ c2 :> t2 @@ c3 :> t3
CleanOrNot  == {<<>>, <<[user |-> u1, browser |-> b1], [user |-> u1, browser |-> b2]>>}
\* The two tabs of the first browser are alike.
SameTabs == {t1 :> t1, t1 :> t2 @@ t2 :> t1 @@ c1 :> c2 @@ c2 :> c1}
=============================================================================
