---------------------------- MODULE MC_LiveEvents ----------------------------
(***************************************************************************)
(* Two clients of two workspaces.  The key of the second is made later, has *)
(* an expiry, and works from the address of the first client only.          *)
(***************************************************************************)
EXTENDS LiveEvents, TLC

CONSTANTS s1, s2, k1, k2, wa, wb, here, there

TwoSockets == {s1, s2}
TwoKeys == {k1, k2}
TwoWorkspaces == {wa, wb}
KeysOf == k1 :> wa @@ k2 :> wb
KeyBodies == k1 :> [expires |-> FALSE, allowedIps |-> {}]
          @@ k2 :> [expires |-> TRUE, allowedIps |-> {{here}}]
FirstKey == {k1}
TwoAddresses == {here, there}
Places == s1 :> here @@ s2 :> there
=============================================================================
