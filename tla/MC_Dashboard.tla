---------------------------- MODULE MC_Dashboard ----------------------------
(***************************************************************************)
(* A tab in every area of the interface.                                   *)
(***************************************************************************)
EXTENDS Dashboard

EveryArea == DOMAIN Area
SomeFields == {"regions", "hidden"}
=============================================================================
