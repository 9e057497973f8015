---------------------------- MODULE MC_CheckQueue ----------------------------
(***************************************************************************)
(* Small instances of CheckQueue.                                          *)
(***************************************************************************)
EXTENDS CheckQueue

CONSTANTS w1, w2

TwoWorkers == {w1, w2}

FirstMalformed == {1}
=============================================================================
