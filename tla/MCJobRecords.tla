---------------------------- MODULE MCJobRecords ----------------------------
(* Instance of JobRecords for TLC: two calls whose LogManagers keep one and two lines. *)
EXTENDS JobRecords, TLC

CONSTANTS c1, c2

OneAndTwo == (c1 :> 1) @@ (c2 :> 2)
=============================================================================
