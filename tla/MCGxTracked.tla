------------------------------ MODULE MCGxTracked ------------------------------
(* GxTracked with three addresses, a table of four and a ring of one.  One   *)
(* address is like another, so of the hash functions that differ only in     *)
(* which address gets which hash, one is enough.                             *)
EXTENDS GxTracked

CONSTANTS a1, a2, a3

MCTrackedInit == TrackedInit /\ hash[a1] <= hash[a2] /\ hash[a2] <= hash[a3]
MCTrackedSpec == /\ MCTrackedInit /\ [][TrackedNext]_trackedVars
                 /\ WF_trackedVars(EraseLoop)
=============================================================================
