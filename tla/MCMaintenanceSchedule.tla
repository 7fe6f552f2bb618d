----------------------- MODULE MCMaintenanceSchedule -----------------------
(* A small instance of MaintenanceSchedule for TLC.                        *)
EXTENDS MaintenanceSchedule, TLC

CONSTANTS p1, p2, s1, s2

MCOrderPump == (1 :> p1)
MCPatches == {"status" :> "cancelled"}
Symmetry == Permutations(Sessions)
=============================================================================
