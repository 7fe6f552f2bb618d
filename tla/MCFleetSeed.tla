---------------------------- MODULE MCFleetSeed ----------------------------
(* A small instance of FleetSeed for TLC.                                  *)
EXTENDS FleetSeed

CONSTANTS k1, d1, a1

MCJobOf == [r \in Runs |-> IF r = k1 THEN "kpc" ELSE IF r = d1 THEN "demo" ELSE "admin"]
=============================================================================
