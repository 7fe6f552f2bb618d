---------------------------- MODULE CuratedStore ----------------------------
(***************************************************************************)
(* What the medallion pipeline promises the readers of its tables          *)
(* (app/etl/silver/services.py, process_bronze_to_silver, and              *)
(* app/etl/gold/services.py, compute_and_store_gold_features), wherever    *)
(* its cycles are stopped and whatever order readings land in: silver      *)
(* takes over all clean readings at once and never another one, gold keeps *)
(* what it has and grows by readings that are newer than all it leaves     *)
(* out.  Copies, rolling windows, weather and the loops are not seen here. *)
(***************************************************************************)
EXTENDS Integers

CONSTANTS Pumps, Times, Measurements, None

VARIABLES
  landed,         \* landed[p][t]: the reading of pump p at time t, or None
  curated,        \* curated[p]: times whose readings silver has
  featured        \* featured[p]: times for which gold has rows

Passes(x) == x # None /\ x.current > 0 /\ 0 <= x.temperature /\ x.temperature <= 200

Init ==
  /\ landed = [p \in Pumps |-> [t \in Times |-> None]]
  /\ curated = [p \in Pumps |-> {}]
  /\ featured = [p \in Pumps |-> {}]

Land(p, t, x) ==
  /\ landed[p][t] = None
  /\ landed' = [landed EXCEPT ![p][t] = x]
  /\ UNCHANGED <<curated, featured>>

Curate ==
  /\ curated' = [p \in Pumps |-> {t \in Times : Passes(landed[p][t])}]
  /\ UNCHANGED <<landed, featured>>

\* At least one reading, where there is one, and none that is older than a
\* reading that is left out.
NewestPart(S, N) ==
  /\ N \subseteq S
  /\ S # {} => N # {}
  /\ \A t \in S \ N, u \in N : t < u

Feature(p) ==
  /\ \E N \in SUBSET curated[p] :
       /\ NewestPart(curated[p], N)
       /\ featured' = [featured EXCEPT ![p] = @ \cup N]
  /\ UNCHANGED <<landed, curated>>

Next ==
  \/ \E p \in Pumps, t \in Times, x \in Measurements : Land(p, t, x)
  \/ Curate
  \/ \E p \in Pumps : Feature(p)

Spec == Init /\ [][Next]_<<landed, curated, featured>>
=============================================================================
