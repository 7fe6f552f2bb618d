--------------------------- MODULE FeatureVectors ---------------------------
(***************************************************************************)
(* feature_engineering.build_feature_batch, the vectors of many pumps for  *)
(* a scheduled scoring run, beside the writers of the tables it reads.     *)
(*                                                                         *)
(* The batch asks once for the newest window of every pump, drops the      *)
(* windows older than MAX_WINDOW_AGE, asks once for the pumps, the weather *)
(* and the risk of their stations, and then tries build_feature_vector for *)
(* every pump that is still missing.  Each query sees what is committed    *)
(* then.  Nothing in the repository writes windows, weather rollups or     *)
(* risk composites: their writers are taken from how the code reads them.  *)
(***************************************************************************)
EXTENDS Scores, FiniteSets

CONSTANTS
  Fleet,                \* the pumps of all tenants
  Own,                  \* the pumps of the tenant that asks
  Stations,
  StationOf,            \* StationOf[p]: the station of pump p
  Vibrations,           \* means that windows may hold
  Averages              \* means that legacy gold rows may hold

ASSUME Ownership == Own \subseteq Fleet
ASSUME StationMap == StationOf \in [Fleet -> Stations]
ASSUME Levels == Vibrations \cup Averages \subseteq Nat

VARIABLES
  newest,               \* newest[p]: the newest window, or None
  legacy,               \* legacy[p]: the newest legacy row, or None
  weather,              \* stations with a weather rollup
  risk,                 \* stations with a risk composite
  batch,                \* the scoring run under way
  touched               \* history: pumps with rows that changed since it began

batchVars == <<newest, legacy, weather, risk, batch, touched>>

NoBatch == [pc |-> "idle"]

BatchInit ==
  /\ newest = [p \in Fleet |-> None]
  /\ legacy = [p \in Fleet |-> None]
  /\ weather = {} /\ risk = {}
  /\ batch = NoBatch /\ touched = {}

\* What one pump's vector is made from.  Rows of other tenants are not seen;
\* index and interventions do not differ between the two ways.
Source(p) ==
  [window |-> IF p \in Own THEN newest[p] ELSE None,
   gold |-> IF p \in Own THEN legacy[p] ELSE None,
   hdi |-> None, count |-> 0, own |-> p \in Own,
   weather |-> StationOf[p] \in weather, risk |-> StationOf[p] \in risk]

-----------------------------------------------------------------------------
(* The batch.                                                              *)

\* _latest_per_group over the windows, and _is_stale with one clock reading.
ReadWindows(asked) ==
  /\ batch.pc \in {"idle", "done"}
  /\ batch' = [pc |-> "weather", asked |-> asked,
               valid |-> {p \in asked \cap Own : newest[p] # None /\ newest[p].fresh},
               window |-> newest]
  /\ touched' = {}
  /\ UNCHANGED <<newest, legacy, weather, risk>>

\* Mutant: the stations are those of the pumps without a valid window.
StationsLeftOut == {StationOf[p] : p \in (batch.asked \cap Own) \ batch.valid}

\* The stations of the valid windows or, where there is none, of all pumps.
StationIds ==
  IF batch.valid # {} THEN {StationOf[p] : p \in batch.valid}
  ELSE {StationOf[p] : p \in batch.asked \cap Own}

ReadWeather ==
  /\ batch.pc = "weather"
  /\ batch' = [pc |-> "risk", asked |-> batch.asked, valid |-> batch.valid,
               window |-> batch.window, weather |-> weather \cap StationIds]
  /\ UNCHANGED <<newest, legacy, weather, risk, touched>>

\* The risk composites, and with them the vectors of the valid windows.
ReadRisk ==
  LET vector(p) == WindowVector(batch.window[p], StationOf[p] \in batch.weather,
                                StationOf[p] \in risk \cap StationIds, 0)
  IN /\ batch.pc = "risk"
     /\ batch' = [pc |-> "rest", asked |-> batch.asked,
                  left |-> batch.asked \ batch.valid,
                  out |-> [p \in batch.valid |-> vector(p)]]
     /\ UNCHANGED <<newest, legacy, weather, risk, touched>>

\* One pump that is still missing: an error leaves it out.
TryOne(p) ==
  LET v == BuildVector(Source(p), TRUE)
      out == batch.out
  IN /\ batch.pc = "rest" /\ p \in batch.left
     /\ batch' = [batch EXCEPT !.left = @ \ {p},
                    !.out = IF IsVector(v)
                            THEN [q \in DOMAIN out \cup {p} |-> IF q = p THEN v ELSE out[q]]
                            ELSE out]
     /\ UNCHANGED <<newest, legacy, weather, risk, touched>>

ReturnBatch ==
  /\ batch.pc = "rest" /\ batch.left = {}
  /\ batch' = [pc |-> "done", asked |-> batch.asked, out |-> batch.out]
  /\ UNCHANGED <<newest, legacy, weather, risk, touched>>

-----------------------------------------------------------------------------
(* The writers, and the clock, for the rows that the tenant can see.       *)

StoreWindow(p, vib) ==
  /\ newest' = [newest EXCEPT ![p] = [vib |-> vib, fresh |-> TRUE]]
  /\ touched' = touched \cup {p}
  /\ UNCHANGED <<legacy, weather, risk, batch>>

\* An hour passes over the newest window.
WindowExpires(p) ==
  /\ newest[p] # None /\ newest[p].fresh
  /\ newest' = [newest EXCEPT ![p].fresh = FALSE]
  /\ touched' = touched \cup {p}
  /\ UNCHANGED <<legacy, weather, risk, batch>>

StoreLegacy(p, vib) ==
  /\ legacy' = [legacy EXCEPT ![p] = [vib |-> vib]]
  /\ touched' = touched \cup {p}
  /\ UNCHANGED <<newest, weather, risk, batch>>

StationData(st) ==
  /\ \/ st \notin weather /\ weather' = weather \cup {st} /\ UNCHANGED risk
     \/ st \notin risk /\ risk' = risk \cup {st} /\ UNCHANGED weather
  /\ touched' = touched \cup {p \in Own : StationOf[p] = st}
  /\ UNCHANGED <<newest, legacy, batch>>

BatchNext ==
  \/ \E asked \in SUBSET Fleet \ {{}} : ReadWindows(asked)
  \/ ReadWeather \/ ReadRisk \/ ReturnBatch
  \/ \E p \in Fleet : TryOne(p)
  \/ \E p \in Own : WindowExpires(p)
  \/ \E p \in Own, vib \in Vibrations : StoreWindow(p, vib)
  \/ \E p \in Own, vib \in Averages : StoreLegacy(p, vib)
  \/ \E st \in Stations : StationData(st)

BatchSpec == BatchInit /\ [][BatchNext]_batchVars

-----------------------------------------------------------------------------
(* Properties.                                                             *)

\* For a pump whose rows and station nobody changed meanwhile, the few queries
\* of the batch give the vector that a request of its own would get, or none, and
\* a pump with a window gets one exactly when that window is fresh, whatever
\* other pumps are asked for, lack or gain while the batch reads.
BatchAgreesWithSingle ==
  batch.pc = "done" =>
    \A p \in batch.asked \ touched :
      LET v == BuildVector(Source(p), TRUE) IN
      /\ p \in DOMAIN batch.out => IsVector(v) /\ batch.out[p] = v
      /\ p \in Own /\ newest[p] # None => (p \in DOMAIN batch.out <=> newest[p].fresh)

\* What the module's header and the docstring of build_feature_batch say: a pump
\* without a window is left out of the result.
MissingWindowsAreOmitted ==
  batch.pc = "done" =>
    \A p \in batch.asked \ touched : newest[p] = None => p \notin DOMAIN batch.out
=============================================================================
