------------------------- MODULE MedallionPipeline -------------------------
(***************************************************************************)
(* The medallion pipeline: scripts/refresh_pipeline.py and the services of *)
(* app/etl/{bronze,silver,gold,simulator}.                                 *)
(*                                                                         *)
(* One orchestrator process repeats a cycle: weather and regional risk of  *)
(* every station, then all bronze telemetry to silver, then gold features  *)
(* of every pump, then a sleep.  Each step is one transaction, readings    *)
(* land at any moment and in any order, and the process can be stopped     *)
(* between two steps or die of an exception that main does not catch.      *)
(*                                                                         *)
(* A reading is identified by its pump and its timestamp (the sources      *)
(* stamp on arrival), a gold row by the timestamps its rolling aggregates  *)
(* were taken over.  Identical gold rows are not told apart.               *)
(***************************************************************************)
EXTENDS Integers, SequencesExt

CONSTANTS
  Pumps, Stations,
  Measurements,   \* what a reading carries, as far as the quality gate looks
  Temperatures,   \* what the weather service reports, perhaps None
  Failures,       \* how a weather request fails: "unreachable", "error"
  None,
  MaxTime,        \* bound: timestamps of the readings of one pump
  Limit           \* rows that one gold computation keeps (100)

ASSUME FiniteFleet == IsFiniteSet(Pumps) /\ IsFiniteSet(Stations)
ASSUME MeasurementsAreRecords == Measurements \subseteq [current : Int, temperature : Int]
ASSUME TemperaturesAreNumbers == Temperatures \subseteq Int \cup {None}
ASSUME FailureKinds == Failures \subseteq {"unreachable", "error"}
ASSUME NoneIsNull == None \notin Measurements \cup Int
ASSUME Bounds == MaxTime \in Nat /\ Limit \in Nat \ {0}

VARIABLES
  landed,         \* landed[p][t]: the bronze reading of pump p at time t, or None
  silver,         \* silver[p][t]: its copies in silver.sensor_reading, up to Cap
  gold,           \* gold[p]: rows of gold.pump_features
  weather,        \* weather[s]: temperatures landed in bronze for station s
  conformed,      \* conformed[s]: temperatures stored in silver for station s
  scored,         \* stations that got a silver risk score in this cycle
  pc,             \* what the orchestrator does next
  todo            \* the stations or pumps that its loop has left

tables == <<landed, silver, gold, weather, conformed, scored>>
vars == <<tables, pc, todo>>

Times == 1 .. MaxTime
Window == 3
\* Bound that loses nothing: more copies change no window and no choice of
\* the newest rows.
Cap == Limit + Window - 1
Stopped == {"interrupted", "failed"}

GoldRow == [time : Times, window : UNION {[1 .. n -> Times] : n \in 1 .. Window}]

Init ==
  /\ landed = [p \in Pumps |-> [t \in Times |-> None]]
  /\ silver = [p \in Pumps |-> [t \in Times |-> 0]]
  /\ gold = [p \in Pumps |-> {}]
  /\ weather = [s \in Stations |-> {}]
  /\ conformed = [s \in Stations |-> {}]
  /\ scored = {}
  /\ pc = "asleep" /\ todo = <<>>

-----------------------------------------------------------------------------
(* Bronze.                                                                 *)

Land(p, t, x) ==
  /\ landed[p][t] = None
  /\ landed' = [landed EXCEPT ![p][t] = x]
  /\ UNCHANGED <<silver, gold, weather, conformed, scored, pc, todo>>

-----------------------------------------------------------------------------
(* The stations: the weather of each, then its regional risk.              *)

BeginCycle ==
  /\ pc = "asleep"
  /\ pc' = "weather" /\ todo' \in SetToSeqs(Stations)
  /\ scored' = {}
  /\ UNCHANGED <<landed, silver, gold, weather, conformed>>

Plausible(temperature) == temperature # None /\ temperature \in -50 .. 60

\* Bronze and silver rows of one answer are one transaction.
WeatherAnswered(temperature) ==
  /\ pc = "weather" /\ todo # <<>>
  /\ weather' = [weather EXCEPT ![Head(todo)] = @ \cup {temperature}]
  /\ conformed' = IF Plausible(temperature)
                  THEN [conformed EXCEPT ![Head(todo)] = @ \cup {temperature}]
                  ELSE conformed
  /\ pc' = "risk"
  /\ UNCHANGED <<landed, silver, gold, scored, todo>>

\* Mutant: a failed request skips the station, its risk included.
SkipsRisk ==
  /\ pc = "weather" /\ todo # <<>>
  /\ "unreachable" \in Failures
  /\ todo' = Tail(todo)
  /\ UNCHANGED <<tables, pc>>

\* Mutant: a failed request abandons the cycle.
AbandonsCycle ==
  /\ pc = "weather" /\ todo # <<>>
  /\ "unreachable" \in Failures
  /\ pc' = "asleep" /\ todo' = <<>>
  /\ UNCHANGED tables

\* A RequestError, the 5 second timeout among them, is printed and passed over.
WeatherUnreachable ==
  /\ pc = "weather" /\ todo # <<>>
  /\ "unreachable" \in Failures
  /\ pc' = "risk"
  /\ UNCHANGED <<tables, todo>>

\* An HTTP error status, a body that is not JSON or float(None) for a station
\* without coordinates ends main.
WeatherRaises ==
  /\ pc = "weather" /\ todo # <<>> /\ "error" \in Failures
  /\ pc' = "failed" /\ todo' = <<>>
  /\ UNCHANGED tables

\* At most 5 incidents and a threat of 0.9 make a score of at most 95: the
\* gate lets every simulated score through.
Risk ==
  /\ pc = "risk"
  /\ scored' = scored \cup {Head(todo)}
  /\ pc' = "weather" /\ todo' = Tail(todo)
  /\ UNCHANGED <<landed, silver, gold, weather, conformed>>

-----------------------------------------------------------------------------
(* Silver: one more copy of every bronze reading that passes the gate.     *)

\* Mutant: the gate lets an idling motor through.
CurrentNotNegative(x) == x # None /\ x.current >= 0 /\ x.temperature \in 0 .. 200

Clean(x) == x # None /\ x.current > 0 /\ x.temperature \in 0 .. 200

Recopied(x, n) == IF Clean(x) /\ n < Cap THEN n + 1 ELSE n

ProcessBronze ==
  /\ pc = "weather" /\ todo = <<>>
  /\ silver' = [p \in Pumps |-> [t \in Times |-> Recopied(landed[p][t], silver[p][t])]]
  /\ pc' = "gold" /\ todo' \in SetToSeqs(Pumps)
  /\ UNCHANGED <<landed, gold, weather, conformed, scored>>

-----------------------------------------------------------------------------
(* Gold.                                                                   *)

\* Copies, readings of one pump with their multiplicity, in time order.
Series(copies) == FlattenSeq([t \in Times |-> [i \in 1 .. copies[t] |-> t]])

\* The current row and up to two before it.
RowAt(series, i) ==
  [time |-> series[i], window |-> SubSeq(series, Max({1, i - Window + 1}), i)]

\* Mutant: the query sorts in ascending order and LIMIT keeps the oldest rows.
Oldest(series) ==
  {N \in kSubset(Min({Limit, Len(series)}), DOMAIN series) :
     \A i \in N, j \in DOMAIN series \ N : series[i] <= series[j]}

\* ORDER BY timestamp DESC LIMIT: rows of one timestamp come in any order.
Newest(series) ==
  {N \in kSubset(Min({Limit, Len(series)}), DOMAIN series) :
     \A i \in N, j \in DOMAIN series \ N : series[i] >= series[j]}

\* Mutant: the rows of a pump are replaced by the new ones.
ReplacesRows ==
  /\ pc = "gold" /\ todo # <<>>
  /\ LET series == Series(silver[Head(todo)]) IN
     \E N \in Newest(series) :
       gold' = [gold EXCEPT ![Head(todo)] = {RowAt(series, i) : i \in N}]
  /\ todo' = Tail(todo)
  /\ UNCHANGED <<landed, silver, weather, conformed, scored, pc>>

ComputeGold ==
  /\ pc = "gold" /\ todo # <<>>
  /\ LET series == Series(silver[Head(todo)]) IN
     \E N \in Newest(series) :
       gold' = [gold EXCEPT ![Head(todo)] = @ \cup {RowAt(series, i) : i \in N}]
  /\ todo' = Tail(todo)
  /\ UNCHANGED <<landed, silver, weather, conformed, scored, pc>>

Sleep ==
  /\ pc = "gold" /\ todo = <<>>
  /\ pc' = "asleep"
  /\ UNCHANGED <<tables, todo>>

-----------------------------------------------------------------------------
(* Ctrl+C or a kill; the step under way is rolled back.                    *)

Interrupt ==
  /\ pc \notin Stopped
  /\ pc' = "interrupted" /\ todo' = <<>>
  /\ UNCHANGED tables

Restart ==
  /\ pc \in Stopped
  /\ pc' = "asleep"
  /\ UNCHANGED <<tables, todo>>

Orchestrator ==
  \/ BeginCycle
  \/ \E temperature \in Temperatures : WeatherAnswered(temperature)
  \/ WeatherUnreachable
  \/ WeatherRaises
  \/ Risk
  \/ ProcessBronze
  \/ ComputeGold
  \/ Sleep

Next ==
  \/ \E p \in Pumps, t \in Times, x \in Measurements : Land(p, t, x)
  \/ Orchestrator
  \/ Interrupt
  \/ Restart

Spec == Init /\ [][Next]_vars
FairSpec == Spec /\ WF_vars(Orchestrator)

-----------------------------------------------------------------------------
(* Properties.                                                             *)

\* Type invariant.
TypeOK ==
  /\ landed \in [Pumps -> [Times -> Measurements \cup {None}]]
  /\ silver \in [Pumps -> [Times -> 0 .. Cap]]
  /\ gold \in [Pumps -> SUBSET GoldRow]
  /\ weather \in [Stations -> SUBSET Temperatures]
  /\ conformed \in [Stations -> SUBSET Temperatures]
  /\ scored \subseteq Stations
  /\ pc \in {"asleep", "weather", "risk", "gold"} \cup Stopped
  /\ todo \in Seq(Stations) \cup Seq(Pumps)

\* The documented gate, README.md "Quality filtered: Amps > 0, Temp <= 200",
\* holds of everything models can see: the reading behind every silver copy and
\* every reading that entered a gold window passed it.
FeaturesAreClean ==
  \A p \in Pumps :
    LET Entered == {t \in Times : silver[p][t] > 0}
                     \cup UNION {Range(row.window) : row \in gold[p]}
    IN \A t \in Entered :
         LET x == landed[p][t] IN
         x # None /\ x.current > 0 /\ x.temperature >= 0 /\ x.temperature <= 200

\* Whatever copies, cycles, late readings and stops there are, a reader of the
\* tables sees silver take over every clean reading at once, and gold keep what
\* it has and grow by the newest readings only.
Store == INSTANCE CuratedStore
           WITH curated <- [p \in Pumps |-> {t \in Times : silver[p][t] > 0}],
                featured <- [p \in Pumps |-> {row.time : row \in gold[p]}]
ImplementsCuratedStore == Store!Spec

\* process_bronze_to_silver and compute_and_store_gold_features: whenever a
\* cycle has ended, the newest readings of every pump have their gold rows,
\* each computed over the silver table as it now is, late arrivals included,
\* whatever earlier cycles left behind and wherever they were interrupted.
GoldIsCurrent ==
  pc = "gold" /\ todo = <<>> =>
    \A p \in Pumps : LET series == Series(silver[p]) IN
      \A i \in DOMAIN series :
        Cardinality({j \in DOMAIN series : series[j] >= series[i]}) <= Limit
          => RowAt(series, i) \in gold[p]

\* A station without weather keeps its regional risk: once a cycle has processed
\* telemetry, it has stored a score for every station, however the weather
\* requests of this and of earlier cycles ended.
OutageKeepsRisk == pc = "gold" => scored = Stations

\* Every clean reading that lands is curated unless the orchestrator stops,
\* even while the weather service is out and however late it landed.
EveryCleanReadingIsCurated ==
  \A p \in Pumps, t \in Times :
    Clean(landed[p][t]) ~> (silver[p][t] > 0 \/ pc \in Stopped)

\* Every clean reading that lands is followed by a gold row at least as new
\* as it is, unless the orchestrator stops.
FeaturesCatchUp ==
  \A p \in Pumps, t \in Times :
    Clean(landed[p][t]) ~> ((\E row \in gold[p] : row.time >= t) \/ pc \in Stopped)

\* README.md describes gold.pump_features as rolling windows of 3 readings: no
\* reading is in a window twice.
WindowsSpanReadings ==
  \A p \in Pumps : \A row \in gold[p] : IsInjective(row.window)

=============================================================================
