------------------------------- MODULE Scores -------------------------------
(***************************************************************************)
(* The formulas of the scoring chain: Health Deviation Index               *)
(* (flowgard_engine), 7-day risk and failure class (prediction), remaining *)
(* useful life (rul), attribution (explainability), the feature vector     *)
(* they start from (feature_engineering) and the alert rules.              *)
(*                                                                         *)
(* Numbers are scaled to integers: vibration in tenths of mm/s,            *)
(* temperature in whole degrees, pressure and rated pressure in one unit   *)
(* (the code compares gold's psi with the pump's kPa), the index and the   *)
(* shares in thousandths, risk and SHAP values in ten-thousandths, lives   *)
(* in hundredths of a day.  Every weight is exact at this scale, so each   *)
(* score is rounded once, as in the code; at an exact half the code's      *)
(* binary fractions round either way and these formulas round up.          *)
(***************************************************************************)
EXTENDS Integers

CONSTANT None           \* no row, no value

Lower(a, b) == IF a <= b THEN a ELSE b
Higher(a, b) == IF a <= b THEN b ELSE a
Clamp(low, x, high) == Higher(low, Lower(x, high))

\* n / d to the nearest integer, for d > 0.
Rounded(n, d) == (2 * n + d) \div (2 * d)

Indices == 0 .. 1000            \* stored indices, and shares
Quotes == 1 .. 1000             \* indices as predictions and explanations use them
Probabilities == 0 .. 10000
Lives == 100 .. 36500           \* a day to a year

\* A gold row as the chain reads it.
Readings == [vib : Nat, temp : Int, pressure : Int]

\* What stands in for a missing gold row: 1.5 mm/s and 45 degrees.
BaselineVib == 15
BaselineTemp == 45

-----------------------------------------------------------------------------
(* flowgard_engine.compute_health_deviation.                               *)

\* 0.6 of |actual - rated| over rated, the quotient capped at 1.
PressurePart(residual, rated) ==
  Rounded(600 * Lower(residual, Higher(1, rated)), Higher(1, rated))

Distance(a, b) == IF a <= b THEN b - a ELSE a - b

Deviation(reading, rated) ==
  PressurePart(Distance(reading.pressure, rated), rated) + 4 * Lower(100, reading.vib)

\* Without a gold row the pressure is taken to be 95 % of the rated one.
BaselineDeviation(rated) ==
  Rounded(30 * Lower(Distance(0, rated), 20 * Higher(1, rated)), Higher(1, rated))
    + 4 * BaselineVib

\* `if record.health_deviation_index else 0.1`: prediction and explanation
\* take an index of 0 for a missing one.
Quoted(hdi) == IF hdi = 0 THEN 100 ELSE hdi

-----------------------------------------------------------------------------
(* prediction.run_prediction.                                              *)

TempRisk(temp) == Clamp(0, temp - 40, 40)        \* of 40

\* 0.45 index + 0.35 vibration / 8 + 0.10 heat / 40 + 0.10 age, times 40000.
Weighted(hdi, vib, temp, count) ==
  18 * hdi + 175 * Lower(80, vib) + 100 * TempRisk(temp) + 4 * Lower(1000, 150 * count)

Risk(hdi, vib, temp, count) == Clamp(0, Rounded(Weighted(hdi, vib, temp, count), 4), 10000)

FailureClass(risk, hdi, vib, temp) ==
  LET v == Lower(80, vib) IN
  IF risk < 3500 THEN "normal"
  ELSE IF 25 * v >= 2 * hdi /\ v >= 2 * TempRisk(temp) THEN "bearing_fault"
  ELSE IF 2 * hdi >= 25 * v THEN "impeller_wear"
  ELSE "seal_leak"

Classes == {"normal", "bearing_fault", "impeller_wear", "seal_leak"}

-----------------------------------------------------------------------------
(* rul.run_rul_estimate.                                                   *)

\* 0.5 index + 0.3 vibration / 8 + 0.03 interventions, times 20000.
Degradation(hdi, vib, count) == Clamp(0, 10 * hdi + 75 * vib + 600 * count, 20000)

DaysLeft(degradation) == Rounded(73 * (20000 - degradation), 40)

\* Mutant: no floor of one day.
BareLife(hdi, vib, count) == DaysLeft(Degradation(hdi, vib, count))

\* At least one day of 365.
Life(hdi, vib, count) == Higher(100, DaysLeft(Degradation(hdi, vib, count)))

LifeBounds(life) == [lower |-> Rounded(88 * life, 100), upper |-> Rounded(112 * life, 100)]

-----------------------------------------------------------------------------
(* explainability.compute_feature_attribution.                             *)

\* The motor's term is constant: gold has neither of the columns it asks for.
Shap(hdi, vib, temp) ==
  [vibration |-> Lower(5000, 50 * vib),
   pressure  |-> Lower(5000, Rounded(35 * hdi, 10)),
   heat      |-> Lower(3000, Higher(0, 30 * (temp - 40))),
   motor     |-> 350]

Components(shap) ==
  [bearing  |-> Rounded(8 * shap.vibration, 100) + 100,
   impeller |-> Rounded(8 * shap.pressure, 100) + 100,
   seal     |-> Rounded(8 * shap.heat, 100) + 50,
   motor    |-> Rounded(8 * shap.motor, 100) + 50]

Total(raw) == raw.bearing + raw.impeller + raw.seal + raw.motor

Shares(raw) == [c \in DOMAIN raw |-> Rounded(1000 * raw[c], Total(raw))]

\* max() over the dictionary: the first of the largest.
TopComponent(share) ==
  LET largest(c) == \A d \in DOMAIN share : share[d] <= share[c] IN
  IF largest("bearing") THEN "bearing"
  ELSE IF largest("impeller") THEN "impeller"
  ELSE IF largest("seal") THEN "seal"
  ELSE "motor"

-----------------------------------------------------------------------------
(* feature_engineering: the entries of the vector that scores are made of. *)

\* _assemble: a NULL mean counts as 0 (the window's vib is then 0), and the
\* index is its default argument 0.1, because no caller passes one.
WindowVector(win, weather, risk, count) ==
  [vib |-> win.vib, hdi |-> 100, count |-> count, weather |-> weather, risk |-> risk]

\* The legacy row: a mean of 0.0 is replaced as a missing one is, and both
\* flags say that data was joined.
LegacyVector(row, hdi, count) ==
  [vib |-> IF row.vib = 0 THEN BaselineVib ELSE row.vib,
   hdi |-> hdi, count |-> count, weather |-> TRUE, risk |-> TRUE]

\* No telemetry at all.
DefaultVector(count) ==
  [vib |-> BaselineVib, hdi |-> 100, count |-> count, weather |-> TRUE, risk |-> TRUE]

Vector == [vib : Nat, hdi : Indices, count : Int, weather : BOOLEAN, risk : BOOLEAN]

Stale == [error |-> "stale"]                  \* StaleFeatureDataError
Unavailable == [error |-> "unavailable"]      \* FeatureVectorUnavailableError
IsVector(v) == "error" \notin DOMAIN v

\* build_feature_vector, over what the database has for one pump: its newest
\* window, its newest gold row, its latest index, whether its station has a
\* weather rollup and a risk composite, its interventions, and whether the
\* pump belongs to the tenant.
BuildVector(src, strict) ==
  IF src.window # None
  THEN IF src.window.fresh
       THEN WindowVector(src.window, src.weather, src.risk, src.count)
       ELSE Stale
  ELSE IF src.gold # None
  THEN LegacyVector(src.gold, IF src.hdi = None THEN 100 ELSE src.hdi, src.count)
  ELSE IF strict \/ ~src.own THEN Unavailable
  ELSE DefaultVector(src.count)

-----------------------------------------------------------------------------
(* alert.evaluate_thresholds.                                              *)

\* A critical alert excludes the warning.
ThresholdAlert(vib, hdi, risk, limit) ==
  IF vib > limit \/ risk >= 8500 THEN "critical"
  ELSE IF hdi >= 600 \/ risk >= 7000 THEN "warning"
  ELSE "none"

\* Less than 14 days left.
LowLife(life) == life < 1400

-----------------------------------------------------------------------------
(* work_order.create_work_order_from_prediction.                           *)

\* `if risk_score < 0.70 and predicted_class == "normal": return None`
DeservesOrder(risk, class) == risk >= 7000 \/ class # "normal"

OrderPriority(risk) == IF risk >= 8500 THEN "high" ELSE "normal"
=============================================================================
