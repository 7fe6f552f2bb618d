---------------------------- MODULE ScoringChain ----------------------------
(***************************************************************************)
(* The scoring chain of one tenant: a health deviation, a prediction, a    *)
(* remaining useful life and an attribution for a pump, the alerts and the *)
(* work order that follow from them.  Every request has a session of its   *)
(* own; each query sees what is committed then, each row it stores is a    *)
(* commit, and "the latest" row of a table is read without a lock.         *)
(*                                                                         *)
(* The Health Deviation Index is computed only where run_prediction finds  *)
(* none.  Gold keeps every cycle's rows, and several may share the newest  *)
(* timestamp: a reader gets any of them.  Feature windows have no writer   *)
(* in the repository and are taken from how the code reads them.           *)
(***************************************************************************)
EXTENDS Scores

CONSTANTS
  Requests,             \* requests, each with a session of its own: they bound
                        \* what is asked of the chain
  Pumps,
  Rated,                \* Rated[p]: rated pressure, 4000 where the pump has none
  GoldRows,             \* the gold rows a cycle may store
  Windows,              \* vibration means that a feature window may hold
  Counts,               \* values of prior_intervention_count
  VibrationLimit        \* the tenant's vibration threshold, 45 where it has none

ASSUME ReadingRows == GoldRows \subseteq Readings /\ Windows \subseteq Nat
ASSUME PumpData == Rated \in [Pumps -> Int] /\ Counts \subseteq Int
ASSUME Limit == VibrationLimit \in Nat
ASSUME NoneIsNoRow == None \notin Int /\ None \notin Readings

VARIABLES
  gold,                 \* gold[p]: the rows with the newest timestamp
  window,               \* window[p]: the newest feature window, or None
  count,                \* count[p]: prior interventions
  deviation,            \* deviation[p]: the latest index, or None
  prediction,           \* prediction[p]: the latest prediction, or None
  estimate,             \* estimate[p]: the latest RUL estimate, or None
  attribution,          \* attribution[p]: the latest attribution, or None
  alert,                \* alert[p]: the kind of the newest unresolved alert, or None
  order,                \* order[p]: the work order the chain raised last, or None
  tx,                   \* tx[s]: what request s has read and decided
  raced                 \* history: pumps whose first predictions overlapped

tables == <<deviation, prediction, estimate, attribution, alert, order>>
inputs == <<gold, window, count>>
vars == <<gold, window, count, deviation, prediction, estimate, attribution,
          alert, order, tx, raced>>

Prediction == [risk : Probabilities, class : Classes, hdi : Quotes]
Estimate == [life : Lives, lower : Nat, upper : Nat]
Attribution == [share : [{"bearing", "impeller", "seal", "motor"} -> Indices],
                top : {"bearing", "impeller", "seal", "motor"}, hdi : Quotes]
Kinds == {"critical", "warning", "low life"}
Order == [risk : Probabilities, class : Classes, priority : {"normal", "high"}, alert : Kinds \cup {None}]

Unsent == [pc |-> "unsent"]
Ended == [pc |-> "ended"]

Init ==
  /\ gold = [p \in Pumps |-> {}] /\ window = [p \in Pumps |-> None]
  /\ count \in [Pumps -> Counts]
  /\ deviation = [p \in Pumps |-> None] /\ prediction = [p \in Pumps |-> None]
  /\ estimate = [p \in Pumps |-> None] /\ attribution = [p \in Pumps |-> None]
  /\ alert = [p \in Pumps |-> None] /\ order = [p \in Pumps |-> None]
  /\ tx = [r \in Requests |-> Unsent] /\ raced = {}

Become(s, request) == tx' = [tx EXCEPT ![s] = request]
Finish(s) == Become(s, Ended)

\* One of the newest gold rows, whichever the database returns.
NewestRow(p) == IF gold[p] = {} THEN {None} ELSE gold[p]
VibOf(row) == IF row = None THEN BaselineVib ELSE row.vib
TempOf(row) == IF row = None THEN BaselineTemp ELSE row.temp

-----------------------------------------------------------------------------
(* run_prediction, asked for by POST /predictions/pumps/{id}/trigger or by *)
(* a work order that finds no prediction.                                  *)

Measuring(p) == {s \in Requests : tx[s].pc \in {"measure", "record index"} /\ tx[s].pump = p}

\* Mutant: the index is computed anew for every prediction.
AlwaysMeasures(p) == TRUE

\* Only where there is no index yet.
NeedsIndex(p) == deviation[p] = None

\* The latest index, or the way to compute one.
BeginPrediction(s, p, goal) ==
  /\ Become(s, IF NeedsIndex(p)
               THEN [pc |-> "measure", pump |-> p, goal |-> goal]
               ELSE [pc |-> "gold", pump |-> p, goal |-> goal, hdi |-> Quoted(deviation[p])])
  /\ raced' = IF deviation[p] = None /\ Measuring(p) \ {s} # {} THEN raced \cup {p} ELSE raced

Predict(s, p) ==
  /\ tx[s] = Unsent
  /\ BeginPrediction(s, p, "predict")
  /\ UNCHANGED <<inputs, tables>>

\* compute_health_deviation: the gold row it starts from ...
Measure(s) ==
  LET t == tx[s] IN
  /\ t.pc = "measure"
  /\ \E row \in NewestRow(t.pump) :
       Become(s, [pc |-> "record index", pump |-> t.pump, goal |-> t.goal,
                  hdi |-> IF row = None THEN BaselineDeviation(Rated[t.pump])
                          ELSE Deviation(row, Rated[t.pump])])
  /\ UNCHANGED <<inputs, tables, raced>>

\* ... and the record it commits.
RecordIndex(s) ==
  LET t == tx[s] IN
  /\ t.pc = "record index"
  /\ deviation' = [deviation EXCEPT ![t.pump] = t.hdi]
  /\ Become(s, [pc |-> "gold", pump |-> t.pump, goal |-> t.goal, hdi |-> Quoted(t.hdi)])
  /\ UNCHANGED <<inputs, prediction, estimate, attribution, alert, order, raced>>

\* The gold row of the prediction, which may be another one.
ReadGold(s) ==
  LET t == tx[s] IN
  /\ t.pc = "gold"
  /\ \E row \in NewestRow(t.pump) :
       Become(s, [pc |-> "record prediction", pump |-> t.pump, goal |-> t.goal,
                  hdi |-> t.hdi, row |-> row, count |-> count[t.pump]])
  /\ UNCHANGED <<inputs, tables, raced>>

Scored(hdi, row, n) ==
  LET r == Risk(hdi, VibOf(row), TempOf(row), n) IN
  [risk |-> r, class |-> FailureClass(r, hdi, VibOf(row), TempOf(row)), hdi |-> hdi]

RecordPrediction(s) ==
  LET t == tx[s]
      scored == Scored(t.hdi, t.row, t.count)
  IN /\ t.pc = "record prediction"
     /\ prediction' = [prediction EXCEPT ![t.pump] = scored]
     /\ Become(s, IF t.goal = "order"
                  THEN [pc |-> "order", pump |-> t.pump, scored |-> scored] ELSE Ended)
     /\ UNCHANGED <<inputs, deviation, estimate, attribution, alert, order, raced>>

-----------------------------------------------------------------------------
(* POST /work-orders/auto-generate/pumps/{pump_id}.                        *)

BeginOrder(s, p) ==
  /\ tx[s] = Unsent
  /\ IF prediction[p] = None
     THEN BeginPrediction(s, p, "order")
     ELSE /\ Become(s, [pc |-> "order", pump |-> p, scored |-> prediction[p]])
          /\ UNCHANGED raced
  /\ UNCHANGED <<inputs, tables>>

\* The order, or 400.  Nothing looks for an earlier order of that pump.
RaiseOrder(s) ==
  LET t == tx[s] IN
  /\ t.pc = "order"
  /\ IF DeservesOrder(t.scored.risk, t.scored.class)
     THEN order' = [order EXCEPT ![t.pump] =
                      [risk |-> t.scored.risk, class |-> t.scored.class,
                       priority |-> OrderPriority(t.scored.risk), alert |-> alert[t.pump]]]
     ELSE UNCHANGED order
  /\ Finish(s)
  /\ UNCHANGED <<inputs, deviation, prediction, estimate, attribution, alert, raced>>

-----------------------------------------------------------------------------
(* POST /rul/pumps/{pump_id}/trigger.                                      *)

\* The vectors that build_feature_vector may give for a pump of the tenant;
\* the tenant's own pump without any data gets the defaults.
Features(p) ==
  {BuildVector([window |-> window[p], gold |-> row, hdi |-> deviation[p], count |-> count[p],
                own |-> TRUE, weather |-> FALSE, risk |-> FALSE], FALSE) : row \in NewestRow(p)}

\* StaleFeatureDataError is no ValueError: the request ends with a 500.
EstimateLife(s, p) ==
  /\ tx[s] = Unsent
  /\ \E v \in Features(p) :
       IF IsVector(v) THEN Become(s, [pc |-> "record life", pump |-> p,
                                      life |-> Life(v.hdi, v.vib, v.count)])
       ELSE Finish(s)
  /\ UNCHANGED <<inputs, tables, raced>>

RecordLife(s) ==
  LET t == tx[s] IN
  /\ t.pc = "record life"
  /\ estimate' = [estimate EXCEPT ![t.pump] =
       [life |-> t.life, lower |-> LifeBounds(t.life).lower, upper |-> LifeBounds(t.life).upper]]
  /\ Finish(s)
  /\ UNCHANGED <<inputs, deviation, prediction, attribution, alert, order, raced>>

-----------------------------------------------------------------------------
(* POST /explainability/pumps/{pump_id}/trigger.                           *)

\* The gold row first, then the latest index, 0.1 where there is none.
Explain(s, p) ==
  /\ tx[s] = Unsent
  /\ \E row \in NewestRow(p) : Become(s, [pc |-> "explain", pump |-> p, row |-> row])
  /\ UNCHANGED <<inputs, tables, raced>>

RecordAttribution(s) ==
  LET t == tx[s]
      hdi == IF deviation[t.pump] = None THEN 100 ELSE Quoted(deviation[t.pump])
      share == Shares(Components(Shap(hdi, VibOf(t.row), TempOf(t.row))))
  IN /\ t.pc = "explain"
     /\ attribution' = [attribution EXCEPT ![t.pump] =
                          [share |-> share, top |-> TopComponent(share), hdi |-> hdi]]
     /\ Finish(s)
     /\ UNCHANGED <<inputs, deviation, prediction, estimate, alert, order, raced>>

-----------------------------------------------------------------------------
(* POST /alerts/pumps/{pump_id}/evaluate.                                  *)

Evaluate(s, p) ==
  /\ tx[s] = Unsent
  /\ \E v \in Features(p) :
       IF IsVector(v) THEN Become(s, [pc |-> "thresholds", pump |-> p, vib |-> v.vib, hdi |-> v.hdi])
       ELSE Finish(s)
  /\ UNCHANGED <<inputs, tables, raced>>

\* The latest prediction and the latest life are read; the first alert is a
\* commit of its own, and so is the second.  No open alert is looked for.
RaiseThreshold(s) ==
  LET t == tx[s]
      p == t.pump
      risk == IF prediction[p] = None THEN 1000 ELSE prediction[p].risk
      kind == ThresholdAlert(t.vib, t.hdi, risk, VibrationLimit)
  IN /\ t.pc = "thresholds"
     /\ alert' = IF kind = "none" THEN alert ELSE [alert EXCEPT ![p] = kind]
     /\ Become(s, IF estimate[p] # None /\ LowLife(estimate[p].life)
                  THEN [pc |-> "low life", pump |-> p] ELSE Ended)
     /\ UNCHANGED <<inputs, deviation, prediction, estimate, attribution, order, raced>>

RaiseLowLife(s) ==
  /\ tx[s].pc = "low life"
  /\ alert' = [alert EXCEPT ![tx[s].pump] = "low life"]
  /\ Finish(s)
  /\ UNCHANGED <<inputs, deviation, prediction, estimate, attribution, order, raced>>

-----------------------------------------------------------------------------
(* The pipeline, the windows' writer and PATCH /pumps/{pump_id}.           *)

\* A cycle stores a row for the newest reading, beside the rows of earlier
\* cycles for that reading, or the first row for a newer one.
StoreGold(p, row) ==
  /\ \/ gold' = [gold EXCEPT ![p] = {row}]
     \/ gold' = [gold EXCEPT ![p] = @ \cup {row}]
  /\ UNCHANGED <<window, count, tables, tx, raced>>

NewWindow(p, vib) ==
  /\ window' = [window EXCEPT ![p] = [vib |-> vib, fresh |-> TRUE]]
  /\ UNCHANGED <<gold, count, tables, tx, raced>>

WindowAges(p) ==
  /\ window[p] # None /\ window[p].fresh
  /\ window' = [window EXCEPT ![p].fresh = FALSE]
  /\ UNCHANGED <<gold, count, tables, tx, raced>>

PatchPump(p, n) ==
  /\ count' = [count EXCEPT ![p] = n]
  /\ UNCHANGED <<gold, window, tables, tx, raced>>

Request(s) ==
  \/ \E p \in Pumps : Predict(s, p) \/ BeginOrder(s, p) \/ EstimateLife(s, p)
                        \/ Explain(s, p) \/ Evaluate(s, p)
  \/ Measure(s) \/ RecordIndex(s) \/ ReadGold(s) \/ RecordPrediction(s)
  \/ RaiseOrder(s) \/ RecordLife(s) \/ RecordAttribution(s)
  \/ RaiseThreshold(s) \/ RaiseLowLife(s)

Next ==
  \/ \E s \in Requests : Request(s)
  \/ \E p \in Pumps, row \in GoldRows : StoreGold(p, row)
  \/ \E p \in Pumps, vib \in Windows : NewWindow(p, vib)
  \/ \E p \in Pumps : WindowAges(p)
  \/ \E p \in Pumps, n \in Counts : PatchPump(p, n)

Spec == Init /\ [][Next]_vars

-----------------------------------------------------------------------------
(* Properties.                                                             *)

\* Type invariant.
TypeOK ==
  /\ gold \in [Pumps -> SUBSET GoldRows]
  /\ window \in [Pumps -> [vib : Windows, fresh : BOOLEAN] \cup {None}]
  /\ count \in [Pumps -> Int]
  /\ deviation \in [Pumps -> Indices \cup {None}]
  /\ prediction \in [Pumps -> Prediction \cup {None}]
  /\ estimate \in [Pumps -> Estimate \cup {None}]
  /\ attribution \in [Pumps -> Attribution \cup {None}]
  /\ alert \in [Pumps -> Kinds \cup {None}]
  /\ order \in [Pumps -> Order \cup {None}]
  /\ raced \subseteq Pumps

\* Every score that is stored lies in its range, whatever the telemetry and
\* the pump's data, a negative count and a rated pressure of 0 included: risk
\* in 0 .. 1 and below 0.35 exactly for "normal", a life of 1 to 365 days
\* within its bounds, shares that sum to 1 but for the rounding of each, and a
\* top component with the largest share.
ScoresAreInRange ==
  \A p \in Pumps :
    /\ deviation[p] # None => deviation[p] \in Indices
    /\ prediction[p] # None =>
         /\ prediction[p] \in Prediction
         /\ prediction[p].class = "normal" <=> prediction[p].risk < 3500
    /\ estimate[p] # None =>
         /\ estimate[p] \in Estimate
         /\ estimate[p].lower <= estimate[p].life /\ estimate[p].life <= estimate[p].upper
    /\ attribution[p] # None =>
         LET a == attribution[p] IN
         /\ a \in Attribution
         /\ Total(a.share) \in 998 .. 1002
         /\ \A c \in DOMAIN a.share : a.share[c] <= a.share[a.top]

\* Predictions and explanations of a pump quote one index, the latest, however
\* often gold changes and in whatever order they are asked for, unless two
\* first predictions overlapped; an explanation that came before the first
\* index took 0.1.
OneDeviation ==
  \A p \in Pumps \ raced :
    /\ prediction[p] # None => deviation[p] # None /\ prediction[p].hdi = Quoted(deviation[p])
    /\ attribution[p] # None /\ attribution[p].hdi # 100 =>
         deviation[p] # None /\ attribution[p].hdi = Quoted(deviation[p])

\* What the docstring of create_work_order_from_prediction and README.md say of
\* automatic work orders: they are raised from a risk of 0.70.
OrdersFollowRisk ==
  \A p \in Pumps : order[p] # None => order[p].risk >= 7000

\* What the code keeps instead: an order is for a pump that is classified as
\* failing, which takes a risk of 0.35, and it is "high" exactly from 0.85.
OrdersNameFaults ==
  \A p \in Pumps : order[p] # None =>
    /\ order[p].risk >= 3500 /\ order[p].class # "normal"
    /\ order[p].priority = "high" <=> order[p].risk >= 8500
=============================================================================
