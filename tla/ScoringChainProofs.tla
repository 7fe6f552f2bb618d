------------------------- MODULE ScoringChainProofs -------------------------
(***************************************************************************)
(* Proofs about Scores and ScoringChain: every formula stays in its range  *)
(* for all inputs, and with it every stored score; predictions and         *)
(* explanations quote one index; orders are raised for failing pumps only. *)
(* The last section is about FeatureVectors: the batch of a scheduled run  *)
(* answers every pump as a request of its own would be answered.           *)
(***************************************************************************)
EXTENDS ScoringChain, FeatureVectors, TLAPS

-----------------------------------------------------------------------------
(* Rounded division.                                                       *)

\* 2d times the rounded quotient lies within d of 2n.
LEMMA RoundedIsNear ==
  ASSUME NEW n \in Int, NEW d \in Int, d > 0
  PROVE  /\ Rounded(n, d) \in Int
         /\ 2 * (d * Rounded(n, d)) <= 2 * n + d
         /\ 2 * n - d < 2 * (d * Rounded(n, d))
<1> DEFINE q == (2 * n + d) \div (2 * d)
<1>1. q \in Int /\ (2 * d) * q <= 2 * n + d /\ 2 * n + d < (2 * d) * q + 2 * d
  OBVIOUS
<1>2. (2 * d) * q = 2 * (d * q)
  BY <1>1
<1> QED  BY <1>1, <1>2 DEF Rounded

\* 600 times a quotient of at most 1 is rounded to 600 at most.
LEMMA RoundedPart ==
  ASSUME NEW n \in Int, NEW d \in Int, d > 0, 0 <= n, n <= 600 * d
  PROVE  Rounded(n, d) \in 0 .. 600
<1> DEFINE q == Rounded(n, d)
<1>1. q \in Int /\ 2 * (d * q) <= 2 * n + d /\ 2 * n - d < 2 * (d * q)
  BY RoundedIsNear
<1> HIDE DEF q
<1>2. q <= 600
  <2> SUFFICES ASSUME q >= 601 PROVE FALSE
    BY <1>1
  <2>1. d * q >= d * 601
    BY <1>1
  <2> QED  BY <1>1, <2>1
<1>3. 0 <= q
  <2> SUFFICES ASSUME q <= -1 PROVE FALSE
    BY <1>1
  <2>1. d * q <= d * (-1)
    BY <1>1
  <2> QED  BY <1>1, <2>1
<1> QED  BY <1>1, <1>2, <1>3 DEF q

-----------------------------------------------------------------------------
(* The named ranges as inequalities.                                       *)

LEMMA NamedRanges ==
  /\ \A x \in Indices : x \in Int /\ 0 <= x /\ x <= 1000
  /\ \A x \in Quotes : x \in Int /\ x \in Indices /\ 1 <= x /\ x <= 1000
  /\ \A x \in Probabilities : x \in Int
  /\ \A x \in Lives : x \in Int /\ 100 <= x /\ x <= 36500
BY DEF Indices, Quotes, Probabilities, Lives

-----------------------------------------------------------------------------
(* The formulas.                                                           *)

LEMMA PressurePartRange ==
  ASSUME NEW residual \in Nat, NEW rated \in Int
  PROVE  PressurePart(residual, rated) \in 0 .. 600
<1> DEFINE h == Higher(1, rated)
           n == 600 * Lower(residual, h)
<1>1. h \in Int /\ h > 0
  BY DEF Higher
<1>2. n \in Int /\ 0 <= n /\ n <= 600 * h
  <2> HIDE DEF h
  <2> QED  BY <1>1 DEF Lower
<1> HIDE DEF h, n
<1>3. Rounded(n, h) \in 0 .. 600
  BY <1>1, <1>2, RoundedPart
<1> QED  BY <1>3 DEF PressurePart, h, n

\* The index lies in 0 .. 1 for every rated pressure, 0 and negative included.
LEMMA DeviationRange ==
  ASSUME NEW reading \in Readings, NEW rated \in Int
  PROVE  Deviation(reading, rated) \in Indices
<1> DEFINE p == PressurePart(Distance(reading.pressure, rated), rated)
           v == Lower(100, reading.vib)
<1>1. Distance(reading.pressure, rated) \in Nat
  BY DEF Distance, Readings
<1>2. p \in 0 .. 600
  BY <1>1, PressurePartRange
<1>3. v \in 0 .. 100
  BY DEF Lower, Readings
<1> HIDE DEF p, v
<1>4. p + 4 * v \in 0 .. 1000
  BY <1>2, <1>3
<1> QED  BY <1>4 DEF Deviation, p, v, Indices

LEMMA BaselineDeviationRange ==
  ASSUME NEW rated \in Int
  PROVE  BaselineDeviation(rated) \in Indices
<1> DEFINE h == Higher(1, rated)
           n == 30 * Lower(Distance(0, rated), 20 * h)
           q == Rounded(n, h)
<1>1. h \in Int /\ h > 0
  BY DEF Higher
<1>2. n \in Int /\ 0 <= n /\ n <= 600 * h
  <2> HIDE DEF h
  <2> QED  BY <1>1 DEF Lower, Distance
<1> HIDE DEF h, n
<1>3. q \in 0 .. 600
  BY <1>1, <1>2, RoundedPart
<1> HIDE DEF q
<1>4. q + 4 * 15 \in 0 .. 1000
  BY <1>3
<1> QED  BY <1>4 DEF BaselineDeviation, BaselineVib, h, n, q, Indices

LEMMA QuotedRange ==
  ASSUME NEW hdi \in Indices
  PROVE  Quoted(hdi) \in Quotes
BY DEF Quoted, Indices, Quotes

LEMMA WeightedIsAnInteger ==
  ASSUME NEW hdi \in Int, NEW vib \in Nat, NEW temp \in Int, NEW n \in Int
  PROVE  Weighted(hdi, vib, temp, n) \in Int
<1> DEFINE heat == TempRisk(temp)
           v == Lower(80, vib)
           age == Lower(1000, 150 * n)
<1>1. heat \in 0 .. 40
  BY DEF TempRisk, Clamp, Higher, Lower
<1>2. v \in Int /\ age \in Int
  BY DEF Lower
<1> HIDE DEF heat, v, age
<1>3. 18 * hdi + 175 * v + 100 * heat + 4 * age \in Int
  BY <1>1, <1>2
<1> QED  BY <1>3 DEF Weighted, heat, v, age

\* Risk is a probability for every reading, index and intervention count.
LEMMA RiskRange ==
  ASSUME NEW hdi \in Int, NEW vib \in Nat, NEW temp \in Int, NEW n \in Int
  PROVE  Risk(hdi, vib, temp, n) \in Probabilities
<1> DEFINE w == Weighted(hdi, vib, temp, n)
           q == Rounded(w, 4)
<1>1. w \in Int
  BY WeightedIsAnInteger
<1> HIDE DEF w
<1>2. q \in Int
  BY <1>1, RoundedIsNear
<1> HIDE DEF q
<1>3. Clamp(0, q, 10000) \in 0 .. 10000
  BY <1>2 DEF Clamp, Higher, Lower
<1> QED  BY <1>3 DEF Risk, w, q, Probabilities

LEMMA ClassFitsRisk ==
  ASSUME NEW r \in Int, NEW hdi \in Int, NEW vib \in Nat, NEW temp \in Int
  PROVE  /\ FailureClass(r, hdi, vib, temp) \in Classes
         /\ FailureClass(r, hdi, vib, temp) = "normal" <=> r < 3500
BY DEF FailureClass, Classes

LEMMA DegradationRange ==
  ASSUME NEW hdi \in Int, NEW vib \in Int, NEW n \in Int
  PROVE  /\ Degradation(hdi, vib, n) \in Int
         /\ 0 <= Degradation(hdi, vib, n) /\ Degradation(hdi, vib, n) <= 20000
BY DEF Degradation, Clamp, Lower, Higher

LEMMA UnflooredLife ==
  ASSUME NEW wear \in Int, 0 <= wear, wear <= 20000
  PROVE  DaysLeft(wear) \in Int /\ 0 <= DaysLeft(wear) /\ DaysLeft(wear) <= 36500
BY DEF DaysLeft, Rounded

\* A life of 1 to 365 days for every vector, a negative count included.
LEMMA LifeRange ==
  ASSUME NEW hdi \in Int, NEW vib \in Int, NEW n \in Int
  PROVE  Life(hdi, vib, n) \in Lives
<1> DEFINE d == Degradation(hdi, vib, n)
           q == DaysLeft(d)
<1>1. d \in Int /\ 0 <= d /\ d <= 20000
  BY DegradationRange
<1> HIDE DEF d
<1>2. q \in Int /\ 0 <= q /\ q <= 36500
  BY <1>1, UnflooredLife
<1> HIDE DEF q
<1>3. (IF 100 <= q THEN q ELSE 100) \in 100 .. 36500
  BY <1>2
<1>4. Life(hdi, vib, n) = Higher(100, q)
  BY Zenon DEF Life, d, q
<1> QED  BY <1>3, <1>4 DEF Higher, Lives

LEMMA LifeBoundsOrder ==
  ASSUME NEW life \in Int, 100 <= life, life <= 36500
  PROVE  /\ LifeBounds(life).lower \in Nat /\ LifeBounds(life).upper \in Nat
         /\ LifeBounds(life).lower <= life /\ life <= LifeBounds(life).upper
<1>1. Rounded(88 * life, 100) \in 0 .. life
  BY DEF Rounded
<1>2. /\ Rounded(112 * life, 100) \in Int
      /\ 2 * (112 * life) - 100 < 2 * (100 * Rounded(112 * life, 100))
  BY DEF Rounded
<1>3. Rounded(112 * life, 100) >= life
  BY <1>2
<1> QED  BY <1>1, <1>2, <1>3 DEF LifeBounds


-----------------------------------------------------------------------------
(* Attribution.                                                            *)

Parts == {"bearing", "impeller", "seal", "motor"}

LEMMA ComponentsArePositive ==
  ASSUME NEW hdi \in Quotes, NEW vib \in Nat, NEW temp \in Int
  PROVE  LET raw == Components(Shap(hdi, vib, temp)) IN
         /\ DOMAIN raw = Parts
         /\ raw.bearing \in Nat \ {0} /\ raw.impeller \in Nat \ {0}
         /\ raw.seal \in Nat \ {0} /\ raw.motor \in Nat \ {0}
<1> DEFINE v == Lower(5000, 50 * vib)
           p == Lower(5000, Rounded(35 * hdi, 10))
           h == Lower(3000, Higher(0, 30 * (temp - 40)))
           raw == Components(Shap(hdi, vib, temp))
<1>1. v \in Nat
  BY DEF Lower
<1>2. p \in Nat
  <2>1. Rounded(35 * hdi, 10) \in Int /\ Rounded(35 * hdi, 10) >= 0
    BY DEF Rounded, Quotes
  <2> QED  BY <2>1 DEF Lower
<1>3. h \in Nat
  BY DEF Lower, Higher
<1>4. Shap(hdi, vib, temp) = [vibration |-> v, pressure |-> p, heat |-> h, motor |-> 350]
  BY DEF Shap
<1> HIDE DEF v, p, h
<1>5. raw = [bearing  |-> Rounded(8 * v, 100) + 100, impeller |-> Rounded(8 * p, 100) + 100,
             seal     |-> Rounded(8 * h, 100) + 50,  motor    |-> Rounded(8 * 350, 100) + 50]
  BY <1>4 DEF Components
<1>6. \A n \in Nat : Rounded(8 * n, 100) \in Nat
  BY DEF Rounded
<1>7. 350 \in Nat
  OBVIOUS
<1>8. /\ Rounded(8 * v, 100) \in Nat /\ Rounded(8 * p, 100) \in Nat
      /\ Rounded(8 * h, 100) \in Nat /\ Rounded(8 * 350, 100) \in Nat
  BY <1>1, <1>2, <1>3, <1>6, <1>7
<1> HIDE DEF raw
<1> QED  BY <1>5, <1>8 DEF Parts, raw

LEMMA RoundedShare ==
  ASSUME NEW part \in Nat, NEW total \in Nat, total > 0, part <= total
  PROVE  LET q == Rounded(1000 * part, total) IN
         /\ q \in Indices
         /\ 2 * (total * q) <= 2000 * part + total
         /\ 2000 * part - total < 2 * (total * q)
<1> DEFINE q == Rounded(1000 * part, total)
<1>1. q \in Int /\ 2 * (total * q) <= 2000 * part + total /\ 2000 * part - total < 2 * (total * q)
  <2>1. 1000 * part \in Int /\ total \in Int
    OBVIOUS
  <2>2. /\ q \in Int
        /\ 2 * (total * q) <= 2 * (1000 * part) + total
        /\ 2 * (1000 * part) - total < 2 * (total * q)
    BY <2>1, RoundedIsNear
  <2> QED  BY <2>2
<1> HIDE DEF q
<1>2. q <= 1000
  <2> SUFFICES ASSUME q >= 1001 PROVE FALSE
    BY <1>1
  <2>1. total * q >= total * 1001
    BY <1>1
  <2> QED  BY <1>1, <2>1
<1>3. 0 <= q
  <2> SUFFICES ASSUME q <= -1 PROVE FALSE
    BY <1>1
  <2>1. total * q <= total * (-1)
    BY <1>1
  <2> QED  BY <1>1, <2>1
<1>4. /\ q \in Indices
      /\ 2 * (total * q) <= 2000 * part + total
      /\ 2000 * part - total < 2 * (total * q)
  BY <1>1, <1>2, <1>3 DEF Indices
<1> QED  BY <1>4 DEF q

\* Each share lies in 0 .. 1, and four roundings move their sum by at most
\* 0.002.
LEMMA SharesSumToOne ==
  ASSUME NEW raw, DOMAIN raw = Parts,
         raw.bearing \in Nat \ {0}, raw.impeller \in Nat \ {0},
         raw.seal \in Nat \ {0}, raw.motor \in Nat \ {0}
  PROVE  /\ Shares(raw) \in [Parts -> Indices]
         /\ Total(Shares(raw)) \in 998 .. 1002
<1> DEFINE t == Total(raw)
           s == Shares(raw)
<1>1. t \in Nat /\ t > 0 /\ t = raw.bearing + raw.impeller + raw.seal + raw.motor
  BY DEF Total
<1>2. \A c \in Parts : raw[c] \in Nat /\ raw[c] <= t
  BY <1>1 DEF Parts
<1>3. s = [c \in Parts |-> Rounded(1000 * raw[c], t)]
  BY DEF Shares
<1> HIDE DEF t, s
<1>4. \A c \in Parts : /\ s[c] \in Indices
                       /\ 2 * (t * s[c]) <= 2000 * raw[c] + t
                       /\ 2000 * raw[c] - t < 2 * (t * s[c])
  BY <1>1, <1>2, <1>3, RoundedShare
<1>5. s \in [Parts -> Indices]
  BY <1>3, <1>4
<1>6. Total(s) \in 998 .. 1002
  <2> DEFINE a == s.bearing
             b == s.impeller
             c == s.seal
             d == s.motor
             sum == a + b + c + d
  <2>1. a \in Int /\ b \in Int /\ c \in Int /\ d \in Int
    <3>1. "bearing" \in Parts /\ "impeller" \in Parts /\ "seal" \in Parts /\ "motor" \in Parts
      BY DEF Parts
    <3>2. \A x \in Parts : s[x] \in Int
      BY <1>5 DEF Indices
    <3> QED  BY <3>1, <3>2
  <2>2. /\ 2 * (t * a) <= 2000 * raw.bearing + t  /\ 2000 * raw.bearing - t < 2 * (t * a)
        /\ 2 * (t * b) <= 2000 * raw.impeller + t /\ 2000 * raw.impeller - t < 2 * (t * b)
        /\ 2 * (t * c) <= 2000 * raw.seal + t     /\ 2000 * raw.seal - t < 2 * (t * c)
        /\ 2 * (t * d) <= 2000 * raw.motor + t    /\ 2000 * raw.motor - t < 2 * (t * d)
    BY <1>4 DEF Parts
  <2>3. Total(s) = sum
    BY DEF Total
  <2> HIDE DEF a, b, c, d
  <2>4. sum \in Int /\ t * sum = t * a + t * b + t * c + t * d
    BY <1>1, <2>1
  <2> HIDE DEF sum
  <2>5. 2 * (t * sum) <= 2004 * t /\ 1996 * t < 2 * (t * sum)
    BY <1>1, <2>1, <2>2, <2>4
  <2>6. sum <= 1002
    <3> SUFFICES ASSUME sum >= 1003 PROVE FALSE
      BY <2>4
    <3>1. t * sum >= t * 1003
      BY <1>1, <2>4
    <3> QED  BY <1>1, <2>4, <2>5, <3>1
  <2>7. sum >= 998
    <3> SUFFICES ASSUME sum <= 997 PROVE FALSE
      BY <2>4
    <3>1. t * sum <= t * 997
      BY <1>1, <2>4
    <3> QED  BY <1>1, <2>4, <2>5, <3>1
  <2> QED  BY <2>3, <2>4, <2>6, <2>7
<1> QED  BY <1>5, <1>6 DEF s

\* The top component has the largest share.
LEMMA TopIsLargest ==
  ASSUME NEW share \in [Parts -> Indices]
  PROVE  /\ TopComponent(share) \in Parts
         /\ \A c \in Parts : share[c] <= share[TopComponent(share)]
<1>1. DOMAIN share = Parts /\ \A c \in Parts : share[c] \in Int
  BY DEF Indices
<1>2. CASE \A d \in Parts : share[d] <= share.bearing
  BY <1>1, <1>2 DEF TopComponent, Parts
<1>3. CASE ~ \A d \in Parts : share[d] <= share.bearing
  BY <1>1, <1>3 DEF TopComponent, Parts
<1> QED  BY <1>2, <1>3

LEMMA AttributionFits ==
  ASSUME NEW hdi \in Quotes, NEW vib \in Nat, NEW temp \in Int
  PROVE  LET share == Shares(Components(Shap(hdi, vib, temp))) IN
         /\ share \in [Parts -> Indices]
         /\ Total(share) \in 998 .. 1002
         /\ TopComponent(share) \in Parts
         /\ \A c \in Parts : share[c] <= share[TopComponent(share)]
<1> DEFINE raw == Components(Shap(hdi, vib, temp))
<1>1. /\ DOMAIN raw = Parts
      /\ raw.bearing \in Nat \ {0} /\ raw.impeller \in Nat \ {0}
      /\ raw.seal \in Nat \ {0} /\ raw.motor \in Nat \ {0}
  BY ComponentsArePositive
<1> HIDE DEF raw
<1>2. Shares(raw) \in [Parts -> Indices] /\ Total(Shares(raw)) \in 998 .. 1002
  BY <1>1, SharesSumToOne
<1>3. /\ TopComponent(Shares(raw)) \in Parts
      /\ \A c \in Parts : Shares(raw)[c] <= Shares(raw)[TopComponent(Shares(raw))]
  BY <1>2, TopIsLargest
<1> QED  BY <1>2, <1>3 DEF raw

-----------------------------------------------------------------------------
(* The inductive invariant: what a request carries is fit to be stored.    *)

Phases == {"measure", "record index", "gold", "record prediction", "order",
           "record life", "explain", "thresholds", "low life"}

Fits(x) == x \in Prediction /\ (x.class = "normal" <=> x.risk < 3500)

Carried(t) ==
  /\ t.pc \in Phases \cup {"unsent", "ended"}
  /\ t.pc \in Phases => t.pump \in Pumps
  /\ t.pc = "record index" => t.hdi \in Indices
  /\ t.pc \in {"gold", "record prediction"} => t.hdi \in Quotes
  /\ t.pc = "record prediction" => t.row \in GoldRows \cup {None} /\ t.count \in Int
  /\ t.pc = "order" => Fits(t.scored)
  /\ t.pc = "record life" => t.life \in Lives
  /\ t.pc = "explain" => t.row \in GoldRows \cup {None}

RequestsAreFit == DOMAIN tx = Requests /\ \A s \in Requests : Carried(tx[s])

IInv == TypeOK /\ RequestsAreFit /\ ScoresAreInRange /\ OrdersNameFaults

LEMMA WhatIsCarried ==
  ASSUME IInv, NEW s \in Requests
  PROVE  /\ Carried(tx[s])
         /\ tx[s].pc \in Phases => tx[s].pump \in Pumps
BY DEF IInv, RequestsAreFit, Carried

\* One request changes what it carries.
LEMMA OneBecomes ==
  ASSUME RequestsAreFit, NEW s \in Requests, NEW x, Carried(x), Become(s, x)
  PROVE  RequestsAreFit'
<1>1. DOMAIN tx' = Requests
  BY DEF RequestsAreFit, Become
<1>2. ASSUME NEW r \in Requests PROVE tx'[r] = IF r = s THEN x ELSE tx[r]
  BY DEF RequestsAreFit, Become
<1>3. ASSUME NEW r \in Requests PROVE Carried(tx[r])'
  <2>1. Carried(tx[r])
    BY DEF RequestsAreFit
  <2>2. CASE r = s
    <3>1. tx'[r] = x
      BY <1>2, <2>2
    <3> QED  BY <3>1
  <2>3. CASE r # s
    <3>1. tx'[r] = tx[r]
      BY <1>2, <2>3
    <3> QED  BY <2>1, <3>1
  <2> QED  BY <2>2, <2>3
<1> QED  BY <1>1, <1>3 DEF RequestsAreFit

LEMMA EndedIsFit == Carried(Ended) /\ Carried(Unsent)
BY DEF Carried, Ended, Unsent, Phases

LEMMA RowsAreReadings ==
  ASSUME TypeOK, NEW p \in Pumps, NEW row \in NewestRow(p)
  PROVE  /\ row \in GoldRows \cup {None}
         /\ row # None => row \in Readings
         /\ VibOf(row) \in Nat /\ TempOf(row) \in Int
BY ReadingRows DEF TypeOK, NewestRow, VibOf, TempOf, BaselineVib, BaselineTemp, Readings

LEMMA StoredRows ==
  ASSUME NEW row \in GoldRows \cup {None}
  PROVE  VibOf(row) \in Nat /\ TempOf(row) \in Int
BY ReadingRows DEF VibOf, TempOf, BaselineVib, BaselineTemp, Readings

LEMMA VectorsAreTyped ==
  ASSUME TypeOK, NEW p \in Pumps, NEW v \in Features(p), IsVector(v)
  PROVE  v.vib \in Nat /\ v.hdi \in Indices /\ v.count \in Int
<1>1. PICK row \in NewestRow(p) :
        v = BuildVector([window |-> window[p], gold |-> row, hdi |-> deviation[p],
                         count |-> count[p], own |-> TRUE, weather |-> FALSE, risk |-> FALSE], FALSE)
  BY DEF Features
<1>2. row # None => row.vib \in Nat
  BY RowsAreReadings DEF Readings
<1>3. count[p] \in Int /\ (deviation[p] # None => deviation[p] \in Indices)
  BY DEF TypeOK
<1>4. window[p] # None => window[p].vib \in Nat
  BY ReadingRows DEF TypeOK
<1>5. 100 \in Indices /\ BaselineVib \in Nat
  BY DEF Indices, BaselineVib
<1> QED
  BY <1>1, <1>2, <1>3, <1>4, <1>5
     DEF BuildVector, WindowVector, LegacyVector, DefaultVector, Stale, Unavailable, IsVector

LEMMA RiskAndClassFit ==
  ASSUME NEW hdi \in Int, 1 <= hdi, hdi <= 1000, NEW vib \in Nat, NEW temp \in Int, NEW n \in Int
  PROVE  LET r == Risk(hdi, vib, temp, n)
             c == FailureClass(r, hdi, vib, temp)
         IN Fits([risk |-> r, class |-> c, hdi |-> hdi])
<1> DEFINE r == Risk(hdi, vib, temp, n)
           c == FailureClass(r, hdi, vib, temp)
<1>1. r \in Probabilities
  BY RiskRange
<1> HIDE DEF r
<1>2. r \in Int
  BY <1>1 DEF Probabilities
<1>3. c \in Classes /\ (c = "normal" <=> r < 3500)
  BY <1>2, ClassFitsRisk
<1> HIDE DEF c
<1>4. Fits([risk |-> r, class |-> c, hdi |-> hdi])
  BY <1>1, <1>3 DEF Fits, Prediction, Quotes
<1> QED  BY <1>4 DEF r, c

LEMMA ScoredFits ==
  ASSUME NEW hdi \in Quotes, NEW row \in GoldRows \cup {None}, NEW n \in Int
  PROVE  Fits(Scored(hdi, row, n)) /\ Scored(hdi, row, n).hdi = hdi
<1>1. hdi \in Int /\ 1 <= hdi /\ hdi <= 1000
  BY DEF Quotes
<1>2. VibOf(row) \in Nat /\ TempOf(row) \in Int
  BY StoredRows
<1> QED  BY <1>1, <1>2, RiskAndClassFit DEF Scored

LEMMA InitIsFit == Init => IInv
<1> SUFFICES ASSUME Init PROVE IInv
  OBVIOUS
<1>1. TypeOK
  BY PumpData DEF Init, TypeOK
<1>2. RequestsAreFit
  BY EndedIsFit DEF Init, RequestsAreFit
<1>3. ScoresAreInRange /\ OrdersNameFaults
  BY DEF Init, ScoresAreInRange, OrdersNameFaults
<1> QED  BY <1>1, <1>2, <1>3 DEF IInv

-----------------------------------------------------------------------------
(* Steps that change no table.                                             *)

\* A request that only reads keeps the invariant if what it read is fit.
LEMMA ReadingKeeps ==
  ASSUME IInv, NEW s \in Requests, NEW x, Carried(x), Become(s, x),
         UNCHANGED <<inputs, tables>>, raced' \subseteq Pumps
  PROVE  IInv'
<1>1. RequestsAreFit'
  BY OneBecomes DEF IInv
<1>2. TypeOK' /\ ScoresAreInRange' /\ OrdersNameFaults'
  BY DEF IInv, inputs, tables, TypeOK, ScoresAreInRange, OrdersNameFaults
<1> QED  BY <1>1, <1>2 DEF IInv

LEMMA BeginKeeps ==
  ASSUME IInv, NEW s \in Requests, NEW p \in Pumps, NEW goal,
         BeginPrediction(s, p, goal), UNCHANGED <<inputs, tables>>
  PROVE  IInv'
<1> DEFINE x == IF NeedsIndex(p)
                THEN [pc |-> "measure", pump |-> p, goal |-> goal]
                ELSE [pc |-> "gold", pump |-> p, goal |-> goal, hdi |-> Quoted(deviation[p])]
<1>1. ~NeedsIndex(p) => Quoted(deviation[p]) \in Quotes
  <2>1. deviation[p] # None => deviation[p] \in Indices
    BY DEF IInv, TypeOK
  <2> QED  BY <2>1, QuotedRange DEF NeedsIndex
<1>2. Carried(x)
  BY <1>1 DEF Carried, Phases
<1>3. Become(s, x) /\ raced' \subseteq Pumps
  BY DEF BeginPrediction, IInv, TypeOK
<1> HIDE DEF x
<1> QED  BY <1>2, <1>3, ReadingKeeps

LEMMA PredictKeeps ==
  ASSUME IInv, NEW s \in Requests, NEW p \in Pumps, Predict(s, p)
  PROVE  IInv'
BY BeginKeeps DEF Predict

LEMMA MeasureKeeps ==
  ASSUME IInv, NEW s \in Requests, Measure(s)
  PROVE  IInv'
<1> DEFINE t == tx[s]
<1>1. t.pump \in Pumps
  BY WhatIsCarried DEF Phases, Measure
<1>2. Rated[t.pump] \in Int
  BY <1>1, PumpData
<1>3. PICK row \in NewestRow(t.pump) :
        Become(s, [pc |-> "record index", pump |-> t.pump, goal |-> t.goal,
                   hdi |-> IF row = None THEN BaselineDeviation(Rated[t.pump])
                           ELSE Deviation(row, Rated[t.pump])])
  BY DEF Measure
<1> DEFINE hdi == IF row = None THEN BaselineDeviation(Rated[t.pump])
                  ELSE Deviation(row, Rated[t.pump])
           x == [pc |-> "record index", pump |-> t.pump, goal |-> t.goal, hdi |-> hdi]
<1>4. hdi \in Indices
  <2>1. row # None => row \in Readings
    BY <1>1, RowsAreReadings DEF IInv
  <2> QED  BY <1>2, <2>1, DeviationRange, BaselineDeviationRange
<1>5. Become(s, x)
  BY <1>3
<1> HIDE DEF hdi
<1>6. Carried(x)
  BY <1>1, <1>4 DEF Carried, Phases
<1>7. UNCHANGED <<inputs, tables>> /\ raced' \subseteq Pumps
  BY DEF Measure, IInv, TypeOK
<1> HIDE DEF x
<1> QED  BY <1>5, <1>6, <1>7, ReadingKeeps

LEMMA ReadGoldKeeps ==
  ASSUME IInv, NEW s \in Requests, ReadGold(s)
  PROVE  IInv'
<1> DEFINE t == tx[s]
<1>1. t.pump \in Pumps /\ t.hdi \in Quotes
  <2>1. t.pc = "gold" /\ Carried(t)
    BY WhatIsCarried DEF ReadGold
  <2> QED  BY <2>1 DEF Carried, Phases
<1>2. PICK row \in NewestRow(t.pump) :
        Become(s, [pc |-> "record prediction", pump |-> t.pump, goal |-> t.goal,
                   hdi |-> t.hdi, row |-> row, count |-> count[t.pump]])
  BY DEF ReadGold
<1> DEFINE x == [pc |-> "record prediction", pump |-> t.pump, goal |-> t.goal,
                 hdi |-> t.hdi, row |-> row, count |-> count[t.pump]]
<1>3. row \in GoldRows \cup {None} /\ count[t.pump] \in Int
  BY <1>1, RowsAreReadings DEF IInv, TypeOK
<1>4. Carried(x)
  BY <1>1, <1>3 DEF Carried, Phases
<1>5. UNCHANGED <<inputs, tables>> /\ raced' \subseteq Pumps
  BY DEF ReadGold, IInv, TypeOK
<1> HIDE DEF x
<1> QED  BY <1>2, <1>4, <1>5, ReadingKeeps DEF x

LEMMA BeginOrderKeeps ==
  ASSUME IInv, NEW s \in Requests, NEW p \in Pumps, BeginOrder(s, p)
  PROVE  IInv'
<1>1. CASE prediction[p] = None
  BY <1>1, BeginKeeps DEF BeginOrder
<1>2. CASE prediction[p] # None
  <2> DEFINE x == [pc |-> "order", pump |-> p, scored |-> prediction[p]]
  <2>1. Fits(prediction[p])
    BY <1>2 DEF IInv, ScoresAreInRange, Fits
  <2>2. Carried(x)
    BY <2>1 DEF Carried, Phases
  <2>3. Become(s, x) /\ UNCHANGED <<inputs, tables>> /\ raced' \subseteq Pumps
    BY <1>2 DEF BeginOrder, IInv, TypeOK
  <2> HIDE DEF x
  <2> QED  BY <2>2, <2>3, ReadingKeeps
<1> QED  BY <1>1, <1>2

LEMMA EstimateKeeps ==
  ASSUME IInv, NEW s \in Requests, NEW p \in Pumps, EstimateLife(s, p)
  PROVE  IInv'
<1>1. PICK v \in Features(p) :
        IF IsVector(v) THEN Become(s, [pc |-> "record life", pump |-> p,
                                       life |-> Life(v.hdi, v.vib, v.count)])
        ELSE Finish(s)
  BY DEF EstimateLife
<1>2. UNCHANGED <<inputs, tables>> /\ raced' \subseteq Pumps
  BY DEF EstimateLife, IInv, TypeOK
<1>3. CASE IsVector(v)
  <2> DEFINE life == Life(v.hdi, v.vib, v.count)
             x == [pc |-> "record life", pump |-> p, life |-> life]
  <2>1. v.vib \in Nat /\ v.hdi \in Indices /\ v.count \in Int
    BY <1>3, VectorsAreTyped DEF IInv
  <2>2. v.vib \in Int /\ v.hdi \in Int
    BY <2>1, NamedRanges
  <2>3. life \in Lives
    BY <2>1, <2>2, LifeRange
  <2>4. Become(s, x)
    BY <1>1, <1>3
  <2> HIDE DEF life
  <2>5. Carried(x)
    BY <2>3 DEF Carried, Phases
  <2> HIDE DEF x
  <2> QED  BY <1>2, <2>4, <2>5, ReadingKeeps
<1>4. CASE ~IsVector(v)
  BY <1>1, <1>2, <1>4, EndedIsFit, ReadingKeeps DEF Finish
<1> QED  BY <1>3, <1>4

LEMMA ExplainKeeps ==
  ASSUME IInv, NEW s \in Requests, NEW p \in Pumps, Explain(s, p)
  PROVE  IInv'
<1>1. PICK row \in NewestRow(p) : Become(s, [pc |-> "explain", pump |-> p, row |-> row])
  BY DEF Explain
<1>2. row \in GoldRows \cup {None}
  BY RowsAreReadings DEF IInv
<1>3. Carried([pc |-> "explain", pump |-> p, row |-> row])
  BY <1>2 DEF Carried, Phases
<1> QED  BY <1>1, <1>3, ReadingKeeps DEF Explain, IInv, TypeOK

LEMMA EvaluateKeeps ==
  ASSUME IInv, NEW s \in Requests, NEW p \in Pumps, Evaluate(s, p)
  PROVE  IInv'
<1>1. PICK v \in Features(p) :
        IF IsVector(v) THEN Become(s, [pc |-> "thresholds", pump |-> p, vib |-> v.vib, hdi |-> v.hdi])
        ELSE Finish(s)
  BY DEF Evaluate
<1>2. Carried([pc |-> "thresholds", pump |-> p, vib |-> v.vib, hdi |-> v.hdi])
  BY DEF Carried, Phases
<1>3. UNCHANGED <<inputs, tables>> /\ raced' \subseteq Pumps
  BY DEF Evaluate, IInv, TypeOK
<1> QED  BY <1>1, <1>2, <1>3, EndedIsFit, ReadingKeeps DEF Finish

-----------------------------------------------------------------------------
(* Steps that store a row, and the writers around the chain.               *)

\* A stored order is for a failing pump and has its priority.
NamesFault(o) ==
  /\ o.risk >= 3500 /\ o.class # "normal"
  /\ o.priority = "high" <=> o.risk >= 8500

LEMMA RecordIndexKeeps ==
  ASSUME IInv, NEW s \in Requests, RecordIndex(s)
  PROVE  IInv'
<1> DEFINE t == tx[s]
           x == [pc |-> "gold", pump |-> t.pump, goal |-> t.goal, hdi |-> Quoted(t.hdi)]
<1>1. t.pump \in Pumps /\ t.hdi \in Indices
  <2>1. t.pc = "record index" /\ Carried(t)
    BY WhatIsCarried DEF RecordIndex
  <2> QED  BY <2>1 DEF Carried, Phases
<1>2. Carried(x)
  <2>1. Quoted(t.hdi) \in Quotes
    BY <1>1, QuotedRange
  <2> QED  BY <1>1, <2>1 DEF Carried, Phases
<1>3. /\ Become(s, x)
      /\ deviation' = [deviation EXCEPT ![t.pump] = t.hdi]
      /\ UNCHANGED <<gold, window, count, prediction, estimate, attribution, alert, order, raced>>
  BY DEF RecordIndex, inputs
<1> HIDE DEF t, x
<1>4. RequestsAreFit'
  BY <1>2, <1>3, OneBecomes DEF IInv
<1>5. TypeOK'
  <2>1. t.hdi \in Indices \cup {None}
    BY <1>1
  <2> QED  BY <1>1, <1>3, <2>1 DEF IInv, TypeOK
<1>6. ScoresAreInRange'
  <2>1. \A p \in Pumps : deviation'[p] # None => deviation'[p] \in Indices
    BY <1>1, <1>3 DEF IInv, TypeOK
  <2> QED  BY <1>3, <2>1 DEF IInv, ScoresAreInRange
<1>7. OrdersNameFaults'
  BY <1>3 DEF IInv, OrdersNameFaults
<1> QED  BY <1>4, <1>5, <1>6, <1>7 DEF IInv

LEMMA RecordPredictionKeeps ==
  ASSUME IInv, NEW s \in Requests, RecordPrediction(s)
  PROVE  IInv'
<1> DEFINE t == tx[s]
           scored == Scored(t.hdi, t.row, t.count)
           x == IF t.goal = "order"
                THEN [pc |-> "order", pump |-> t.pump, scored |-> scored] ELSE Ended
<1>1. /\ t.pump \in Pumps /\ t.hdi \in Quotes
      /\ t.row \in GoldRows \cup {None} /\ t.count \in Int
  <2>1. t.pc = "record prediction" /\ Carried(t)
    BY WhatIsCarried DEF RecordPrediction
  <2> QED  BY <2>1 DEF Carried, Phases
<1>2. Fits(scored)
  BY <1>1, ScoredFits
<1>3. /\ Become(s, x)
      /\ prediction' = [prediction EXCEPT ![t.pump] = scored]
      /\ UNCHANGED <<gold, window, count, deviation, estimate, attribution, alert, order, raced>>
  BY DEF RecordPrediction, inputs
<1> HIDE DEF t, scored
<1>4. Carried(x)
  BY <1>1, <1>2, EndedIsFit DEF Carried, Phases
<1> HIDE DEF x
<1>5. RequestsAreFit'
  BY <1>3, <1>4, OneBecomes DEF IInv
<1>6. TypeOK'
  <2>1. scored \in Prediction \cup {None}
    BY <1>2 DEF Fits
  <2> QED  BY <1>1, <1>3, <2>1 DEF IInv, TypeOK
<1>7. ScoresAreInRange'
  <2>1. \A p \in Pumps : prediction'[p] # None =>
          prediction'[p] \in Prediction
            /\ (prediction'[p].class = "normal" <=> prediction'[p].risk < 3500)
    BY <1>1, <1>2, <1>3 DEF IInv, TypeOK, ScoresAreInRange, Fits
  <2> QED  BY <1>3, <2>1 DEF IInv, ScoresAreInRange
<1>8. OrdersNameFaults'
  BY <1>3 DEF IInv, OrdersNameFaults
<1> QED  BY <1>5, <1>6, <1>7, <1>8 DEF IInv

LEMMA RaiseOrderKeeps ==
  ASSUME IInv, NEW s \in Requests, RaiseOrder(s)
  PROVE  IInv'
<1> DEFINE t == tx[s]
           new == [risk |-> t.scored.risk, class |-> t.scored.class,
                   priority |-> OrderPriority(t.scored.risk), alert |-> alert[t.pump]]
<1>1. t.pump \in Pumps /\ Fits(t.scored)
  <2>1. t.pc = "order" /\ Carried(t)
    BY WhatIsCarried DEF RaiseOrder
  <2> QED  BY <2>1 DEF Carried, Phases
<1>2. /\ Become(s, Ended)
      /\ UNCHANGED <<gold, window, count, deviation, prediction, estimate, attribution, alert, raced>>
      /\ order' = IF DeservesOrder(t.scored.risk, t.scored.class)
                  THEN [order EXCEPT ![t.pump] = new] ELSE order
  BY DEF RaiseOrder, Finish, inputs
<1> HIDE DEF t
<1>3. /\ t.scored.risk \in Probabilities /\ t.scored.class \in Classes
      /\ t.scored.class = "normal" <=> t.scored.risk < 3500
  BY <1>1 DEF Fits, Prediction
<1>4. DeservesOrder(t.scored.risk, t.scored.class) => NamesFault(new)
  <2>1. t.scored.risk \in Int
    BY <1>3, NamedRanges
  <2> QED  BY <1>3, <2>1 DEF DeservesOrder, OrderPriority, NamesFault
<1>9. new \in Order
  <2>1. alert[t.pump] \in Kinds \cup {None}
    BY <1>1 DEF IInv, TypeOK
  <2>2. OrderPriority(t.scored.risk) \in {"normal", "high"}
    BY DEF OrderPriority
  <2> QED  BY <1>3, <2>1, <2>2 DEF Order
<1> HIDE DEF new
<1>5. RequestsAreFit'
  BY <1>2, EndedIsFit, OneBecomes DEF IInv
<1>6. TypeOK'
  BY <1>1, <1>2, <1>9 DEF IInv, TypeOK
<1>7. ScoresAreInRange'
  BY <1>2 DEF IInv, ScoresAreInRange
<1>8. OrdersNameFaults'
  <2>1. \A p \in Pumps : order'[p] # None => NamesFault(order'[p])
    BY <1>1, <1>2, <1>4 DEF IInv, TypeOK, OrdersNameFaults, NamesFault
  <2> QED  BY <2>1 DEF OrdersNameFaults, NamesFault
<1> QED  BY <1>5, <1>6, <1>7, <1>8 DEF IInv

LEMMA RecordLifeKeeps ==
  ASSUME IInv, NEW s \in Requests, RecordLife(s)
  PROVE  IInv'
<1> DEFINE t == tx[s]
           new == [life |-> t.life, lower |-> LifeBounds(t.life).lower, upper |-> LifeBounds(t.life).upper]
<1>1. t.pump \in Pumps /\ t.life \in Lives
  <2>1. t.pc = "record life" /\ Carried(t)
    BY WhatIsCarried DEF RecordLife
  <2> QED  BY <2>1 DEF Carried, Phases
<1>2. /\ Become(s, Ended)
      /\ UNCHANGED <<gold, window, count, deviation, prediction, attribution, alert, order, raced>>
      /\ estimate' = [estimate EXCEPT ![t.pump] = new]
  BY DEF RecordLife, Finish, inputs
<1> HIDE DEF t
<1>3. new \in Estimate /\ new.lower <= new.life /\ new.life <= new.upper
  <2> DEFINE life == t.life
  <2>1. life \in Int /\ 100 <= life /\ life <= 36500 /\ life \in Lives
    BY <1>1, NamedRanges
  <2> HIDE DEF life
  <2>2. /\ LifeBounds(life).lower \in Nat /\ LifeBounds(life).upper \in Nat
        /\ LifeBounds(life).lower <= life /\ life <= LifeBounds(life).upper
    BY <2>1, LifeBoundsOrder
  <2> QED  BY <2>1, <2>2 DEF Estimate, life
<1> HIDE DEF new
<1>4. RequestsAreFit'
  BY <1>2, EndedIsFit, OneBecomes DEF IInv
<1>5. TypeOK'
  BY <1>1, <1>2, <1>3 DEF IInv, TypeOK
<1>6. ScoresAreInRange'
  <2>1. \A p \in Pumps : estimate'[p] # None =>
          /\ estimate'[p] \in Estimate
          /\ estimate'[p].lower <= estimate'[p].life /\ estimate'[p].life <= estimate'[p].upper
    BY <1>1, <1>2, <1>3 DEF IInv, TypeOK, ScoresAreInRange
  <2> QED  BY <1>2, <2>1 DEF IInv, ScoresAreInRange
<1>7. OrdersNameFaults'
  BY <1>2 DEF IInv, OrdersNameFaults
<1> QED  BY <1>4, <1>5, <1>6, <1>7 DEF IInv

LEMMA RecordAttributionKeeps ==
  ASSUME IInv, NEW s \in Requests, RecordAttribution(s)
  PROVE  IInv'
<1> DEFINE t == tx[s]
           hdi == IF deviation[t.pump] = None THEN 100 ELSE Quoted(deviation[t.pump])
           share == Shares(Components(Shap(hdi, VibOf(t.row), TempOf(t.row))))
           new == [share |-> share, top |-> TopComponent(share), hdi |-> hdi]
<1>1. t.pump \in Pumps /\ t.row \in GoldRows \cup {None}
  <2>1. t.pc = "explain" /\ Carried(t)
    BY WhatIsCarried DEF RecordAttribution
  <2> QED  BY <2>1 DEF Carried, Phases
<1>2. /\ Become(s, Ended)
      /\ UNCHANGED <<gold, window, count, deviation, prediction, estimate, alert, order, raced>>
      /\ attribution' = [attribution EXCEPT ![t.pump] = new]
  BY DEF RecordAttribution, Finish, inputs
<1> HIDE DEF t
<1>3. hdi \in Quotes
  <2>1. deviation[t.pump] # None => deviation[t.pump] \in Indices
    BY <1>1 DEF IInv, TypeOK
  <2>2. 100 \in Quotes
    BY DEF Quotes
  <2> QED  BY <2>1, <2>2, QuotedRange
<1> HIDE DEF hdi
<1>4. VibOf(t.row) \in Nat /\ TempOf(t.row) \in Int
  BY <1>1, StoredRows
<1>5. /\ share \in [Parts -> Indices]
      /\ Total(share) \in 998 .. 1002
      /\ TopComponent(share) \in Parts
      /\ \A c \in Parts : share[c] <= share[TopComponent(share)]
  BY <1>3, <1>4, AttributionFits
<1> HIDE DEF share
<1>6. /\ new \in Attribution
      /\ Total(new.share) \in 998 .. 1002
      /\ \A c \in DOMAIN new.share : new.share[c] <= new.share[new.top]
  BY <1>3, <1>5 DEF Attribution, Parts
<1> HIDE DEF new
<1>7. RequestsAreFit'
  BY <1>2, EndedIsFit, OneBecomes DEF IInv
<1>8. TypeOK'
  BY <1>1, <1>2, <1>6 DEF IInv, TypeOK
<1>9. ScoresAreInRange'
  <2>1. \A p \in Pumps : attribution'[p] # None =>
          LET a == attribution'[p] IN
          /\ a \in Attribution
          /\ Total(a.share) \in 998 .. 1002
          /\ \A c \in DOMAIN a.share : a.share[c] <= a.share[a.top]
    <3> TAKE p \in Pumps
    <3>1. CASE p = t.pump
      <4>1. attribution'[p] = new
        BY <1>1, <1>2, <3>1 DEF IInv, TypeOK
      <4> QED  BY <1>6, <4>1
    <3>2. CASE p # t.pump
      <4>1. attribution'[p] = attribution[p]
        BY <1>1, <1>2, <3>2 DEF IInv, TypeOK
      <4> QED  BY <4>1 DEF IInv, ScoresAreInRange
    <3> QED  BY <3>1, <3>2
  <2> QED  BY <1>2, <2>1 DEF IInv, ScoresAreInRange
<1>10. OrdersNameFaults'
  BY <1>2 DEF IInv, OrdersNameFaults
<1> QED  BY <1>7, <1>8, <1>9, <1>10 DEF IInv

\* An alert is of one of the three kinds and disturbs no score.
LEMMA AlertKeeps ==
  ASSUME IInv, NEW s \in Requests, NEW x, Carried(x), Become(s, x),
         NEW p \in Pumps, NEW kind \in Kinds,
         alert' \in {alert, [alert EXCEPT ![p] = kind]},
         UNCHANGED <<gold, window, count, deviation, prediction, estimate, attribution, order, raced>>
  PROVE  IInv'
<1>1. RequestsAreFit'
  BY OneBecomes DEF IInv
<1>2. TypeOK'
  BY DEF IInv, TypeOK
<1>3. ScoresAreInRange' /\ OrdersNameFaults'
  BY DEF IInv, ScoresAreInRange, OrdersNameFaults
<1> QED  BY <1>1, <1>2, <1>3 DEF IInv

LEMMA RaiseThresholdKeeps ==
  ASSUME IInv, NEW s \in Requests, RaiseThreshold(s)
  PROVE  IInv'
<1> DEFINE t == tx[s]
           p == t.pump
           level == IF prediction[p] = None THEN 1000 ELSE prediction[p].risk
           kind == ThresholdAlert(t.vib, t.hdi, level, VibrationLimit)
           x == IF estimate[p] # None /\ LowLife(estimate[p].life)
                THEN [pc |-> "low life", pump |-> p] ELSE Ended
<1>1. p \in Pumps
  BY WhatIsCarried DEF Phases, RaiseThreshold
<1>2. /\ alert' = IF kind = "none" THEN alert ELSE [alert EXCEPT ![p] = kind]
      /\ Become(s, x)
      /\ UNCHANGED <<gold, window, count, deviation, prediction, estimate, attribution, order, raced>>
  BY DEF RaiseThreshold, inputs
<1>3. kind \in Kinds \cup {"none"}
  BY DEF ThresholdAlert, Kinds
<1>4. Carried(x)
  BY <1>1, EndedIsFit DEF Carried, Phases
<1> HIDE DEF p, kind, x
<1>5. CASE kind = "none"
  <2>1. "critical" \in Kinds /\ alert' = alert
    BY <1>2, <1>5 DEF Kinds
  <2> QED  BY <1>1, <1>2, <1>4, <2>1, AlertKeeps
<1>6. CASE kind # "none"
  BY <1>1, <1>2, <1>3, <1>4, <1>6, AlertKeeps
<1> QED  BY <1>5, <1>6

LEMMA RaiseLowLifeKeeps ==
  ASSUME IInv, NEW s \in Requests, RaiseLowLife(s)
  PROVE  IInv'
<1>1. tx[s].pump \in Pumps
  BY WhatIsCarried DEF Phases, RaiseLowLife
<1>2. "low life" \in Kinds
  BY DEF Kinds
<1> QED  BY <1>1, <1>2, EndedIsFit, AlertKeeps DEF RaiseLowLife, Finish, inputs

LEMMA WritersKeep ==
  ASSUME IInv, NEW p \in Pumps,
         \/ \E row \in GoldRows : StoreGold(p, row)
         \/ \E vib \in Windows : NewWindow(p, vib)
         \/ WindowAges(p)
         \/ \E n \in Counts : PatchPump(p, n)
  PROVE  IInv'
<1>1. UNCHANGED <<deviation, prediction, estimate, attribution, alert, order, tx, raced>>
  BY DEF StoreGold, NewWindow, WindowAges, PatchPump, tables
<1>2. gold' \in [Pumps -> SUBSET GoldRows]
  BY DEF IInv, TypeOK, StoreGold, NewWindow, WindowAges, PatchPump
<1>3. window' \in [Pumps -> [vib : Windows, fresh : BOOLEAN] \cup {None}]
  <2>1. CASE WindowAges(p)
    <3>1. window[p] \in [vib : Windows, fresh : BOOLEAN]
      BY <2>1 DEF WindowAges, IInv, TypeOK
    <3>2. window' = [window EXCEPT ![p] = [window[p] EXCEPT !.fresh = FALSE]]
      BY <2>1 DEF WindowAges
    <3>3. [window[p] EXCEPT !.fresh = FALSE] \in [vib : Windows, fresh : BOOLEAN]
      BY <3>1
    <3> QED  BY <3>2, <3>3 DEF IInv, TypeOK
  <2>2. CASE \E vib \in Windows : NewWindow(p, vib)
    <3>1. PICK vib \in Windows : window' = [window EXCEPT ![p] = [vib |-> vib, fresh |-> TRUE]]
      BY <2>2 DEF NewWindow
    <3> QED  BY <3>1 DEF IInv, TypeOK
  <2>3. CASE (\E row \in GoldRows : StoreGold(p, row)) \/ \E n \in Counts : PatchPump(p, n)
    BY <2>3 DEF IInv, TypeOK, StoreGold, PatchPump
  <2> QED  BY <2>1, <2>2, <2>3
<1>4. count' \in [Pumps -> Int]
  BY PumpData DEF IInv, TypeOK, StoreGold, NewWindow, WindowAges, PatchPump
<1>5. TypeOK'
  BY <1>1, <1>2, <1>3, <1>4 DEF IInv, TypeOK
<1>6. RequestsAreFit'
  BY <1>1 DEF IInv, RequestsAreFit
<1>7. ScoresAreInRange' /\ OrdersNameFaults'
  BY <1>1 DEF IInv, ScoresAreInRange, OrdersNameFaults
<1> QED  BY <1>5, <1>6, <1>7 DEF IInv

LEMMA StepKeeps == IInv /\ [Next]_vars => IInv'
<1> SUFFICES ASSUME IInv, [Next]_vars PROVE IInv'
  OBVIOUS
<1>1. CASE \E s \in Requests : Request(s)
  <2> PICK s \in Requests : Request(s)
    BY <1>1
  <2>1. CASE \E p \in Pumps : Predict(s, p) \/ BeginOrder(s, p) \/ EstimateLife(s, p)
                                \/ Explain(s, p) \/ Evaluate(s, p)
    BY <2>1, PredictKeeps, BeginOrderKeeps, EstimateKeeps, ExplainKeeps, EvaluateKeeps
  <2>2. CASE Measure(s) \/ RecordIndex(s) \/ ReadGold(s) \/ RecordPrediction(s)
    BY <2>2, MeasureKeeps, RecordIndexKeeps, ReadGoldKeeps, RecordPredictionKeeps
  <2>3. CASE RaiseOrder(s) \/ RecordLife(s) \/ RecordAttribution(s) \/ RaiseThreshold(s) \/ RaiseLowLife(s)
    BY <2>3, RaiseOrderKeeps, RecordLifeKeeps, RecordAttributionKeeps, RaiseThresholdKeeps,
       RaiseLowLifeKeeps
  <2> QED  BY <2>1, <2>2, <2>3 DEF Request
<1>2. CASE \E p \in Pumps, row \in GoldRows : StoreGold(p, row)
  BY <1>2, WritersKeep
<1>3. CASE \E p \in Pumps, vib \in Windows : NewWindow(p, vib)
  BY <1>3, WritersKeep
<1>4. CASE \E p \in Pumps : WindowAges(p)
  BY <1>4, WritersKeep
<1>5. CASE \E p \in Pumps, n \in Counts : PatchPump(p, n)
  BY <1>5, WritersKeep
<1>6. CASE UNCHANGED vars
  <2>1. TypeOK' /\ ScoresAreInRange' /\ OrdersNameFaults'
    BY <1>6 DEF vars, IInv, TypeOK, ScoresAreInRange, OrdersNameFaults
  <2>2. RequestsAreFit'
    BY <1>6 DEF vars, IInv, RequestsAreFit
  <2> QED  BY <2>1, <2>2 DEF IInv
<1> QED  BY <1>1, <1>2, <1>3, <1>4, <1>5, <1>6 DEF Next

LEMMA Inductive == Spec => []IInv
BY InitIsFit, StepKeeps, PTL DEF Spec

\* Type correctness, for any pumps, gold rows, windows and requests.
THEOREM ChainTypeCorrect == Spec => []TypeOK
<1>1. IInv => TypeOK
  BY DEF IInv
<1> QED  BY <1>1, Inductive, PTL

\* Every stored score is in its range, whatever gold, windows and the pump's
\* data hold and however requests overlap.
THEOREM ScoresStayInRange == Spec => []ScoresAreInRange
<1>1. IInv => ScoresAreInRange
  BY DEF IInv
<1> QED  BY <1>1, Inductive, PTL

\* Every order the chain raises is for a pump that is classified as failing, at a
\* risk of 0.35 at least: not the 0.70 that its docstring names.
THEOREM OrdersAlwaysNameFaults == Spec => []OrdersNameFaults
<1>1. IInv => OrdersNameFaults
  BY DEF IInv
<1> QED  BY <1>1, Inductive, PTL

-----------------------------------------------------------------------------
(* One index: of requests that do not overlap in the first prediction of a *)
(* pump, one measures, and the others cite what it recorded.               *)

Measures(t, p) == t.pc \in {"measure", "record index"} /\ t.pump = p
Cites(t, p) == t.pc \in {"gold", "record prediction"} /\ t.pump = p
QuotesIndex(hdi, p) == deviation[p] # None /\ hdi = Quoted(deviation[p])

IndexIsOne(p) ==
  /\ \A r, s \in Requests : Measures(tx[r], p) /\ Measures(tx[s], p) => r = s
  /\ \A s \in Requests : Measures(tx[s], p) => deviation[p] = None
  /\ \A s \in Requests : Cites(tx[s], p) => QuotesIndex(tx[s].hdi, p)
  /\ prediction[p] # None => QuotesIndex(prediction[p].hdi, p)
  /\ attribution[p] # None /\ attribution[p].hdi # 100 => QuotesIndex(attribution[p].hdi, p)

\* A request moves on and leaves the index alone.
LEMMA MoveIsOne ==
  ASSUME IInv, NEW p \in Pumps, IndexIsOne(p), NEW s \in Requests, NEW x, Become(s, x),
         UNCHANGED deviation,
         Measures(x, p) => deviation[p] = None /\ \A r \in Requests \ {s} : ~Measures(tx[r], p),
         Cites(x, p) => QuotesIndex(x.hdi, p),
         prediction'[p] # None => QuotesIndex(prediction'[p].hdi, p),
         attribution'[p] # None /\ attribution'[p].hdi # 100 => QuotesIndex(attribution'[p].hdi, p)
  PROVE  IndexIsOne(p)'
<1>1. tx'[s] = x /\ \A r \in Requests \ {s} : tx'[r] = tx[r]
  BY DEF IInv, RequestsAreFit, Become
<1>2. \A hdi : QuotesIndex(hdi, p) => deviation'[p] # None /\ hdi = Quoted(deviation'[p])
  BY DEF QuotesIndex
<1>3. \A q, r \in Requests : Measures(tx'[q], p) /\ Measures(tx'[r], p) => q = r
  BY <1>1 DEF IndexIsOne
<1>4. \A r \in Requests : Measures(tx'[r], p) => deviation'[p] = None
  BY <1>1 DEF IndexIsOne
<1>5. \A r \in Requests : Cites(tx'[r], p) => QuotesIndex(tx'[r].hdi, p)
  BY <1>1 DEF IndexIsOne
<1> QED  BY <1>2, <1>3, <1>4, <1>5 DEF IndexIsOne, QuotesIndex, Measures, Cites

\* What the other rows and requests say is left alone.
LEMMA PlainMoveIsOne ==
  ASSUME IInv, NEW p \in Pumps, IndexIsOne(p), NEW s \in Requests, NEW x, Become(s, x),
         UNCHANGED <<deviation, prediction, attribution>>,
         x.pc \notin {"measure", "record index", "gold", "record prediction"}
  PROVE  IndexIsOne(p)'
<1>1. ~Measures(x, p) /\ ~Cites(x, p)
  BY DEF Measures, Cites
<1>2. /\ prediction'[p] # None => QuotesIndex(prediction'[p].hdi, p)
      /\ attribution'[p] # None /\ attribution'[p].hdi # 100 => QuotesIndex(attribution'[p].hdi, p)
  BY DEF IndexIsOne
<1> QED  BY <1>1, <1>2, MoveIsOne

LEMMA PlainStepIsOne ==
  ASSUME IInv, NEW p \in Pumps, IndexIsOne(p), NEW s \in Requests,
         \/ RaiseOrder(s) \/ RecordLife(s) \/ RaiseThreshold(s) \/ RaiseLowLife(s)
         \/ \E q \in Pumps : EstimateLife(s, q) \/ Explain(s, q) \/ Evaluate(s, q)
  PROVE  IndexIsOne(p)'
<1> DEFINE Plain(x) == x.pc \notin {"measure", "record index", "gold", "record prediction"}
<1>1. Plain(Ended)
  BY DEF Ended
<1>2. \E x : Become(s, x) /\ Plain(x)
  <2>1. CASE RaiseOrder(s) \/ RecordLife(s) \/ RaiseLowLife(s)
    BY <1>1, <2>1 DEF RaiseOrder, RecordLife, RaiseLowLife, Finish
  <2>2. CASE RaiseThreshold(s)
    <3> PICK y : y = [pc |-> "low life", pump |-> tx[s].pump]
      OBVIOUS
    <3>1. Become(s, y) \/ Become(s, Ended)
      BY <2>2 DEF RaiseThreshold
    <3>2. Plain(y)
      OBVIOUS
    <3> QED  BY <1>1, <3>1, <3>2
  <2>3. ASSUME NEW q \in Pumps, EstimateLife(s, q)
        PROVE  \E x : Become(s, x) /\ Plain(x)
    <3>1. \/ Become(s, Ended)
          \/ \E v \in Features(q) :
               Become(s, [pc |-> "record life", pump |-> q, life |-> Life(v.hdi, v.vib, v.count)])
      BY <2>3 DEF EstimateLife, Finish
    <3>2. ASSUME NEW v \in Features(q), NEW y, y = [pc |-> "record life", pump |-> q, life |-> Life(v.hdi, v.vib, v.count)]
          PROVE  Plain(y)
      BY <3>2
    <3> QED  BY <1>1, <3>1, <3>2
  <2>4. ASSUME NEW q \in Pumps, Explain(s, q)
        PROVE  \E x : Become(s, x) /\ Plain(x)
    <3>1. PICK row \in NewestRow(q) : Become(s, [pc |-> "explain", pump |-> q, row |-> row])
      BY <2>4 DEF Explain
    <3> PICK y : y = [pc |-> "explain", pump |-> q, row |-> row]
      OBVIOUS
    <3>2. Plain(y)
      OBVIOUS
    <3> QED  BY <3>1, <3>2
  <2>5. ASSUME NEW q \in Pumps, Evaluate(s, q)
        PROVE  \E x : Become(s, x) /\ Plain(x)
    <3>1. \/ Become(s, Ended)
          \/ \E v \in Features(q) :
               Become(s, [pc |-> "thresholds", pump |-> q, vib |-> v.vib, hdi |-> v.hdi])
      BY <2>5 DEF Evaluate, Finish
    <3>2. ASSUME NEW v \in Features(q), NEW y, y = [pc |-> "thresholds", pump |-> q, vib |-> v.vib, hdi |-> v.hdi]
          PROVE  Plain(y)
      BY <3>2
    <3> QED  BY <1>1, <3>1, <3>2
  <2> QED  BY <2>1, <2>2, <2>3, <2>4, <2>5
<1>3. UNCHANGED <<deviation, prediction, attribution>>
  BY DEF RaiseOrder, RecordLife, RaiseThreshold, RaiseLowLife, EstimateLife, Explain, Evaluate, tables
<1> QED  BY <1>2, <1>3, PlainMoveIsOne

\* A first prediction measures; every later one cites the index.
LEMMA BeginIsOne ==
  ASSUME IInv, NEW p \in Pumps, IndexIsOne(p), NEW s \in Requests, NEW q \in Pumps, NEW goal,
         BeginPrediction(s, q, goal), UNCHANGED tables, p \notin raced'
  PROVE  IndexIsOne(p)'
<1>1. /\ prediction'[p] # None => QuotesIndex(prediction'[p].hdi, p)
      /\ attribution'[p] # None /\ attribution'[p].hdi # 100 => QuotesIndex(attribution'[p].hdi, p)
      /\ UNCHANGED deviation
  BY DEF IndexIsOne, tables
<1>2. CASE deviation[q] = None
  <2> PICK x : x = [pc |-> "measure", pump |-> q, goal |-> goal]
    OBVIOUS
  <2>1. Become(s, x) /\ x.pc = "measure" /\ x.pump = q
    BY <1>2 DEF BeginPrediction, NeedsIndex
  <2>2. ~Cites(x, p) /\ (Measures(x, p) => p = q)
    BY <2>1 DEF Cites, Measures
  <2>3. p = q => \A r \in Requests \ {s} : ~Measures(tx[r], p)
    BY <1>2 DEF BeginPrediction, Measuring, Measures
  <2> QED  BY <1>1, <1>2, <2>1, <2>2, <2>3, MoveIsOne
<1>3. CASE deviation[q] # None
  <2> PICK x : x = [pc |-> "gold", pump |-> q, goal |-> goal, hdi |-> Quoted(deviation[q])]
    OBVIOUS
  <2>1. Become(s, x) /\ x.pc = "gold" /\ x.pump = q /\ x.hdi = Quoted(deviation[q])
    BY <1>3 DEF BeginPrediction, NeedsIndex
  <2>2. ~Measures(x, p) /\ (Cites(x, p) => QuotesIndex(x.hdi, p))
    BY <1>3, <2>1 DEF Cites, Measures, QuotesIndex
  <2> QED  BY <1>1, <2>1, <2>2, MoveIsOne
<1> QED  BY <1>2, <1>3

LEMMA BeginOrderIsOne ==
  ASSUME IInv, NEW p \in Pumps, IndexIsOne(p), NEW s \in Requests, NEW q \in Pumps,
         BeginOrder(s, q), p \notin raced'
  PROVE  IndexIsOne(p)'
<1>1. UNCHANGED tables
  BY DEF BeginOrder
<1>2. CASE prediction[q] = None
  BY <1>1, <1>2, BeginIsOne DEF BeginOrder
<1>3. CASE prediction[q] # None
  <2> PICK x : x = [pc |-> "order", pump |-> q, scored |-> prediction[q]]
    OBVIOUS
  <2>1. Become(s, x) /\ x.pc = "order"
    BY <1>3 DEF BeginOrder
  <2> QED  BY <1>1, <2>1, PlainMoveIsOne DEF tables
<1> QED  BY <1>2, <1>3

LEMMA MeasureIsOne ==
  ASSUME IInv, NEW p \in Pumps, IndexIsOne(p), NEW s \in Requests, Measure(s)
  PROVE  IndexIsOne(p)'
<1>1. /\ prediction'[p] # None => QuotesIndex(prediction'[p].hdi, p)
      /\ attribution'[p] # None /\ attribution'[p].hdi # 100 => QuotesIndex(attribution'[p].hdi, p)
      /\ UNCHANGED deviation
  BY DEF IndexIsOne, Measure, tables
<1> PICK hdi : Become(s, [pc |-> "record index", pump |-> tx[s].pump, goal |-> tx[s].goal, hdi |-> hdi])
  BY DEF Measure
<1> PICK x : x = [pc |-> "record index", pump |-> tx[s].pump, goal |-> tx[s].goal, hdi |-> hdi]
  OBVIOUS
<1>2. Become(s, x) /\ x.pc = "record index" /\ x.pump = tx[s].pump
  OBVIOUS
<1>3. tx[s].pc = "measure"
  BY DEF Measure
<1>4. ~Cites(x, p) /\ (Measures(x, p) => Measures(tx[s], p))
  BY <1>2, <1>3 DEF Cites, Measures
<1>5. Measures(x, p) => deviation[p] = None /\ \A r \in Requests \ {s} : ~Measures(tx[r], p)
  BY <1>4 DEF IndexIsOne
<1> QED  BY <1>1, <1>2, <1>4, <1>5, MoveIsOne

LEMMA ReadGoldIsOne ==
  ASSUME IInv, NEW p \in Pumps, IndexIsOne(p), NEW s \in Requests, ReadGold(s)
  PROVE  IndexIsOne(p)'
<1>1. /\ prediction'[p] # None => QuotesIndex(prediction'[p].hdi, p)
      /\ attribution'[p] # None /\ attribution'[p].hdi # 100 => QuotesIndex(attribution'[p].hdi, p)
      /\ UNCHANGED deviation
  BY DEF IndexIsOne, ReadGold, tables
<1> PICK row : Become(s, [pc |-> "record prediction", pump |-> tx[s].pump, goal |-> tx[s].goal,
                          hdi |-> tx[s].hdi, row |-> row, count |-> count[tx[s].pump]])
  BY DEF ReadGold
<1> PICK x : x = [pc |-> "record prediction", pump |-> tx[s].pump, goal |-> tx[s].goal,
                  hdi |-> tx[s].hdi, row |-> row, count |-> count[tx[s].pump]]
  OBVIOUS
<1>2. Become(s, x) /\ x.pc = "record prediction" /\ x.pump = tx[s].pump /\ x.hdi = tx[s].hdi
  OBVIOUS
<1>3. tx[s].pc = "gold"
  BY DEF ReadGold
<1>4. ~Measures(x, p) /\ (Cites(x, p) => Cites(tx[s], p))
  BY <1>2, <1>3 DEF Cites, Measures
<1>5. Cites(x, p) => QuotesIndex(x.hdi, p)
  BY <1>2, <1>4 DEF IndexIsOne
<1> QED  BY <1>1, <1>2, <1>4, <1>5, MoveIsOne

\* The index is recorded where there was none, and nothing has cited one yet.
LEMMA RecordIndexIsOne ==
  ASSUME IInv, NEW p \in Pumps, IndexIsOne(p), NEW s \in Requests, RecordIndex(s)
  PROVE  IndexIsOne(p)'
<1> PICK t : t = tx[s]
  OBVIOUS
<1> PICK x : x = [pc |-> "gold", pump |-> t.pump, goal |-> t.goal, hdi |-> Quoted(t.hdi)]
  OBVIOUS
<1>1. /\ t.pc = "record index" /\ Become(s, x)
      /\ deviation' = [deviation EXCEPT ![t.pump] = t.hdi]
      /\ UNCHANGED <<prediction, attribution>>
  BY DEF RecordIndex
<1>2. x.pc = "gold" /\ x.pump = t.pump /\ x.hdi = Quoted(t.hdi)
  OBVIOUS
<1>3. CASE t.pump # p
  <2>1. deviation'[p] = deviation[p] /\ prediction' = prediction /\ attribution' = attribution
    BY <1>1, <1>3 DEF IInv, TypeOK
  <2>2. ~Measures(x, p) /\ ~Cites(x, p)
    BY <1>2, <1>3 DEF Measures, Cites
  <2>3. tx'[s] = x /\ \A r \in Requests \ {s} : tx'[r] = tx[r]
    BY <1>1 DEF IInv, RequestsAreFit, Become
  <2>4. /\ \A r \in Requests : Measures(tx'[r], p) => Measures(tx[r], p)
        /\ \A r \in Requests : Cites(tx'[r], p) => Cites(tx[r], p) /\ tx'[r] = tx[r]
    BY <2>2, <2>3
  <2> QED  BY <2>1, <2>4 DEF IndexIsOne, QuotesIndex, Measures, Cites
<1>4. CASE t.pump = p
  <2>1. Measures(tx[s], p)
    BY <1>1, <1>4 DEF Measures
  <2>2. deviation[p] = None
    BY <2>1 DEF IndexIsOne
  <2>3. /\ \A r \in Requests \ {s} : ~Measures(tx[r], p)
        /\ \A r \in Requests : ~Cites(tx[r], p)
        /\ prediction[p] = None /\ (attribution[p] # None => attribution[p].hdi = 100)
    BY <2>1, <2>2 DEF IndexIsOne, QuotesIndex
  <2>4. t.hdi \in Indices
    BY <1>1, WhatIsCarried DEF Carried
  <2>5. t.hdi # None
    BY <2>4, NoneIsNoRow, NamedRanges
  <2>6. deviation'[p] = t.hdi
    BY <1>1, <1>4 DEF IInv, TypeOK
  <2>7. tx'[s] = x /\ \A r \in Requests \ {s} : tx'[r] = tx[r]
    BY <1>1 DEF IInv, RequestsAreFit, Become
  <2>8. ~Measures(x, p)
    BY <1>2 DEF Measures
  <2>9. \A r \in Requests : ~Measures(tx'[r], p)
    BY <2>3, <2>7, <2>8
  <2>10. \A r \in Requests : Cites(tx'[r], p) => tx'[r].hdi = Quoted(deviation'[p])
    BY <1>2, <2>3, <2>6, <2>7
  <2>11. prediction'[p] = None /\ (attribution'[p] # None => attribution'[p].hdi = 100)
    BY <1>1, <2>3
  <2> QED  BY <2>5, <2>6, <2>9, <2>10, <2>11 DEF IndexIsOne, QuotesIndex, Measures, Cites
<1> QED  BY <1>3, <1>4

LEMMA RecordPredictionIsOne ==
  ASSUME IInv, NEW p \in Pumps, IndexIsOne(p), NEW s \in Requests, RecordPrediction(s)
  PROVE  IndexIsOne(p)'
<1> PICK t : t = tx[s]
  OBVIOUS
<1> PICK scored : scored = Scored(t.hdi, t.row, t.count)
  OBVIOUS
<1> PICK y : y = [pc |-> "order", pump |-> t.pump, scored |-> scored]
  OBVIOUS
<1>1. /\ t.pc = "record prediction"
      /\ prediction' = [prediction EXCEPT ![t.pump] = scored]
      /\ Become(s, y) \/ Become(s, Ended)
      /\ UNCHANGED <<deviation, attribution>>
  BY DEF RecordPrediction
<1>2. scored.hdi = t.hdi
  BY DEF Scored
<1>3. ~Measures(y, p) /\ ~Cites(y, p) /\ ~Measures(Ended, p) /\ ~Cites(Ended, p)
  BY DEF Measures, Cites, Ended
<1>4. prediction'[p] # None => QuotesIndex(prediction'[p].hdi, p)
  <2>1. CASE t.pump = p
    <3>1. Cites(tx[s], p)
      BY <1>1, <2>1 DEF Cites
    <3>2. QuotesIndex(t.hdi, p)
      BY <3>1 DEF IndexIsOne
    <3>3. prediction'[p] = scored
      BY <1>1, <2>1 DEF IInv, TypeOK
    <3> QED  BY <1>2, <3>2, <3>3
  <2>2. CASE t.pump # p
    <3>1. prediction'[p] = prediction[p]
      BY <1>1, <2>2 DEF IInv, TypeOK
    <3> QED  BY <3>1 DEF IndexIsOne
  <2> QED  BY <2>1, <2>2
<1>5. attribution'[p] # None /\ attribution'[p].hdi # 100 => QuotesIndex(attribution'[p].hdi, p)
  BY <1>1 DEF IndexIsOne
<1> QED  BY <1>1, <1>3, <1>4, <1>5, MoveIsOne

LEMMA RecordAttributionIsOne ==
  ASSUME IInv, NEW p \in Pumps, IndexIsOne(p), NEW s \in Requests, RecordAttribution(s)
  PROVE  IndexIsOne(p)'
<1> PICK t : t = tx[s]
  OBVIOUS
<1> PICK hdi : hdi = IF deviation[t.pump] = None THEN 100 ELSE Quoted(deviation[t.pump])
  OBVIOUS
<1>1. PICK share, top :
        attribution' = [attribution EXCEPT ![t.pump] = [share |-> share, top |-> top, hdi |-> hdi]]
  BY DEF RecordAttribution
<1>2. Become(s, Ended) /\ UNCHANGED <<deviation, prediction>>
  BY DEF RecordAttribution, Finish
<1>3. ~Measures(Ended, p) /\ ~Cites(Ended, p)
  BY DEF Measures, Cites, Ended
<1>4. attribution'[p] # None /\ attribution'[p].hdi # 100 => QuotesIndex(attribution'[p].hdi, p)
  <2>1. CASE t.pump = p
    <3>1. attribution'[p].hdi = hdi
      BY <1>1, <2>1 DEF IInv, TypeOK
    <3> QED  BY <2>1, <3>1 DEF QuotesIndex
  <2>2. CASE t.pump # p
    <3>1. attribution'[p] = attribution[p]
      BY <1>1, <2>2 DEF IInv, TypeOK
    <3> QED  BY <3>1 DEF IndexIsOne
  <2> QED  BY <2>1, <2>2
<1>5. prediction'[p] # None => QuotesIndex(prediction'[p].hdi, p)
  BY <1>2 DEF IndexIsOne
<1> QED  BY <1>2, <1>3, <1>4, <1>5, MoveIsOne

OneIndex == \A p \in Pumps \ raced : IndexIsOne(p)

LEMMA OneIndexStays == IInv /\ OneIndex /\ [Next]_vars => OneIndex'
<1> SUFFICES ASSUME IInv, OneIndex, [Next]_vars, NEW p \in Pumps, p \notin raced'
             PROVE  IndexIsOne(p)'
  BY DEF OneIndex
<1>1. raced \subseteq raced'
  <2>1. ASSUME NEW s \in Requests, Request(s)
        PROVE  raced \subseteq raced'
    <3>1. CASE \E q \in Pumps : Predict(s, q) \/ BeginOrder(s, q)
      BY <3>1 DEF Predict, BeginOrder, BeginPrediction
    <3>2. CASE \E q \in Pumps : EstimateLife(s, q) \/ Explain(s, q) \/ Evaluate(s, q)
      BY <3>2 DEF EstimateLife, Explain, Evaluate
    <3>3. CASE Measure(s) \/ RecordIndex(s) \/ ReadGold(s) \/ RecordPrediction(s) \/ RaiseOrder(s)
      BY <3>3 DEF Measure, RecordIndex, ReadGold, RecordPrediction, RaiseOrder
    <3>4. CASE RecordLife(s) \/ RecordAttribution(s) \/ RaiseThreshold(s) \/ RaiseLowLife(s)
      BY <3>4 DEF RecordLife, RecordAttribution, RaiseThreshold, RaiseLowLife
    <3> QED  BY <2>1, <3>1, <3>2, <3>3, <3>4 DEF Request
  <2>2. CASE (\E q \in Pumps, row \in GoldRows : StoreGold(q, row))
             \/ (\E q \in Pumps, vib \in Windows : NewWindow(q, vib))
             \/ (\E q \in Pumps : WindowAges(q)) \/ (\E q \in Pumps, n \in Counts : PatchPump(q, n))
    BY <2>2 DEF StoreGold, NewWindow, WindowAges, PatchPump
  <2>3. CASE UNCHANGED vars
    BY <2>3 DEF vars
  <2> QED  BY <2>1, <2>2, <2>3 DEF Next
<1>2. IndexIsOne(p)
  BY <1>1 DEF OneIndex
<1>3. ASSUME NEW s \in Requests, Request(s)
      PROVE  IndexIsOne(p)'
  <2>1. CASE \E q \in Pumps : Predict(s, q) \/ BeginOrder(s, q)
    BY <1>2, <2>1, BeginIsOne, BeginOrderIsOne DEF Predict
  <2>2. CASE Measure(s) \/ RecordIndex(s) \/ ReadGold(s) \/ RecordPrediction(s) \/ RecordAttribution(s)
    BY <1>2, <2>2, MeasureIsOne, RecordIndexIsOne, ReadGoldIsOne, RecordPredictionIsOne,
       RecordAttributionIsOne
  <2>3. CASE \/ RaiseOrder(s) \/ RecordLife(s) \/ RaiseThreshold(s) \/ RaiseLowLife(s)
             \/ \E q \in Pumps : EstimateLife(s, q) \/ Explain(s, q) \/ Evaluate(s, q)
    BY <1>2, <2>3, PlainStepIsOne
  <2> QED  BY <1>3, <2>1, <2>2, <2>3 DEF Request
<1>4. CASE UNCHANGED <<deviation, prediction, attribution, tx>>
  BY <1>2, <1>4 DEF IndexIsOne, QuotesIndex, Measures, Cites
<1>5. (\E s \in Requests : Request(s)) \/ UNCHANGED <<deviation, prediction, attribution, tx>>
  BY DEF Next, StoreGold, NewWindow, WindowAges, PatchPump, vars, tables
<1> QED  BY <1>3, <1>4, <1>5

\* Predictions and explanations of a pump quote one index, whatever gold does
\* and however many requests there are, unless first predictions overlapped.
THEOREM IndexIsQuotedAlike == Spec => []OneDeviation
<1>1. Init => OneIndex
  <2> SUFFICES ASSUME Init, NEW p \in Pumps PROVE IndexIsOne(p)
    BY DEF OneIndex
  <2>1. \A s \in Requests : tx[s].pc = "unsent"
    BY DEF Init, Unsent
  <2>2. \A s \in Requests : ~Measures(tx[s], p) /\ ~Cites(tx[s], p)
    BY <2>1 DEF Measures, Cites
  <2>3. prediction[p] = None /\ attribution[p] = None
    BY DEF Init
  <2> QED  BY <2>2, <2>3 DEF IndexIsOne
<1>2. OneIndex => OneDeviation
  BY DEF OneIndex, IndexIsOne, QuotesIndex, OneDeviation
<1> QED  BY <1>1, <1>2, Inductive, OneIndexStays, PTL DEF Spec

-----------------------------------------------------------------------------
(* The batch of a scheduled scoring run.                                   *)

\* The vector that a request for p alone would get.
Single(p) == BuildVector(Source(p), TRUE)

\* out answers p as a request of its own would be answered.
Answered(p, out) ==
  IF IsVector(Single(p)) THEN p \in DOMAIN out /\ out[p] = Single(p)
  ELSE p \notin DOMAIN out

\* The valid windows are the fresh ones of those that were read, and those of
\* untouched pumps are still the newest.
Selected ==
  /\ batch.valid = {p \in batch.asked \cap Own :
                      batch.window[p] # None /\ batch.window[p].fresh}
  /\ \A p \in (batch.asked \cap Own) \ touched : batch.window[p] = newest[p]

\* What the batch has read or answered of the pumps that nobody touched.
InStage ==
  \/ batch.pc = "idle"
  \/ batch.pc = "weather" /\ Selected
  \/ /\ batch.pc = "risk" /\ Selected
     /\ \A p \in batch.valid \ touched :
          StationOf[p] \in batch.weather <=> StationOf[p] \in weather
  \/ /\ batch.pc = "rest"
     /\ batch = [pc |-> "rest", asked |-> batch.asked, left |-> batch.left, out |-> batch.out]
     /\ batch.left \cap DOMAIN batch.out = {}
     /\ \A p \in (batch.asked \ batch.left) \ touched : Answered(p, batch.out)
  \/ batch.pc = "done" /\ \A p \in batch.asked \ touched : Answered(p, batch.out)

BatchInv ==
  /\ DOMAIN newest = Fleet /\ DOMAIN legacy = Fleet
  /\ batch.pc # "idle" => batch.asked \subseteq Fleet
  /\ InStage

Writes ==
  \/ \E p \in Own : WindowExpires(p)
  \/ \E p \in Own, vib \in Vibrations : StoreWindow(p, vib)
  \/ \E p \in Own, vib \in Averages : StoreLegacy(p, vib)
  \/ \E st \in Stations : StationData(st)

LEMMA ForeignPump ==
  ASSUME NEW p, p \notin Own
  PROVE  Single(p) = Unavailable
BY DEF Single, Source, BuildVector

\* A writer leaves the vector of every pump it does not touch alone.
LEMMA UntouchedKeeps ==
  ASSUME BatchInv, Writes, NEW p \in Fleet, p \notin touched'
  PROVE  /\ p \notin touched /\ batch' = batch /\ Single(p)' = Single(p)
         /\ p \in Own => /\ newest'[p] = newest[p]
                         /\ StationOf[p] \in weather' <=> StationOf[p] \in weather
<1>1. p \notin touched /\ batch' = batch
  BY DEF Writes, WindowExpires, StoreWindow, StoreLegacy, StationData
<1>2. newest'[p] = newest[p] /\ legacy'[p] = legacy[p]
  BY DEF BatchInv, Writes, WindowExpires, StoreWindow, StoreLegacy, StationData
<1>3. p \in Own => /\ StationOf[p] \in weather' <=> StationOf[p] \in weather
                   /\ StationOf[p] \in risk' <=> StationOf[p] \in risk
  BY DEF Writes, WindowExpires, StoreWindow, StoreLegacy, StationData
<1>4. CASE p \in Own
  <2>1. Source(p)' = Source(p)
    BY <1>2, <1>3, <1>4 DEF Source
  <2>2. Single(p)' = Single(p)
    BY <2>1 DEF Single
  <2>3. QED
    BY <1>1, <1>2, <1>3, <2>2
<1>5. CASE p \notin Own
  <2>1. Single(p)' = Unavailable
    BY <1>5 DEF Single, Source, BuildVector
  <2>2. QED
    BY <1>1, <1>5, <2>1, ForeignPump
<1>6. QED
  BY <1>4, <1>5

LEMMA WriterStep == ASSUME BatchInv, Writes PROVE BatchInv'
<1>1. DOMAIN newest' = Fleet /\ DOMAIN legacy' = Fleet
  BY DEF BatchInv, Writes, WindowExpires, StoreWindow, StoreLegacy, StationData
<1>2. batch' = batch
  BY DEF Writes, WindowExpires, StoreWindow, StoreLegacy, StationData
<1>3. batch'.pc # "idle" => batch'.asked \subseteq Fleet
  BY <1>2 DEF BatchInv
<1>4. \A out : \A p \in Fleet : p \notin touched' /\ Answered(p, out) => Answered(p, out)'
  BY UntouchedKeeps DEF Answered
<1>5. Selected /\ batch.asked \subseteq Fleet => Selected'
  BY <1>2, UntouchedKeeps DEF Selected
<1>6. CASE batch.pc \in {"idle", "weather"}
  BY <1>1, <1>2, <1>3, <1>5, <1>6 DEF BatchInv, InStage
<1>7. CASE batch.pc = "risk"
  <2>1. Selected' /\ batch.valid \subseteq Fleet \cap Own
    BY <1>5, <1>7 DEF BatchInv, InStage, Selected
  <2>2. \A p \in batch.valid \ touched' :
          StationOf[p] \in batch.weather <=> StationOf[p] \in weather'
    BY <1>7, <2>1, UntouchedKeeps DEF BatchInv, InStage
  <2>3. QED
    BY <1>1, <1>2, <1>3, <1>7, <2>1, <2>2 DEF BatchInv, InStage
<1>8. CASE batch.pc = "rest"
  <2>1. \A p \in (batch.asked \ batch.left) \ touched' : Answered(p, batch.out)'
    BY <1>2, <1>4, <1>8, UntouchedKeeps DEF BatchInv, InStage
  <2>2. QED
    BY <1>1, <1>2, <1>3, <1>8, <2>1 DEF BatchInv, InStage
<1>9. CASE batch.pc = "done"
  <2>1. \A p \in batch.asked \ touched' : Answered(p, batch.out)'
    BY <1>2, <1>4, <1>9, UntouchedKeeps DEF BatchInv, InStage
  <2>2. QED
    BY <1>1, <1>2, <1>3, <1>9, <2>1 DEF BatchInv, InStage
<1>10. QED
  BY <1>6, <1>7, <1>8, <1>9 DEF BatchInv, InStage

LEMMA ReadWindowsStep ==
  ASSUME BatchInv, NEW asked \in SUBSET Fleet, ReadWindows(asked) PROVE BatchInv'
BY DEF BatchInv, ReadWindows, InStage, Selected

LEMMA ReadWeatherStep == ASSUME BatchInv, ReadWeather PROVE BatchInv'
<1>1. batch.pc = "weather" /\ Selected /\ batch.asked \subseteq Fleet
  BY DEF BatchInv, InStage, ReadWeather
<1>2. \A p \in batch.valid : StationOf[p] \in StationIds
  BY DEF StationIds
<1>3. QED
  BY <1>1, <1>2 DEF BatchInv, InStage, ReadWeather, Selected

LEMMA ReadRiskStep == ASSUME BatchInv, ReadRisk PROVE BatchInv'
<1> DEFINE vector(p) == WindowVector(batch.window[p], StationOf[p] \in batch.weather,
                                     StationOf[p] \in risk \cap StationIds, 0)
<1>1. /\ batch.pc = "risk" /\ Selected /\ batch.asked \subseteq Fleet
      /\ \A p \in batch.valid \ touched :
           StationOf[p] \in batch.weather <=> StationOf[p] \in weather
  BY DEF BatchInv, InStage, ReadRisk
<1>2. batch' = [pc |-> "rest", asked |-> batch.asked,
                left |-> batch.asked \ batch.valid,
                out |-> [p \in batch.valid |-> vector(p)]]
  BY DEF ReadRisk
<1>3. UNCHANGED <<newest, legacy, weather, risk, touched>>
  BY DEF ReadRisk
<1>4. ASSUME NEW p \in batch.valid \ touched
      PROVE  vector(p) = Single(p) /\ IsVector(Single(p))
  <2>1. p \in Own /\ batch.window[p] = newest[p] /\ newest[p] # None /\ newest[p].fresh
    BY <1>1 DEF Selected
  <2>2. Single(p) = WindowVector(newest[p], StationOf[p] \in weather, StationOf[p] \in risk, 0)
    BY <2>1 DEF Single, Source, BuildVector
  <2>3. StationOf[p] \in StationIds
    BY DEF StationIds
  <2>4. vector(p) = Single(p)
    BY <1>1, <2>1, <2>2, <2>3 DEF WindowVector
  <2>5. IsVector(Single(p))
    BY <2>2 DEF IsVector, WindowVector
  <2>6. QED
    BY <2>4, <2>5
<1> HIDE DEF vector
<1>5. DOMAIN batch'.out = batch.valid /\ \A p \in batch.valid : batch'.out[p] = vector(p)
  BY <1>2
<1>6. \A p \in (batch'.asked \ batch'.left) \ touched' : Answered(p, batch.out)'
  <2> SUFFICES ASSUME NEW p \in (batch'.asked \ batch'.left) \ touched'
               PROVE  Answered(p, batch.out)'
    OBVIOUS
  <2>1. p \in batch.valid \ touched
    BY <1>2, <1>3
  <2>2. Single(p)' = Single(p)
    BY <1>3 DEF Single, Source
  <2>3. QED
    BY <1>4, <1>5, <2>1, <2>2 DEF Answered
<1>7. QED
  BY <1>1, <1>2, <1>3, <1>5, <1>6 DEF BatchInv, InStage

LEMMA TryOneStep == ASSUME BatchInv, NEW p \in Fleet, TryOne(p) PROVE BatchInv'
<1>1. PICK asked, left, out :
        /\ batch = [pc |-> "rest", asked |-> asked, left |-> left, out |-> out]
        /\ asked \subseteq Fleet /\ p \in left /\ left \cap DOMAIN out = {}
        /\ \A q \in (asked \ left) \ touched : Answered(q, out)
  BY DEF BatchInv, InStage, TryOne
<1>2. PICK new : new = IF IsVector(Single(p))
                       THEN [q \in DOMAIN out \cup {p} |-> IF q = p THEN Single(p) ELSE out[q]]
                       ELSE out
  OBVIOUS
<1>3. batch' = [batch EXCEPT !.left = left \ {p}, !.out = new]
  BY <1>1, <1>2 DEF TryOne, Single
<1>4. batch' = [pc |-> "rest", asked |-> asked, left |-> left \ {p}, out |-> new]
  BY <1>1, <1>3
<1>5. UNCHANGED <<newest, legacy, weather, risk, touched>>
  BY DEF TryOne
<1>6. \A q : Single(q)' = Single(q)
  BY <1>5 DEF Single, Source
<1>7. (left \ {p}) \cap DOMAIN new = {}
  BY <1>1, <1>2
<1>8. ASSUME NEW q \in (asked \ (left \ {p})) \ touched PROVE Answered(q, new)
  <2>1. CASE q = p
    BY <1>1, <1>2, <2>1 DEF Answered
  <2>2. CASE q # p
    BY <1>1, <1>2, <1>8, <2>2 DEF Answered
  <2>3. QED
    BY <2>1, <2>2
<1>9. \A q : Answered(q, new)' <=> Answered(q, new)
  BY <1>6 DEF Answered
<1>10. QED
  BY <1>1, <1>4, <1>5, <1>7, <1>8, <1>9 DEF BatchInv, InStage

LEMMA ReturnStep == ASSUME BatchInv, ReturnBatch PROVE BatchInv'
<1>1. /\ batch.asked \subseteq Fleet
      /\ \A p \in batch.asked \ touched : Answered(p, batch.out)
  BY DEF BatchInv, InStage, ReturnBatch
<1>2. \A p : Single(p)' = Single(p)
  BY DEF Single, Source, ReturnBatch
<1>3. \A p \in batch'.asked \ touched' : Answered(p, batch.out)'
  BY <1>1, <1>2 DEF ReturnBatch, Answered
<1>4. QED
  BY <1>1, <1>3 DEF BatchInv, InStage, ReturnBatch

LEMMA BatchInvStep == BatchInv /\ [BatchNext]_batchVars => BatchInv'
<1> SUFFICES ASSUME BatchInv, [BatchNext]_batchVars PROVE BatchInv'
  OBVIOUS
<1>1. CASE Writes
  BY <1>1, WriterStep
<1>2. CASE \E asked \in SUBSET Fleet : ReadWindows(asked)
  BY <1>2, ReadWindowsStep
<1>3. CASE ReadWeather \/ ReadRisk \/ ReturnBatch
  BY <1>3, ReadWeatherStep, ReadRiskStep, ReturnStep
<1>4. CASE \E p \in Fleet : TryOne(p)
  BY <1>4, TryOneStep
<1>5. CASE UNCHANGED batchVars
  <2>1. \A p : Single(p)' = Single(p)
    BY <1>5 DEF batchVars, Single, Source
  <2>2. QED
    BY <1>5, <2>1 DEF batchVars, BatchInv, InStage, Selected, Answered
<1>6. QED
  BY <1>1, <1>2, <1>3, <1>4, <1>5 DEF BatchNext, Writes

\* Of a pump whose rows and station nobody changed meanwhile, the batch of a
\* scheduled scoring run holds nothing but the vector of a request of its own,
\* and it holds it exactly when the pump's window, if there is one, is fresh.
THEOREM BatchIsFaithful == BatchSpec => []BatchAgreesWithSingle
<1>1. BatchInit => BatchInv
  BY DEF BatchInit, NoBatch, BatchInv, InStage
<1>2. BatchInv => BatchAgreesWithSingle
  <2> SUFFICES ASSUME BatchInv, batch.pc = "done", NEW p \in batch.asked \ touched
               PROVE  /\ p \in DOMAIN batch.out => IsVector(Single(p)) /\ batch.out[p] = Single(p)
                      /\ p \in Own /\ newest[p] # None =>
                           (p \in DOMAIN batch.out <=> newest[p].fresh)
    BY DEF BatchAgreesWithSingle, Single
  <2>1. Answered(p, batch.out)
    BY DEF BatchInv, InStage
  <2>2. p \in Own /\ newest[p] # None => (IsVector(Single(p)) <=> newest[p].fresh)
    BY DEF Single, Source, BuildVector, IsVector, WindowVector, Stale
  <2>3. QED
    BY <2>1, <2>2 DEF Answered
<1>3. QED
  BY <1>1, <1>2, BatchInvStep, PTL DEF BatchSpec
=============================================================================
