----------------------- MODULE MedallionPipelineProofs -----------------------
(***************************************************************************)
(* Theorems about MedallionPipeline, for any fleet, any readings, any      *)
(* number of cycles and any limit on the rows of a gold computation.       *)
(***************************************************************************)
EXTENDS MedallionPipeline, FiniteSetTheorems, SequenceTheorems,
        WellFoundedInduction, TLAPS

-----------------------------------------------------------------------------
(* What FlattenSeq returns.                                                *)

\* Every nonempty set of naturals has a least element.
LEMMA LeastNatural ==
  ASSUME NEW S, S \subseteq Nat, S # {}
  PROVE  \E n \in S : \A m \in S : n <= m
<1>1. PICK n \in S : \A m \in S : ~(<<m, n>> \in OpToRel(<, Nat))
  BY NatLessThanWellFounded, WFMin
<1>2. ASSUME NEW m \in S PROVE n <= m
  <2>1. ~(m < n)
    BY <1>1, Zenon DEF OpToRel
  <2>2. QED
    BY <2>1
<1>3. QED
  BY <1>2

\* The first n sequences, each appended to those before it.
Gathers(f, seqs, n) ==
  f = [i \in 1 .. n |-> IF i = 1 THEN seqs[i] ELSE f[i - 1] \o seqs[i]]

LEMMA FlattenIsChosen ==
  ASSUME NEW seqs, Len(seqs) # 0
  PROVE  FlattenSeq(seqs) = (CHOOSE f : Gathers(f, seqs, Len(seqs)))[Len(seqs)]
BY DEF FlattenSeq, Gathers

\* The prefixes of a sequence of sequences exist and hold no new elements.
LEMMA PrefixesExist ==
  ASSUME NEW T, NEW seqs \in Seq(Seq(T))
  PROVE  \A n \in 0 .. Len(seqs) :
           \E f : Gathers(f, seqs, n) /\ f \in [1 .. n -> Seq(T)]
<1> DEFINE Good(n) == \E f : Gathers(f, seqs, n) /\ f \in [1 .. n -> Seq(T)]
           Bad == {n \in 0 .. Len(seqs) : ~Good(n)}
<1> SUFFICES ASSUME Bad # {} PROVE FALSE
  OBVIOUS
<1>1. Len(seqs) \in Nat /\ \A i \in 1 .. Len(seqs) : seqs[i] \in Seq(T)
  OBVIOUS
<1>2. PICK n \in Bad : \A m \in Bad : n <= m
  <2>1. Bad \subseteq Nat
    BY <1>1
  <2> HIDE DEF Bad
  <2>2. QED
    BY <2>1, LeastNatural
<1>3. n \in 0 .. Len(seqs) /\ ~Good(n)
  BY <1>2
<1>4. n # 0
  <2>1. Gathers([i \in 1 .. 0 |-> <<>>], seqs, 0)
    BY DEF Gathers
  <2>2. [i \in 1 .. 0 |-> <<>>] \in [1 .. 0 -> Seq(T)]
    OBVIOUS
  <2>3. QED
    BY <1>3, <2>1, <2>2
<1>5. n - 1 \in 0 .. Len(seqs) /\ Good(n - 1)
  <2>1. n - 1 \in 0 .. Len(seqs)
    BY <1>1, <1>3, <1>4
  <2>2. n - 1 \notin Bad
    <3> HIDE DEF Bad
    <3>1. ~(n <= n - 1)
      BY <1>1, <1>3
    <3>2. QED
      BY <1>2, <3>1
  <2>3. QED
    BY <2>1, <2>2
<1>6. PICK f : Gathers(f, seqs, n - 1) /\ f \in [1 .. n - 1 -> Seq(T)]
  BY <1>5
<1> HIDE DEF Bad
<1>7. PICK last : last = IF n = 1 THEN seqs[n] ELSE f[n - 1] \o seqs[n]
  OBVIOUS
<1>8. last \in Seq(T)
  <2>1. n \in 1 .. Len(seqs)
    BY <1>1, <1>3, <1>4
  <2>2. seqs[n] \in Seq(T)
    BY <1>1, <2>1
  <2>3. n # 1 => f[n - 1] \in Seq(T)
    BY <1>1, <1>6, <2>1
  <2>4. QED
    BY <1>7, <2>2, <2>3
<1>9. PICK g : g = [i \in 1 .. n |-> IF i = n THEN last ELSE f[i]]
  OBVIOUS
<1>10. g \in [1 .. n -> Seq(T)]
  BY <1>1, <1>3, <1>4, <1>6, <1>8, <1>9
<1>11. ASSUME NEW i \in 1 .. n
       PROVE  g[i] = IF i = 1 THEN seqs[i] ELSE g[i - 1] \o seqs[i]
  <2>1. i # 1 => g[i - 1] = f[i - 1]
    BY <1>1, <1>3, <1>9
  <2>2. CASE i = n
    BY <1>7, <1>9, <2>1, <2>2
  <2>3. CASE i # n
    <3>1. i \in 1 .. n - 1
      BY <1>1, <1>3, <2>3
    <3>2. f[i] = IF i = 1 THEN seqs[i] ELSE f[i - 1] \o seqs[i]
      BY <1>6, <3>1, Zenon DEF Gathers
    <3>3. g[i] = f[i]
      BY <1>9, <2>3
    <3>4. QED
      BY <2>1, <3>2, <3>3
  <2>4. QED
    BY <2>2, <2>3
<1>12. Gathers(g, seqs, n)
  <2>1. g = [i \in 1 .. n |-> g[i]]
    BY <1>9
  <2>2. QED
    BY <1>11, <2>1, Zenon DEF Gathers
<1>13. QED
  BY <1>3, <1>10, <1>12

\* FlattenSeq is the last of the prefixes.
LEMMA FlattenGathers ==
  ASSUME NEW T, NEW seqs \in Seq(Seq(T)), Len(seqs) # 0
  PROVE  \E f \in [1 .. Len(seqs) -> Seq(T)] :
           Gathers(f, seqs, Len(seqs)) /\ FlattenSeq(seqs) = f[Len(seqs)]
<1>a. Len(seqs) \in 0 .. Len(seqs)
  OBVIOUS
<1>b. \A m \in 0 .. Len(seqs) : \E f : Gathers(f, seqs, m) /\ f \in [1 .. m -> Seq(T)]
  BY PrefixesExist, Zenon
<1> DEFINE n == Len(seqs)
<1>1. n \in Nat
  OBVIOUS
<1>2. PICK f : Gathers(f, seqs, n) /\ f \in [1 .. n -> Seq(T)]
  BY <1>a, <1>b, Zenon
<1> DEFINE g == CHOOSE h : Gathers(h, seqs, n)
<1>3. Gathers(g, seqs, n)
  BY <1>2, Zenon
<1> HIDE DEF g
<1> DEFINE Differs == {i \in 1 .. n : g[i] # f[i]}
<1>4. \A i \in 1 .. n : /\ g[i] = IF i = 1 THEN seqs[i] ELSE g[i - 1] \o seqs[i]
                        /\ f[i] = IF i = 1 THEN seqs[i] ELSE f[i - 1] \o seqs[i]
  BY <1>2, <1>3, Zenon DEF Gathers
\* Both agree: the least index at which they differ is neither 1 nor a successor.
<1>5. Differs = {}
  <2> SUFFICES ASSUME Differs # {} PROVE FALSE
    OBVIOUS
  <2>1. PICK i \in Differs : \A j \in Differs : i <= j
    <3>1. Differs \subseteq Nat
      BY <1>1
    <3> HIDE DEF Differs
    <3>2. QED
      BY <3>1, LeastNatural
  <2>2. i \in 1 .. n /\ g[i] # f[i] /\ i # 1
    BY <1>4
  <2>3. i - 1 \in 1 .. n /\ i - 1 \notin Differs
    BY <1>1, <2>1, <2>2
  <2>4. g[i - 1] = f[i - 1]
    BY <2>3
  <2>5. QED
    BY <1>4, <2>2, <2>4
<1>6. g[n] = f[n]
  BY <1>1, <1>5
<1>7. FlattenSeq(seqs) = g[n]
  BY FlattenIsChosen DEF g
<1>8. QED
  BY <1>2, <1>6, <1>7

\* FlattenSeq returns a sequence and adds no element.
LEMMA FlattenTyped ==
  ASSUME NEW T, NEW seqs \in Seq(Seq(T))
  PROVE  FlattenSeq(seqs) \in Seq(T)
<1>1. CASE Len(seqs) = 0
  <2>1. FlattenSeq(seqs) = seqs
    BY <1>1 DEF FlattenSeq
  <2>2. QED
    BY <1>1, <2>1
<1>2. CASE Len(seqs) # 0
  <2>1. Len(seqs) \in 1 .. Len(seqs)
    BY <1>2
  <2>2. PICK f \in [1 .. Len(seqs) -> Seq(T)] : FlattenSeq(seqs) = f[Len(seqs)]
    BY <1>2, FlattenGathers
  <2>3. QED
    BY <2>1, <2>2
<1>3. QED
  BY <1>1, <1>2

\* FlattenSeq drops no element.
LEMMA FlattenComplete ==
  ASSUME NEW T, NEW seqs \in Seq(Seq(T)), NEW i \in 1 .. Len(seqs), NEW k \in 1 .. Len(seqs[i])
  PROVE  \E j \in DOMAIN FlattenSeq(seqs) : FlattenSeq(seqs)[j] = seqs[i][k]
<1> DEFINE n == Len(seqs)
           x == seqs[i][k]
           Holds(q) == \E j \in 1 .. Len(q) : q[j] = x
<1>1. n \in Nat /\ n # 0 /\ \A m \in 1 .. n : seqs[m] \in Seq(T)
  OBVIOUS
<1>2. PICK f \in [1 .. n -> Seq(T)] : Gathers(f, seqs, n) /\ FlattenSeq(seqs) = f[n]
  BY <1>1, FlattenGathers
<1>3. \A m \in 1 .. n : f[m] = IF m = 1 THEN seqs[m] ELSE f[m - 1] \o seqs[m]
  BY <1>2, Zenon DEF Gathers
<1> DEFINE Lacking == {m \in i .. n : ~Holds(f[m])}
<1>4. \A p, q \in Seq(T) : Holds(p) \/ Holds(q) => Holds(p \o q)
  <2> SUFFICES ASSUME NEW p \in Seq(T), NEW q \in Seq(T), Holds(p) \/ Holds(q)
               PROVE  Holds(p \o q)
    OBVIOUS
  <2> HIDE DEF x
  <2>1. CASE Holds(p)
    <3>1. PICK j \in 1 .. Len(p) : p[j] = x
      BY <2>1
    <3>2. j \in 1 .. Len(p \o q) /\ (p \o q)[j] = x
      BY <3>1
    <3>3. QED
      BY <3>2
  <2>2. CASE Holds(q)
    <3>1. PICK j \in 1 .. Len(q) : q[j] = x
      BY <2>2
    <3>2. Len(p) + j \in 1 .. Len(p \o q) /\ (p \o q)[Len(p) + j] = x
      BY <3>1
    <3>3. QED
      BY <3>2
  <2>3. QED
    BY <2>1, <2>2
<1>5. Holds(seqs[i])
  OBVIOUS
<1> HIDE DEF Holds
\* The first prefix from i on without the element is neither i nor a successor.
<1>6. Lacking = {}
  <2> SUFFICES ASSUME Lacking # {} PROVE FALSE
    OBVIOUS
  <2>1. PICK m \in Lacking : \A j \in Lacking : m <= j
    <3>1. Lacking \subseteq Nat
      BY <1>1
    <3> HIDE DEF Lacking
    <3>2. QED
      BY <3>1, LeastNatural
  <2>2. m \in 1 .. n /\ m \in i .. n /\ ~Holds(f[m])
    BY <1>1
  <2>3. CASE m = i
    <3>1. CASE m = 1
      BY <1>3, <1>5, <2>2, <2>3, <3>1
    <3>2. CASE m # 1
      <4>1. f[m - 1] \in Seq(T) /\ f[m] = f[m - 1] \o seqs[m]
        <5>1. m - 1 \in 1 .. n
          BY <1>1, <2>2, <3>2
        <5>2. f[m - 1] \in Seq(T)
          BY <1>2, <5>1
        <5>3. QED
          BY <1>3, <2>2, <3>2, <5>2
      <4>2. QED
        BY <1>1, <1>4, <1>5, <2>2, <2>3, <4>1
    <3>3. QED
      BY <3>1, <3>2
  <2>4. CASE m # i
    <3>1. m - 1 \in i .. n /\ m - 1 \in 1 .. n /\ m # 1 /\ ~(m <= m - 1)
      BY <1>1, <2>2, <2>4
    <3>2. Holds(f[m - 1])
      BY <2>1, <3>1
    <3>3. f[m - 1] \in Seq(T) /\ f[m] = f[m - 1] \o seqs[m]
      BY <1>2, <1>3, <2>2, <3>1
    <3>4. QED
      BY <1>1, <1>4, <2>2, <3>2, <3>3
  <2>5. QED
    BY <2>3, <2>4
<1>7. n \in i .. n /\ f[n] \in Seq(T)
  <2>1. i \in 1 .. n
    OBVIOUS
  <2> HIDE DEF n
  <2>2. n \in i .. n /\ n \in 1 .. n
    BY <1>1, <2>1
  <2>3. QED
    BY <1>2, <2>2
<1>8. Holds(f[n])
  BY <1>6, <1>7
<1>9. QED
  BY <1>2, <1>7, <1>8 DEF Holds

-----------------------------------------------------------------------------
(* Loops over a set.                                                       *)

\* A list of all elements of a finite set, each once, leaves none out.
LEMMA ListsAll ==
  ASSUME NEW S, IsFiniteSet(S), NEW list \in SetToSeqs(S)
  PROVE  list \in Seq(S) /\ Range(list) = S
<1> DEFINE n == Cardinality(S)
<1>1. n \in Nat
  BY FS_CardinalityType
<1>2. list \in [1 .. n -> S] /\ \A i, j \in 1 .. n : i # j => list[i] # list[j]
  BY DEF SetToSeqs
<1>3. list \in Injection(1 .. n, S)
  BY <1>2 DEF Injection, IsInjective
<1>4. Cardinality(1 .. n) = n
  BY <1>1, FS_Interval
<1>5. list \in Surjection(1 .. n, S)
  BY <1>3, <1>4, FS_Injection
<1>6. \A x \in S : \E i \in 1 .. n : list[i] = x
  BY <1>5 DEF Surjection
<1>7. Range(list) = S
  BY <1>2, <1>6 DEF Range
<1>8. QED
  BY <1>1, <1>2, <1>7

\* One turn of a loop leaves everything but the first element.
LEMMA HeadAndTail ==
  ASSUME NEW S, NEW list \in Seq(S), list # <<>>
  PROVE  /\ Head(list) \in S /\ Tail(list) \in Seq(S)
         /\ Range(list) = {Head(list)} \cup Range(Tail(list))
<1>1. /\ Len(list) \in Nat /\ Len(list) >= 1
      /\ DOMAIN list = 1 .. Len(list) /\ DOMAIN Tail(list) = 1 .. Len(list) - 1
      /\ Head(list) = list[1]
      /\ \A i \in 1 .. Len(list) - 1 : Tail(list)[i] = list[i + 1]
  OBVIOUS
<1>2. ASSUME NEW i \in 1 .. Len(list) PROVE list[i] \in {Head(list)} \cup Range(Tail(list))
  <2>1. CASE i = 1
    BY <1>1, <2>1
  <2>2. CASE i # 1
    <3>1. i - 1 \in 1 .. Len(list) - 1 /\ list[i] = Tail(list)[i - 1]
      BY <1>1, <2>2
    <3>2. QED
      BY <1>1, <3>1 DEF Range
  <2>3. QED
    BY <2>1, <2>2
<1>3. ASSUME NEW i \in 1 .. Len(list) - 1 PROVE Tail(list)[i] \in Range(list)
  <2>1. i + 1 \in 1 .. Len(list)
    BY <1>1
  <2>2. QED
    BY <1>1, <2>1 DEF Range
<1>4. Head(list) \in Range(list)
  <2>1. 1 \in 1 .. Len(list)
    BY <1>1
  <2>2. QED
    BY <1>1, <2>1 DEF Range
<1>5. Range(list) \subseteq {Head(list)} \cup Range(Tail(list))
  <2> SUFFICES ASSUME NEW x \in Range(list) PROVE x \in {Head(list)} \cup Range(Tail(list))
    OBVIOUS
  <2>1. PICK i \in 1 .. Len(list) : x = list[i]
    BY <1>1 DEF Range
  <2>2. QED
    BY <1>2, <2>1
<1>6. Range(Tail(list)) \subseteq Range(list)
  <2> SUFFICES ASSUME NEW x \in Range(Tail(list)) PROVE x \in Range(list)
    OBVIOUS
  <2>1. PICK i \in 1 .. Len(list) - 1 : x = Tail(list)[i]
    BY <1>1 DEF Range
  <2>2. QED
    BY <1>3, <2>1
<1>7. QED
  BY <1>4, <1>5, <1>6

-----------------------------------------------------------------------------
(* Series, rows and the newest rows.                                       *)

\* A series holds the times that have copies, and nothing else.
LEMMA SeriesTyped ==
  ASSUME NEW copies \in [Times -> Nat]
  PROVE  Series(copies) \in Seq({t \in Times : copies[t] > 0})
<1> DEFINE T == {t \in Times : copies[t] > 0}
           seqs == [t \in Times |-> [i \in 1 .. copies[t] |-> t]]
<1>1. ASSUME NEW t \in Times PROVE [i \in 1 .. copies[t] |-> t] \in Seq(T)
  <2>1. copies[t] \in Nat
    OBVIOUS
  <2>2. \A i \in 1 .. copies[t] : t \in T
    BY <2>1
  <2> HIDE DEF T
  <2>3. [i \in 1 .. copies[t] |-> t] \in [1 .. copies[t] -> T]
    BY <2>2
  <2>4. QED
    BY <2>1, <2>3
<1> HIDE DEF T
<1>2. seqs \in [1 .. MaxTime -> Seq(T)]
  BY <1>1 DEF Times
<1>3. seqs \in Seq(Seq(T))
  <2> HIDE DEF seqs
  <2>1. QED
    BY <1>2, Bounds
<1>4. FlattenSeq(seqs) \in Seq(T)
  <2> HIDE DEF seqs
  <2>1. QED
    BY <1>3, FlattenTyped
<1>5. QED
  BY <1>4 DEF Series, T

\* Every time that has copies occurs in the series.
LEMMA SeriesComplete ==
  ASSUME NEW copies \in [Times -> Nat], NEW t \in Times, copies[t] > 0
  PROVE  \E j \in DOMAIN Series(copies) : Series(copies)[j] = t
<1> DEFINE seqs == [u \in Times |-> [i \in 1 .. copies[u] |-> u]]
<1>1. ASSUME NEW u \in Times PROVE [i \in 1 .. copies[u] |-> u] \in Seq(Times)
  <2>1. copies[u] \in Nat
    OBVIOUS
  <2>2. [i \in 1 .. copies[u] |-> u] \in [1 .. copies[u] -> Times]
    OBVIOUS
  <2>3. QED
    BY <2>1, <2>2
<1>2. seqs \in [1 .. MaxTime -> Seq(Times)]
  BY <1>1 DEF Times
<1>3. seqs \in Seq(Seq(Times)) /\ t \in 1 .. Len(seqs)
  <2> HIDE DEF seqs
  <2>1. QED
    BY <1>2, Bounds DEF Times
<1>4. 1 \in 1 .. Len(seqs[t]) /\ seqs[t][1] = t
  <2>1. copies[t] \in Nat /\ 1 \in 1 .. copies[t]
    OBVIOUS
  <2>2. Len([i \in 1 .. copies[t] |-> t]) = copies[t]
    BY <2>1
  <2>3. QED
    BY <2>1, <2>2
<1>5. \E j \in DOMAIN FlattenSeq(seqs) : FlattenSeq(seqs)[j] = seqs[t][1]
  <2> HIDE DEF seqs
  <2>1. QED
    BY <1>3, <1>4, FlattenComplete
<1>6. QED
  BY <1>4, <1>5 DEF Series

LEMMA MaxOfTwo ==
  ASSUME NEW a \in Int, NEW b \in Int
  PROVE  Max({a, b}) \in {a, b} /\ Max({a, b}) >= a /\ Max({a, b}) >= b
<1>1. \E x \in {a, b} : \A y \in {a, b} : x >= y
  <2>1. CASE a >= b
    BY <2>1
  <2>2. CASE b >= a
    BY <2>2
  <2>3. QED
    BY <2>1, <2>2
<1>2. QED
  BY <1>1 DEF Max

LEMMA MinOfTwo ==
  ASSUME NEW a \in Int, NEW b \in Int
  PROVE  Min({a, b}) \in {a, b} /\ Min({a, b}) <= a /\ Min({a, b}) <= b
<1>1. \E x \in {a, b} : \A y \in {a, b} : x <= y
  <2>1. CASE a <= b
    BY <2>1
  <2>2. CASE b <= a
    BY <2>2
  <2>3. QED
    BY <2>1, <2>2
<1>2. QED
  BY <1>1 DEF Min

\* A gold row is typed and its window draws on its series only.
LEMMA RowAtTyped ==
  ASSUME NEW T, T \subseteq Times, NEW series \in Seq(T), NEW i \in DOMAIN series
  PROVE  /\ RowAt(series, i) \in GoldRow
         /\ \A j \in DOMAIN RowAt(series, i).window : RowAt(series, i).window[j] \in T
<1> DEFINE first == Max({1, i - Window + 1})
           n == i - first + 1
<1>1. i \in 1 .. Len(series) /\ Len(series) \in Nat /\ series[i] \in T
  OBVIOUS
<1>2. first \in 1 .. i /\ first >= i - 2
  <2>1. i - Window + 1 \in Int /\ i - Window + 1 = i - 2
    BY <1>1 DEF Window
  <2>2. first \in {1, i - Window + 1} /\ first >= 1 /\ first >= i - Window + 1
    <3>1. 1 \in Int
      OBVIOUS
    <3>2. QED
      BY <2>1, <3>1, MaxOfTwo, Zenon
  <2> HIDE DEF first
  <2>3. QED
    BY <1>1, <2>1, <2>2
<1> HIDE DEF first
<1>3. n \in 1 .. Window
  BY <1>1, <1>2 DEF Window
<1>4. /\ SubSeq(series, first, i) \in Seq(T)
      /\ Len(SubSeq(series, first, i)) = n
  <2>1. \A j \in first .. i : series[j] \in T
    BY <1>1, <1>2
  <2>2. first \in Int /\ i \in Int /\ first <= i
    BY <1>1, <1>2
  <2>3. QED
    BY <2>1, <2>2, SubSeqProperties
<1> HIDE DEF n
<1>5. PICK w : w = SubSeq(series, first, i)
  OBVIOUS
<1>6. w \in [1 .. n -> T]
  <2>1. w \in Seq(T) /\ Len(w) = n
    BY <1>4, <1>5
  <2>2. QED
    BY <2>1, LenProperties
<1>7. w \in [1 .. n -> Times]
  BY <1>6
<1>8. RowAt(series, i) = [time |-> series[i], window |-> w]
  BY <1>5 DEF RowAt, first
<1>9. w \in UNION {[1 .. m -> Times] : m \in 1 .. Window}
  BY <1>3, <1>7
<1>10. RowAt(series, i) \in GoldRow
  BY <1>1, <1>8, <1>9 DEF GoldRow
<1>11. QED
  BY <1>6, <1>8, <1>10

\* An index with at most Limit entries as new as its own is among any choice
\* of the newest rows.
LEMMA NewestIsChosen ==
  ASSUME NEW T, T \subseteq Times, NEW series \in Seq(T), NEW N \in Newest(series),
         NEW i \in DOMAIN series,
         Cardinality({j \in DOMAIN series : series[j] >= series[i]}) <= Limit
  PROVE  i \in N
<1> DEFINE A == {j \in DOMAIN series : series[j] >= series[i]}
           m == Len(series)
           k == Min({Limit, m})
<1> SUFFICES ASSUME i \notin N PROVE FALSE
  OBVIOUS
<1>1. /\ DOMAIN series = 1 .. m /\ m \in Nat
      /\ \A j \in DOMAIN series : series[j] \in Int
  <2>1. \A t \in T : t \in Int
    BY Bounds DEF Times
  <2>2. \A j \in DOMAIN series : series[j] \in T
    OBVIOUS
  <2>3. QED
    BY <2>1, <2>2
<1>2. /\ N \subseteq DOMAIN series /\ Cardinality(N) = k
      /\ \A j \in N : series[j] >= series[i]
  BY DEF Newest, kSubset
<1> HIDE DEF m
<1>3. IsFiniteSet(DOMAIN series) /\ Cardinality(DOMAIN series) = m
  BY <1>1, FS_Interval
<1>4. Limit \in Nat /\ k \in {Limit, m}
  <2>1. Limit \in Int /\ m \in Int /\ Limit \in Nat
    BY <1>1, Bounds
  <2>2. QED
    BY <2>1, MinOfTwo, Zenon
<1> HIDE DEF k
<1>5. IsFiniteSet(N) /\ Cardinality(N) \in Nat
  BY <1>2, <1>3, FS_Subset, FS_CardinalityType
<1>6. N \cup {i} \subseteq A /\ i \in A
  BY <1>1, <1>2
<1>7. A \subseteq DOMAIN series
  OBVIOUS
<1> HIDE DEF A
<1>8. IsFiniteSet(A) /\ Cardinality(A) \in Nat
  BY <1>3, <1>7, FS_Subset, FS_CardinalityType
<1>9. Cardinality(N \cup {i}) = k + 1
  BY <1>2, <1>5, FS_AddElement
<1>10. Cardinality(N \cup {i}) <= Cardinality(A)
  BY <1>6, <1>8, FS_Subset
<1>11. Cardinality(N \cup {i}) <= m
  BY <1>2, <1>3, FS_Subset
<1>12. Cardinality(A) <= Limit
  BY DEF A
<1>13. k # m
  BY <1>1, <1>9, <1>11
<1>14. k # Limit
  BY <1>4, <1>8, <1>9, <1>10, <1>12
<1>15. QED
  BY <1>4, <1>13, <1>14

-----------------------------------------------------------------------------
(* The inductive invariant.                                                *)

\* The loops run over what they are for, and Risk always has a station.
Loops ==
  /\ pc \in {"weather", "risk"} => todo \in Seq(Stations)
  /\ pc = "risk" => todo # <<>>
  /\ pc = "gold" => todo \in Seq(Pumps)

\* A station without a score is still to be visited.
StationsLeft ==
  pc \in {"weather", "risk"} => Stations \subseteq scored \cup Range(todo)

\* Silver holds copies of readings that passed the gate.
CopiesAreClean ==
  \A p \in Pumps, t \in Times : silver[p][t] > 0 => Clean(landed[p][t])

PumpIsCurrent(p) ==
  LET series == Series(silver[p]) IN
    \A i \in DOMAIN series :
      Cardinality({j \in DOMAIN series : series[j] >= series[i]}) <= Limit
        => RowAt(series, i) \in gold[p]

\* A pump that the gold loop has left behind is current.
PumpsLeft == pc = "gold" => \A p \in Pumps \ Range(todo) : PumpIsCurrent(p)

LEMMA CapIsNatural == Cap \in Nat /\ Cap > 0
BY Bounds DEF Cap, Window

LEMMA SilverSeries ==
  ASSUME silver \in [Pumps -> [Times -> 0 .. Cap]], NEW p \in Pumps
  PROVE  Series(silver[p]) \in Seq({t \in Times : silver[p][t] > 0})
<1>1. silver[p] \in [Times -> Nat]
  BY CapIsNatural
<1>2. QED
  BY <1>1, SeriesTyped

\* Rows that a gold computation stores.
LEMMA StoredRows ==
  ASSUME silver \in [Pumps -> [Times -> 0 .. Cap]], NEW p \in Pumps,
         NEW N \in Newest(Series(silver[p])), NEW i \in N
  PROVE  LET row == RowAt(Series(silver[p]), i) IN
         /\ row \in GoldRow
         /\ \A j \in DOMAIN row.window :
              row.window[j] \in Times /\ silver[p][row.window[j]] > 0
<1> DEFINE T == {t \in Times : silver[p][t] > 0}
           series == Series(silver[p])
<1>1. series \in Seq(T)
  BY SilverSeries
<1>2. T \subseteq Times /\ i \in DOMAIN series
  BY DEF Newest, kSubset
<1>3. /\ RowAt(series, i) \in GoldRow
      /\ \A j \in DOMAIN RowAt(series, i).window : RowAt(series, i).window[j] \in T
  <2> HIDE DEF T, series
  <2>1. QED
    BY <1>1, <1>2, RowAtTyped
<1>4. QED
  BY <1>3

LEMMA TypeInit == Init => TypeOK /\ Loops
BY CapIsNatural DEF Init, TypeOK, Loops

LEMMA TypeStep == TypeOK /\ Loops /\ [Next]_vars => TypeOK' /\ Loops'
<1> SUFFICES ASSUME TypeOK, Loops, [Next]_vars PROVE TypeOK' /\ Loops'
  OBVIOUS
<1> USE DEF TypeOK, Loops, tables
<1>1. ASSUME NEW p \in Pumps, NEW t \in Times, NEW x \in Measurements, Land(p, t, x)
      PROVE  TypeOK' /\ Loops'
  BY <1>1 DEF Land
<1>2. CASE BeginCycle
  <2>1. todo' \in Seq(Stations)
    BY <1>2, ListsAll, FiniteFleet DEF BeginCycle
  <2>2. QED
    BY <1>2, <2>1 DEF BeginCycle
<1>3. ASSUME NEW temperature \in Temperatures, WeatherAnswered(temperature)
      PROVE  TypeOK' /\ Loops'
  <2>1. Head(todo) \in Stations
    BY <1>3, HeadAndTail DEF WeatherAnswered
  <2>2. weather' \in [Stations -> SUBSET Temperatures]
    BY <1>3, <2>1 DEF WeatherAnswered
  <2>3. conformed' \in [Stations -> SUBSET Temperatures]
    BY <1>3, <2>1 DEF WeatherAnswered
  <2>4. QED
    BY <1>3, <2>2, <2>3 DEF WeatherAnswered
<1>4. CASE WeatherUnreachable
  BY <1>4 DEF WeatherUnreachable
<1>5. CASE WeatherRaises
  BY <1>5 DEF WeatherRaises, Stopped
<1>6. CASE Risk
  <2>1. Head(todo) \in Stations /\ Tail(todo) \in Seq(Stations)
    BY <1>6, HeadAndTail DEF Risk
  <2>2. QED
    BY <1>6, <2>1 DEF Risk
<1>7. CASE ProcessBronze
  <2>1. todo' \in Seq(Pumps)
    BY <1>7, ListsAll, FiniteFleet DEF ProcessBronze
  <2>2. ASSUME NEW p \in Pumps, NEW t \in Times
        PROVE  Recopied(landed[p][t], silver[p][t]) \in 0 .. Cap
    <3>1. silver[p][t] \in 0 .. Cap
      OBVIOUS
    <3>2. QED
      BY <3>1, CapIsNatural DEF Recopied
  <2>3. silver' \in [Pumps -> [Times -> 0 .. Cap]]
    BY <1>7, <2>2 DEF ProcessBronze
  <2>4. QED
    BY <1>7, <2>1, <2>3 DEF ProcessBronze
<1>8. CASE ComputeGold
  <2>1. Head(todo) \in Pumps /\ Tail(todo) \in Seq(Pumps)
    BY <1>8, HeadAndTail DEF ComputeGold
  <2>2. PICK N \in Newest(Series(silver[Head(todo)])) :
          gold' = [gold EXCEPT ![Head(todo)] =
                     @ \cup {RowAt(Series(silver[Head(todo)]), i) : i \in N}]
    BY <1>8 DEF ComputeGold
  <2>3. {RowAt(Series(silver[Head(todo)]), i) : i \in N} \subseteq GoldRow
    BY <2>1, StoredRows
  <2>4. gold' \in [Pumps -> SUBSET GoldRow]
    BY <2>1, <2>2, <2>3
  <2>5. QED
    BY <1>8, <2>1, <2>4 DEF ComputeGold
<1>9. CASE Sleep
  BY <1>9 DEF Sleep
<1>10. CASE Interrupt
  BY <1>10 DEF Interrupt, Stopped
<1>11. CASE Restart
  BY <1>11 DEF Restart, Stopped
<1>12. CASE UNCHANGED vars
  BY <1>12 DEF vars
<1>13. QED
  BY <1>1, <1>2, <1>3, <1>4, <1>5, <1>6, <1>7, <1>8, <1>9, <1>10, <1>11, <1>12
  DEF Next, Orchestrator

-----------------------------------------------------------------------------
(* Every invariant is preserved.                                           *)

LEMMA StationsStep ==
  TypeOK /\ Loops /\ StationsLeft /\ OutageKeepsRisk /\ [Next]_vars
    => StationsLeft' /\ OutageKeepsRisk'
<1> SUFFICES ASSUME TypeOK, Loops, StationsLeft, OutageKeepsRisk, [Next]_vars
             PROVE  StationsLeft' /\ OutageKeepsRisk'
  OBVIOUS
<1> USE DEF StationsLeft, OutageKeepsRisk, tables
<1>1. ASSUME NEW p \in Pumps, NEW t \in Times, NEW x \in Measurements, Land(p, t, x)
      PROVE  StationsLeft' /\ OutageKeepsRisk'
  BY <1>1 DEF Land
<1>2. CASE BeginCycle
  <2>1. Range(todo') = Stations
    BY <1>2, ListsAll, FiniteFleet DEF BeginCycle
  <2>2. QED
    BY <1>2, <2>1 DEF BeginCycle
<1>3. ASSUME NEW temperature \in Temperatures, WeatherAnswered(temperature)
      PROVE  StationsLeft' /\ OutageKeepsRisk'
  BY <1>3 DEF WeatherAnswered
<1>4. CASE WeatherUnreachable
  BY <1>4 DEF WeatherUnreachable
<1>5. CASE WeatherRaises
  BY <1>5 DEF WeatherRaises
<1>6. CASE Risk
  <2>1. Range(todo) = {Head(todo)} \cup Range(Tail(todo))
    BY <1>6, HeadAndTail DEF Risk, Loops
  <2>2. QED
    BY <1>6, <2>1 DEF Risk
<1>7. CASE ProcessBronze
  <2>1. Range(todo) = {}
    BY <1>7 DEF ProcessBronze, Range
  <2>2. QED
    BY <1>7, <2>1 DEF ProcessBronze, TypeOK
<1>8. CASE ComputeGold
  BY <1>8 DEF ComputeGold
<1>9. CASE Sleep
  BY <1>9 DEF Sleep
<1>10. CASE Interrupt
  BY <1>10 DEF Interrupt
<1>11. CASE Restart
  BY <1>11 DEF Restart
<1>12. CASE UNCHANGED vars
  BY <1>12 DEF vars
<1>13. QED
  BY <1>1, <1>2, <1>3, <1>4, <1>5, <1>6, <1>7, <1>8, <1>9, <1>10, <1>11, <1>12
  DEF Next, Orchestrator

LEMMA CleanStep ==
  TypeOK /\ Loops /\ CopiesAreClean /\ FeaturesAreClean /\ [Next]_vars
    => CopiesAreClean' /\ FeaturesAreClean'
<1> SUFFICES ASSUME TypeOK, Loops, CopiesAreClean, FeaturesAreClean, [Next]_vars
             PROVE  CopiesAreClean' /\ FeaturesAreClean'
  OBVIOUS
\* A clean reading is not overwritten.
<1>1. \A p \in Pumps, t \in Times : Clean(landed[p][t]) => landed'[p][t] = landed[p][t]
  <2>1. ASSUME NEW p \in Pumps, NEW t \in Times, NEW x \in Measurements, Land(p, t, x)
        PROVE  \A q \in Pumps, u \in Times :
                 Clean(landed[q][u]) => landed'[q][u] = landed[q][u]
    BY <2>1 DEF Land, Clean, TypeOK
  <2>2. CASE UNCHANGED landed
    BY <2>2
  <2>3. QED
    BY <2>1, <2>2
    DEF Next, Orchestrator, BeginCycle, WeatherAnswered, WeatherUnreachable,
        WeatherRaises, Risk, ProcessBronze, ComputeGold, Sleep, Interrupt, Restart,
        vars, tables
<1>2. CopiesAreClean'
  <2>1. CASE ProcessBronze
    <3> SUFFICES ASSUME NEW p \in Pumps, NEW t \in Times, silver'[p][t] > 0
                 PROVE  Clean(landed'[p][t])
      BY DEF CopiesAreClean, Clean
    <3>1. silver'[p][t] = Recopied(landed[p][t], silver[p][t])
      BY <2>1 DEF ProcessBronze
    <3>2. Clean(landed[p][t])
      BY <3>1 DEF Recopied, CopiesAreClean
    <3>3. QED
      BY <1>1, <3>2
  <2>2. CASE UNCHANGED silver
    BY <1>1, <2>2 DEF CopiesAreClean, Clean
  <2>3. QED
    BY <2>1, <2>2
    DEF Next, Orchestrator, Land, BeginCycle, WeatherAnswered, WeatherUnreachable,
        WeatherRaises, Risk, ComputeGold, Sleep, Interrupt, Restart, vars, tables
\* What FeaturesAreClean says of one row.
<1> DEFINE CleanRow(p, row) ==
             \A i \in DOMAIN row.window :
               row.window[i] \in Times /\ Clean(landed[p][row.window[i]])
<1>3. \A p \in Pumps : \A row \in gold[p] : CleanRow(p, row)
  <2> SUFFICES ASSUME NEW p \in Pumps, NEW row \in gold[p], NEW i \in DOMAIN row.window
               PROVE  row.window[i] \in Times /\ Clean(landed[p][row.window[i]])
    OBVIOUS
  <2>1. row \in GoldRow
    BY DEF TypeOK
  <2>2. PICK n \in 1 .. Window : row.window \in [1 .. n -> Times]
    BY <2>1 DEF GoldRow
  <2>3. row.window[i] \in Times
    BY <2>2
  <2>4. landed[p][row.window[i]] \in Measurements \cup {None}
    BY <2>3 DEF TypeOK
  <2>5. LET x == landed[p][row.window[i]] IN
          x # None /\ x.current > 0 /\ x.temperature >= 0 /\ x.temperature <= 200
    <3>1. row.window[i] \in UNION {Range(q.window) : q \in gold[p]}
      BY DEF Range
    <3>2. QED
      BY <3>1 DEF FeaturesAreClean
  <2>6. landed[p][row.window[i]].temperature \in 0 .. 200
    BY <2>4, <2>5, MeasurementsAreRecords
  <2>7. QED
    BY <2>3, <2>5, <2>6 DEF Clean
<1>4. \A p \in Pumps : \A row \in gold'[p] : CleanRow(p, row)
  <2>1. CASE ComputeGold
    <3>1. Head(todo) \in Pumps
      BY <2>1, HeadAndTail DEF ComputeGold, Loops
    <3>2. PICK N \in Newest(Series(silver[Head(todo)])) :
            gold' = [gold EXCEPT ![Head(todo)] =
                       @ \cup {RowAt(Series(silver[Head(todo)]), i) : i \in N}]
      BY <2>1 DEF ComputeGold
    <3>3. \A i \in N : CleanRow(Head(todo), RowAt(Series(silver[Head(todo)]), i))
      BY <3>1, StoredRows DEF TypeOK, CopiesAreClean
    <3> HIDE DEF CleanRow
    <3>4. gold'[Head(todo)] =
            gold[Head(todo)] \cup {RowAt(Series(silver[Head(todo)]), i) : i \in N}
      BY <3>1, <3>2 DEF TypeOK
    <3>5. \A p \in Pumps \ {Head(todo)} : gold'[p] = gold[p]
      BY <3>2 DEF TypeOK
    <3>6. QED
      BY <1>3, <3>3, <3>4, <3>5
  <2> HIDE DEF CleanRow
  <2>2. CASE UNCHANGED gold
    BY <1>3, <2>2
  <2>3. QED
    BY <2>1, <2>2
    DEF Next, Orchestrator, Land, BeginCycle, WeatherAnswered, WeatherUnreachable,
        WeatherRaises, Risk, ProcessBronze, Sleep, Interrupt, Restart, vars, tables
<1>5. FeaturesAreClean'
  <2> SUFFICES ASSUME NEW p \in Pumps,
                      NEW t \in {u \in Times : silver'[p][u] > 0}
                                 \cup UNION {Range(row.window) : row \in gold'[p]}
               PROVE  LET x == landed'[p][t] IN
                      x # None /\ x.current > 0 /\ x.temperature >= 0 /\ x.temperature <= 200
    BY DEF FeaturesAreClean
  <2>1. CASE t \in Times /\ silver'[p][t] > 0
    <3>1. Clean(landed'[p][t])
      BY <1>2, <2>1 DEF CopiesAreClean, Clean
    <3>2. QED
      BY <3>1 DEF Clean
  <2>2. CASE t \in UNION {Range(row.window) : row \in gold'[p]}
    <3>1. PICK row \in gold'[p] : t \in Range(row.window)
      BY <2>2
    <3>2. PICK i \in DOMAIN row.window : t = row.window[i]
      BY <3>1 DEF Range
    <3>3. t \in Times /\ Clean(landed[p][t])
      BY <1>4, <3>2
    <3>4. landed'[p][t] = landed[p][t]
      BY <1>1, <3>3
    <3>5. QED
      BY <3>3, <3>4 DEF Clean
  <2>3. QED
    BY <2>1, <2>2
<1>6. QED
  BY <1>2, <1>5

LEMMA PumpsStep == TypeOK /\ Loops /\ PumpsLeft /\ [Next]_vars => PumpsLeft'
<1> SUFFICES ASSUME TypeOK, Loops, PumpsLeft, [Next]_vars PROVE PumpsLeft'
  OBVIOUS
<1>1. CASE ProcessBronze
  <2>1. Range(todo') = Pumps
    BY <1>1, ListsAll, FiniteFleet DEF ProcessBronze
  <2>2. QED
    BY <2>1 DEF PumpsLeft
<1>2. CASE ComputeGold
  <2>1. PICK N \in Newest(Series(silver[Head(todo)])) :
          gold' = [gold EXCEPT ![Head(todo)] =
                     @ \cup {RowAt(Series(silver[Head(todo)]), i) : i \in N}]
    BY <1>2 DEF ComputeGold
  <2>2. /\ Head(todo) \in Pumps /\ Range(todo) = {Head(todo)} \cup Range(Tail(todo))
        /\ \A i \in N : RowAt(Series(silver[Head(todo)]), i) \in gold'[Head(todo)]
    BY <1>2, <2>1, HeadAndTail DEF ComputeGold, Loops, TypeOK
  <2>3. PICK h : h = Head(todo)
    OBVIOUS
  <2>4. PICK series : series = Series(silver[h])
    OBVIOUS
  <2>5. /\ h \in Pumps /\ Range(todo) = {h} \cup Range(Tail(todo))
        /\ N \in Newest(series) /\ \A i \in N : RowAt(series, i) \in gold'[h]
    BY <2>2, <2>3, <2>4
  <2>6. /\ todo' = Tail(todo) /\ silver' = silver /\ pc = "gold"
        /\ \A p \in Pumps \ {h} : gold'[p] = gold[p]
    BY <1>2, <2>1, <2>3 DEF ComputeGold, TypeOK
  <2>7. PumpIsCurrent(h)'
    <3> SUFFICES ASSUME NEW i \in DOMAIN series,
                        Cardinality({j \in DOMAIN series : series[j] >= series[i]}) <= Limit
                 PROVE  RowAt(series, i) \in gold'[h]
      BY <2>4, <2>6 DEF PumpIsCurrent
    <3>1. series \in Seq({t \in Times : silver[h][t] > 0})
      BY <2>4, <2>5, SilverSeries DEF TypeOK
    <3>2. PICK T : T \subseteq Times /\ series \in Seq(T)
      BY <3>1
    <3>3. i \in N
      BY <2>5, <3>2, NewestIsChosen
    <3>4. QED
      BY <2>5, <3>3
  <2>8. \A p \in Pumps \ Range(Tail(todo)) : p # h => PumpIsCurrent(p)'
    BY <2>5, <2>6 DEF PumpsLeft, PumpIsCurrent
  <2>9. QED
    BY <2>6, <2>7, <2>8 DEF PumpsLeft
<1>3. CASE UNCHANGED <<silver, gold>> /\ (pc' = "gold" => pc = "gold" /\ todo' = todo)
  BY <1>3 DEF PumpsLeft, PumpIsCurrent
<1>4. QED
  BY <1>1, <1>2, <1>3
  DEF Next, Orchestrator, Land, BeginCycle, WeatherAnswered, WeatherUnreachable,
      WeatherRaises, Risk, Sleep, Interrupt, Restart, Stopped, vars, tables

-----------------------------------------------------------------------------
(* Theorems.                                                               *)

Inv == /\ TypeOK /\ Loops /\ StationsLeft /\ OutageKeepsRisk
       /\ CopiesAreClean /\ FeaturesAreClean /\ PumpsLeft

LEMMA InvInit == Init => Inv
<1> SUFFICES ASSUME Init PROVE Inv
  OBVIOUS
<1>1. /\ StationsLeft /\ OutageKeepsRisk /\ CopiesAreClean
      /\ FeaturesAreClean /\ PumpsLeft
  BY DEF Init, StationsLeft, OutageKeepsRisk, CopiesAreClean, FeaturesAreClean, PumpsLeft
<1>2. QED
  BY <1>1, TypeInit DEF Inv

LEMMA InvStep == Inv /\ [Next]_vars => Inv'
BY TypeStep, StationsStep, CleanStep, PumpsStep DEF Inv

LEMMA Invariant == Spec => []Inv
BY InvInit, InvStep, PTL DEF Spec

\* The layers and the loops of the orchestrator hold values of their types, a
\* gold window of at most three readings among them, in every cycle.
THEOREM TypeCorrect == Spec => []TypeOK
BY Invariant, PTL DEF Inv

\* Every reading that entered silver or a gold window passed the quality gate,
\* and is still the reading that was checked.
THEOREM CleanFeatures == Spec => []FeaturesAreClean
BY Invariant, PTL DEF Inv

\* No failure of the weather service costs a station its regional risk, in any
\* cycle that goes on to the telemetry.
THEOREM RiskSurvivesOutage == Spec => []OutageKeepsRisk
BY Invariant, PTL DEF Inv

\* Whenever a cycle has ended, the newest readings of every pump have gold rows
\* computed over the silver table as it now is.
THEOREM CurrentGold == Spec => []GoldIsCurrent
<1>1. Inv => GoldIsCurrent
  <2> SUFFICES ASSUME Inv, pc = "gold", todo = <<>>, NEW p \in Pumps
               PROVE  PumpIsCurrent(p)
    BY DEF GoldIsCurrent, PumpIsCurrent
  <2>1. Range(todo) = {}
    BY DEF Range
  <2>2. QED
    BY <2>1 DEF Inv, PumpsLeft
<1>2. QED
  BY <1>1, Invariant, PTL

-----------------------------------------------------------------------------
(* The tables implement the store of CuratedStore.                         *)

LEMMA GateIsPasses ==
  ASSUME NEW x \in Measurements \cup {None}
  PROVE  Clean(x) <=> Store!Passes(x)
BY MeasurementsAreRecords DEF Clean, Store!Passes

\* The times of a gold computation are a newest part of what silver has.
LEMMA NewestTimes ==
  ASSUME NEW copies \in [Times -> Nat], NEW N \in Newest(Series(copies))
  PROVE  Store!NewestPart({t \in Times : copies[t] > 0}, {Series(copies)[i] : i \in N})
<1> DEFINE series == Series(copies)
           S == {t \in Times : copies[t] > 0}
<1>1. series \in Seq(S) /\ \A t \in S : \E j \in DOMAIN series : series[j] = t
  BY SeriesTyped, SeriesComplete
<1>2. /\ N \subseteq DOMAIN series
      /\ Cardinality(N) = Min({Limit, Len(series)})
      /\ \A i \in N, j \in DOMAIN series \ N : series[i] >= series[j]
  BY DEF Newest, kSubset
<1>3. S \subseteq Int
  BY DEF Times
<1> HIDE DEF series, S
<1>4. \A j \in DOMAIN series : series[j] \in S
  BY <1>1
<1>5. {series[i] : i \in N} \subseteq S
  BY <1>2, <1>4
<1>6. ASSUME S # {} PROVE N # {}
  <2>1. DOMAIN series # {}
    BY <1>1, <1>6
  <2>2. Len(series) \in Nat /\ Len(series) > 0
    BY <1>1, <2>1
  <2>3. Min({Limit, Len(series)}) \in {Limit, Len(series)}
    <3>1. Limit \in Int /\ Len(series) \in Int
      BY <2>2, Bounds
    <3>2. QED
      BY <3>1, MinOfTwo, Zenon
  <2>4. Cardinality(N) # 0
    BY <1>2, <2>2, <2>3, Bounds
  <2>5. QED
    BY <2>4, FS_EmptySet
<1>7. ASSUME NEW t \in S \ {series[i] : i \in N}, NEW u \in {series[i] : i \in N}
      PROVE  t < u
  <2>1. PICK j \in DOMAIN series : series[j] = t
    BY <1>1
  <2>2. PICK i \in N : series[i] = u
    OBVIOUS
  <2>3. u >= t /\ u # t
    BY <1>2, <2>1, <2>2
  <2>4. t \in Int /\ u \in Int
    BY <1>3, <1>5
  <2>5. QED
    BY <2>3, <2>4
<1>8. QED
  BY <1>5, <1>6, <1>7 DEF Store!NewestPart, series, S

Curated == [p \in Pumps |-> {t \in Times : silver[p][t] > 0}]
Featured == [p \in Pumps |-> {row.time : row \in gold[p]}]

LEMMA StoreStep ==
  TypeOK /\ Loops /\ CopiesAreClean /\ [Next]_vars
    => [Store!Next]_<<landed, Curated, Featured>>
<1> SUFFICES ASSUME TypeOK, Loops, CopiesAreClean, [Next]_vars
             PROVE  Store!Next \/ UNCHANGED <<landed, Curated, Featured>>
  OBVIOUS
<1>1. ASSUME NEW p \in Pumps, NEW t \in Times, NEW x \in Measurements, Land(p, t, x)
      PROVE  Store!Next
  <2>1. Store!Land(p, t, x)
    BY <1>1 DEF Land, Store!Land
  <2>2. QED
    BY <2>1 DEF Store!Next
<1>2. CASE ProcessBronze
  <2>1. ASSUME NEW p \in Pumps, NEW t \in Times
        PROVE  silver'[p][t] > 0 <=> Store!Passes(landed[p][t])
    <3>1. silver'[p][t] = Recopied(landed[p][t], silver[p][t])
      BY <1>2 DEF ProcessBronze
    <3>2. silver[p][t] \in 0 .. Cap /\ landed[p][t] \in Measurements \cup {None}
      BY DEF TypeOK
    <3>3. silver[p][t] > 0 => Clean(landed[p][t])
      BY DEF CopiesAreClean
    <3>4. silver'[p][t] > 0 <=> Clean(landed[p][t])
      BY <3>1, <3>2, <3>3, CapIsNatural DEF Recopied
    <3>5. QED
      BY <3>2, <3>4, GateIsPasses
  <2>2. Curated' = [p \in Pumps |-> {t \in Times : Store!Passes(landed[p][t])}]
    BY <2>1 DEF Curated
  <2>3. Store!Curate
    BY <1>2, <2>2 DEF ProcessBronze, Store!Curate, Curated
  <2>4. QED
    BY <2>3 DEF Store!Next
<1>3. CASE ComputeGold
  <2>1. PICK N \in Newest(Series(silver[Head(todo)])) :
          gold' = [gold EXCEPT ![Head(todo)] =
                     @ \cup {RowAt(Series(silver[Head(todo)]), i) : i \in N}]
    BY <1>3 DEF ComputeGold
  <2>2. /\ Head(todo) \in Pumps
        /\ gold'[Head(todo)] =
             gold[Head(todo)] \cup {RowAt(Series(silver[Head(todo)]), i) : i \in N}
        /\ \A p \in Pumps \ {Head(todo)} : gold'[p] = gold[p]
    BY <1>3, <2>1, HeadAndTail DEF ComputeGold, Loops, TypeOK
  <2>3. PICK h, series :
          /\ h \in Pumps /\ series = Series(silver[h]) /\ N \in Newest(series)
          /\ gold'[h] = gold[h] \cup {RowAt(series, i) : i \in N}
          /\ \A p \in Pumps \ {h} : gold'[p] = gold[p]
    BY <2>2
  <2>4. PICK T : T = {series[i] : i \in N}
    OBVIOUS
  <2>5. Store!NewestPart(Curated[h], T)
    <3>1. silver[h] \in [Times -> Nat]
      BY <2>3, CapIsNatural DEF TypeOK
    <3>2. QED
      BY <2>3, <2>4, <3>1, NewestTimes DEF Curated
  <2>6. T \in SUBSET Curated[h]
    BY <2>5 DEF Store!NewestPart
  <2>7. {RowAt(series, i).time : i \in N} = T
    BY <2>4 DEF RowAt
  <2>8. Featured' = [Featured EXCEPT ![h] = @ \cup T]
    <3>1. {row.time : row \in gold'[h]} = {row.time : row \in gold[h]} \cup T
      BY <2>3, <2>7
    <3>2. QED
      BY <2>3, <3>1 DEF Featured
  <2>9. Store!Feature(h)
    BY <1>3, <2>3, <2>5, <2>6, <2>8 DEF ComputeGold, Store!Feature, Curated, Featured
  <2>10. QED
    BY <2>3, <2>9 DEF Store!Next
<1>4. CASE UNCHANGED <<landed, silver, gold>>
  BY <1>4 DEF Curated, Featured
<1>5. QED
  BY <1>1, <1>2, <1>3, <1>4
  DEF Next, Orchestrator, BeginCycle, WeatherAnswered, WeatherUnreachable,
      WeatherRaises, Risk, Sleep, Interrupt, Restart, vars, tables

\* Whatever stops, late readings and repeated copies there are, silver takes over
\* all clean readings at once and no other, and gold grows by newest parts only.
THEOREM PipelineImplementsStore == Spec => ImplementsCuratedStore
<1>1. Init => Store!Init
  BY DEF Init, Store!Init
<1>2. TypeOK /\ Loops /\ CopiesAreClean /\ [Next]_vars
        => [Store!Next]_<<landed, Curated, Featured>>
  BY StoreStep
<1>3. Inv => TypeOK /\ Loops /\ CopiesAreClean
  BY DEF Inv
<1>4. QED
  BY <1>1, <1>2, <1>3, Invariant, PTL
  DEF Spec, ImplementsCuratedStore, Store!Spec, Curated, Featured
=============================================================================
