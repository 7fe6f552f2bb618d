--------------------- MODULE MaintenanceScheduleProofs ---------------------
(***************************************************************************)
(* Theorems about MaintenanceSchedule, for any number of requests, entries *)
(* and orders.                                                             *)
(***************************************************************************)
EXTENDS MaintenanceSchedule, FiniteSetTheorems, WellFoundedInduction, TLAPS

-----------------------------------------------------------------------------
(* Least and greatest elements.                                            *)

LEMMA LeastExists ==
  ASSUME NEW S, S \subseteq Nat, IsFiniteSet(S), S # {}
  PROVE  \E e \in S : \A f \in S : e <= f
<1> DEFINE Below(e) == {f \in S : f < e}
           T == {Below(e) : e \in S}
<1>1. IsWellFoundedOn(StrictSubsetOrdering(S), SUBSET S)
  BY FS_FiniteSubsetsOfFinite, FS_StrictSubsetOrderingWellFounded
<1>2. T \subseteq SUBSET S /\ T # {}
  OBVIOUS
<1>3. PICK U \in T : \A V \in T : ~(<<V, U>> \in StrictSubsetOrdering(S))
  BY <1>1, <1>2, WFMin
<1>4. PICK e \in S : U = Below(e)
  BY <1>3
<1>5. ASSUME NEW f \in S, f < e
      PROVE  FALSE
  <2>1. Below(f) \subseteq U /\ f \in U /\ f \notin Below(f)
    <3>1. e \in Nat /\ f \in Nat /\ ~(f < f)
      OBVIOUS
    <3>2. \A g \in S : g < f => g < e
      BY <1>5, <3>1
    <3> QED  BY <1>4, <1>5, <3>1, <3>2
  <2>2. <<Below(f), U>> \in StrictSubsetOrdering(S)
    BY <1>2, <1>3, <2>1 DEF StrictSubsetOrdering
  <2> QED  BY <1>3, <2>2
<1> QED  BY <1>5

LEMMA GreatestExists ==
  ASSUME NEW S, S \subseteq Nat, IsFiniteSet(S), S # {}
  PROVE  \E e \in S : \A f \in S : f <= e
<1> DEFINE Above(e) == {f \in S : e < f}
           T == {Above(e) : e \in S}
<1>1. IsWellFoundedOn(StrictSubsetOrdering(S), SUBSET S)
  BY FS_FiniteSubsetsOfFinite, FS_StrictSubsetOrderingWellFounded
<1>2. T \subseteq SUBSET S /\ T # {}
  OBVIOUS
<1>3. PICK U \in T : \A V \in T : ~(<<V, U>> \in StrictSubsetOrdering(S))
  BY <1>1, <1>2, WFMin
<1>4. PICK e \in S : U = Above(e)
  BY <1>3
<1>5. ASSUME NEW f \in S, e < f
      PROVE  FALSE
  <2>1. Above(f) \subseteq U /\ f \in U /\ f \notin Above(f)
    <3>1. e \in Nat /\ f \in Nat /\ ~(f < f)
      OBVIOUS
    <3>2. \A g \in S : f < g => e < g
      BY <1>5, <3>1
    <3> QED  BY <1>4, <1>5, <3>1, <3>2
  <2>2. <<Above(f), U>> \in StrictSubsetOrdering(S)
    BY <1>2, <1>3, <2>1 DEF StrictSubsetOrdering
  <2> QED  BY <1>3, <2>2
<1> QED  BY <1>5

LEMMA MinIsLeast ==
  ASSUME NEW S, S \subseteq Orders, S # {}
  PROVE  Min(S) \in S
<1>1. IsFiniteSet(S)
  BY OrderIds, FS_Subset
<1> QED  BY <1>1, OrderIds, LeastExists DEF Min

LEMMA NextRowIsLeast ==
  ASSUME NEW t, t.pending \subseteq Entries, t.pending # {}
  PROVE  NextRow(t) \in t.pending /\ \A f \in t.pending : NextRow(t) <= f
<1>1. IsFiniteSet(t.pending)
  BY EntryIds, FS_Subset
<1>2. \E e \in t.pending : \A f \in t.pending : e <= f
  BY <1>1, EntryIds, LeastExists
<1> QED  BY <1>2 DEF NextRow

-----------------------------------------------------------------------------
(* The inductive invariant.                                                *)

\* What a request may hold; entries are never deleted.
Fit(t) ==
  /\ t.kind = "edit" => t.entry \in Rows /\ t.patch \in Patches
  /\ t.kind = "rank" => DOMAIN t.days \subseteq Rows
  /\ t.kind = "flush" => /\ t.plan \in RanksByUrgency(t.days)
                         /\ t.pending \subseteq DOMAIN t.plan
                         /\ DOMAIN t.plan \subseteq Rows
                         /\ \A e \in DOMAIN t.plan : t.plan[e] \in Nat
  /\ t.kind = "auto" => /\ t.listed \subseteq Orders /\ t.left \subseteq Orders
                        /\ t.adds \subseteq Orders

RequestsAreFit == \A s \in Sessions : Fit(tx[s])

\* A ranking holds rows of its plan, all before those it has still to write.
LocksAreOrdered ==
  \A e \in Entries, s \in Sessions : lock[e] = s =>
    /\ tx[s].kind = "flush" /\ e \in DOMAIN tx[s].plan
    /\ \A f \in tx[s].pending : e < f

\* What a ranking has not kept and has no more to write, it holds.
RankingsAreWhole ==
  \A s \in Sessions : tx[s].kind = "flush" =>
    \A e \in DOMAIN tx[s].plan : e \in tx[s].kept \/ e \in tx[s].pending \/ lock[e] = s

\* The entries a request is about to add, by order.
Adds(s) == IF tx[s].kind = "auto" THEN tx[s].adds ELSE {}

\* One live entry, or one request that is about to add it, not both.
PlannedOnce(o) ==
  /\ \A e, f \in Planned(o) : e = f
  /\ \A s, r \in Sessions : o \in Adds(s) /\ o \in Adds(r) => s = r
  /\ \A s \in Sessions : o \in Adds(s) => Planned(o) = {}

OrdersAreFit == \A o \in Orders \ contested : PlannedOnce(o)

IInv == TypeOK /\ RequestsAreFit /\ LocksAreOrdered /\ RankingsAreWhole /\ OrdersAreFit

LEMMA InitIsFit == Init => IInv
<1> SUFFICES ASSUME Init PROVE IInv
  OBVIOUS
<1>1. TypeOK
  BY DEF Init, TypeOK
<1>2. \A s \in Sessions : tx[s].kind = "idle"
  BY DEF Init, Idle
<1>3. RequestsAreFit /\ \A s \in Sessions : Adds(s) = {}
  BY <1>2 DEF RequestsAreFit, Fit, Adds
<1>4. LocksAreOrdered /\ RankingsAreWhole
  BY <1>2, NoneIsNew DEF Init, LocksAreOrdered, RankingsAreWhole
<1>5. \A o \in Orders : Planned(o) = {}
  BY DEF Init, Planned, Rows
<1> QED  BY <1>1, <1>3, <1>4, <1>5 DEF IInv, OrdersAreFit, PlannedOnce

-----------------------------------------------------------------------------
(* What a step keeps.                                                      *)

Grows == Rows \subseteq Rows'

LEMMA StaysFit ==
  ASSUME Grows, NEW t, Fit(t)
  PROVE  Fit(t)'
BY DEF Grows, Fit

\* Another request's state is what it was.
LEMMA OneBecomes ==
  ASSUME IInv, NEW s \in Sessions, NEW x, Become(s, x), Grows, Fit(x)'
  PROVE  /\ DOMAIN tx' = Sessions /\ tx'[s] = x
         /\ \A r \in Sessions \ {s} : tx'[r] = tx[r]
         /\ RequestsAreFit'
<1>1. /\ DOMAIN tx' = Sessions /\ tx'[s] = x
      /\ \A r \in Sessions \ {s} : tx'[r] = tx[r]
  BY DEF IInv, TypeOK, Become
<1>2. ASSUME NEW r \in Sessions
      PROVE  Fit(tx[r])'
  <2>1. CASE r = s
    BY <1>1, <2>1
  <2>2. CASE r # s
    <3>1. PICK t : t = tx[r]
      OBVIOUS
    <3>2. Fit(t)'
      BY <3>1, StaysFit DEF IInv, RequestsAreFit
    <3> QED  BY <1>1, <2>2, <3>1, <3>2
  <2> QED  BY <2>1, <2>2
<1> QED  BY <1>1, <1>2 DEF RequestsAreFit

\* An order stays planned once where entries and plans only go away.
LEMMA StaysPlannedOnce ==
  ASSUME NEW o \in Orders, PlannedOnce(o), Planned(o)' \subseteq Planned(o),
         \A s \in Sessions : o \in Adds(s)' => o \in Adds(s)
  PROVE  PlannedOnce(o)'
BY DEF PlannedOnce

\* Nothing is planned by a step that leaves the calendar alone.
LEMMA SamePlan ==
  ASSUME UNCHANGED schedule, NEW o
  PROVE  Planned(o)' = Planned(o) /\ Grows
BY DEF Planned, Rows, Live, Grows

\* A step that leaves the calendar and the locks alone, and adds no plan.
LEMMA QuietKeeps ==
  ASSUME IInv, NEW s \in Sessions, NEW x, Become(s, x), Fit(x),
         UNCHANGED <<schedule, lock, contested>>, rul' \in [Pumps -> Days \cup {None}],
         tx[s].kind # "flush",
         x.kind = "flush" => /\ \A e \in Entries : lock[e] # s
                             /\ \A e \in DOMAIN x.plan : e \in x.kept \/ e \in x.pending,
         x.kind = "auto" => x.adds \subseteq Adds(s)
  PROVE  IInv'
<1>1. Grows /\ \A o \in Orders : Planned(o)' = Planned(o)
  BY SamePlan
<1>2. Fit(x)'
  BY <1>1, StaysFit
<1>3. /\ DOMAIN tx' = Sessions /\ tx'[s] = x
      /\ \A r \in Sessions \ {s} : tx'[r] = tx[r]
      /\ RequestsAreFit'
  BY <1>1, <1>2, OneBecomes
<1>4. TypeOK'
  BY <1>3 DEF IInv, TypeOK
<1>5. LocksAreOrdered' /\ RankingsAreWhole'
  BY <1>3 DEF IInv, LocksAreOrdered, RankingsAreWhole
<1>6. \A r \in Sessions, o \in Orders : o \in Adds(r)' => o \in Adds(r)
  BY <1>3 DEF Adds
<1>7. OrdersAreFit'
  BY <1>1, <1>6, StaysPlannedOnce DEF IInv, OrdersAreFit
<1> QED  BY <1>3, <1>4, <1>5, <1>7 DEF IInv

LEMMA IdleIsFit == Fit(Idle) /\ Idle.kind = "idle"
BY DEF Fit, Idle

LEMMA CreateKeeps ==
  ASSUME IInv, NEW e \in Entries, NEW p \in Pumps, CreateEntry(e, p)
  PROVE  IInv'
<1> DEFINE row == [pump |-> p, rank |-> None, status |-> "planned", order |-> None]
<1>1. row \in Row /\ row.order = None
  BY DEF Row, Statuses
<1>2. schedule[e] = None /\ schedule' = [schedule EXCEPT ![e] = row]
      /\ UNCHANGED <<rul, tx, lock, contested>>
  BY DEF CreateEntry
<1> HIDE DEF row
<1>3. schedule' \in [Entries -> Row \cup {None}] /\ schedule'[e] = row
      /\ \A f \in Entries \ {e} : schedule'[f] = schedule[f]
  BY <1>1, <1>2 DEF IInv, TypeOK
<1>4. Grows
  BY <1>2, <1>3 DEF Grows, Rows
<1>5. TypeOK'
  BY <1>2, <1>3 DEF IInv, TypeOK
<1>6. RequestsAreFit'
  <2> SUFFICES ASSUME NEW r \in Sessions PROVE Fit(tx[r])'
    BY DEF RequestsAreFit
  <2> PICK t : t = tx[r]
    OBVIOUS
  <2>1. Fit(t)'
    BY <1>4, StaysFit DEF IInv, RequestsAreFit
  <2> QED  BY <1>2, <2>1
<1>7. LocksAreOrdered' /\ RankingsAreWhole'
  BY <1>2 DEF IInv, LocksAreOrdered, RankingsAreWhole
<1>8. ASSUME NEW o \in Orders PROVE Planned(o)' \subseteq Planned(o)
  <2>1. o # None
    BY OrderIds, NoneIsNew
  <2> QED  BY <1>1, <1>2, <1>3, <2>1 DEF Planned, Rows, Live
<1>9. OrdersAreFit'
  BY <1>2, <1>8, StaysPlannedOnce DEF IInv, OrdersAreFit, Adds
<1> QED  BY <1>5, <1>6, <1>7, <1>9 DEF IInv

LEMMA ReadEntryKeeps ==
  ASSUME IInv, NEW s \in Sessions, NEW e \in Entries, NEW patch \in Patches, ReadEntry(s, e, patch)
  PROVE  IInv'
<1> PICK x : x = [kind |-> "edit", entry |-> e, patch |-> patch,
                  read |-> [c \in DOMAIN patch |-> schedule[e][c]]]
  OBVIOUS
<1>1. x.kind = "edit" /\ x.entry = e /\ x.patch = patch
  OBVIOUS
<1>2. Become(s, x) /\ e \in Rows /\ tx[s].kind = "idle" /\ UNCHANGED <<schedule, rul, lock, contested>>
  BY IdleIsFit DEF ReadEntry, Begin, Become
<1>3. Fit(x)
  BY <1>1, <1>2 DEF Fit
<1>4. rul' \in [Pumps -> Days \cup {None}]
  BY <1>2 DEF IInv, TypeOK
<1> QED  BY <1>1, <1>2, <1>3, <1>4, QuietKeeps

LEMMA ListEntriesKeeps ==
  ASSUME IInv, NEW s \in Sessions, ListEntries(s)
  PROVE  IInv'
<1> PICK x : x = [kind |-> "rank", left |-> Rows, known |-> [e \in Rows |-> schedule[e].rank],
                  days |-> [e \in Rows |-> 0]]
  OBVIOUS
<1>1. x.kind = "rank" /\ DOMAIN x.days = Rows
  OBVIOUS
<1>2. Become(s, x) /\ tx[s].kind = "idle" /\ UNCHANGED <<schedule, rul, lock, contested>>
  BY IdleIsFit DEF ListEntries, Begin, Become
<1>3. Fit(x)
  BY <1>1 DEF Fit
<1>4. rul' \in [Pumps -> Days \cup {None}]
  BY <1>2 DEF IInv, TypeOK
<1> QED  BY <1>1, <1>2, <1>3, <1>4, QuietKeeps

LEMMA ReadRulKeeps ==
  ASSUME IInv, NEW s \in Sessions, NEW e \in Entries, ReadRul(s, e)
  PROVE  IInv'
<1> PICK t : t = tx[s]
  OBVIOUS
<1> PICK x : x = [t EXCEPT !.left = t.left \ {e}, !.days[e] = rul[schedule[e].pump], !.known = Seen(t, e)]
  OBVIOUS
<1>1. t.kind = "rank" /\ Become(s, x) /\ UNCHANGED <<schedule, rul, lock, contested>>
  BY DEF ReadRul
<1>2. x.kind = "rank" /\ DOMAIN x.days = DOMAIN t.days
  BY <1>1
<1>3. Fit(x)
  BY <1>1, <1>2 DEF IInv, RequestsAreFit, Fit
<1>4. rul' \in [Pumps -> Days \cup {None}]
  BY <1>1 DEF IInv, TypeOK
<1> QED  BY <1>1, <1>2, <1>3, <1>4, QuietKeeps

LEMMA EstimateKeeps ==
  ASSUME IInv, NEW s \in Sessions, NEW e \in Entries, NEW d \in Days, EstimateRul(s, e, d)
  PROVE  IInv'
<1> PICK t : t = tx[s]
  OBVIOUS
<1> PICK x : x = [t EXCEPT !.left = t.left \ {e}, !.days[e] = d, !.known = [f \in {} |-> None]]
  OBVIOUS
<1>1. t.kind = "rank" /\ Become(s, x) /\ UNCHANGED <<schedule, lock, contested>>
  BY DEF EstimateRul
<1>2. x.kind = "rank" /\ DOMAIN x.days = DOMAIN t.days
  BY <1>1
<1>3. Fit(x)
  BY <1>1, <1>2 DEF IInv, RequestsAreFit, Fit
<1>4. rul' \in [Pumps -> Days \cup {None}]
  BY DEF EstimateRul, IInv, TypeOK
<1> QED  BY <1>1, <1>2, <1>3, <1>4, QuietKeeps

LEMMA EstimateFailsKeeps ==
  ASSUME IInv, NEW s \in Sessions, NEW e \in Entries, EstimateFails(s, e)
  PROVE  IInv'
<1>1. tx[s].kind = "rank" /\ Become(s, Idle) /\ UNCHANGED <<schedule, rul, lock, contested>>
  BY DEF EstimateFails, Finish, Become
<1>2. rul' \in [Pumps -> Days \cup {None}]
  BY <1>1 DEF IInv, TypeOK
<1> QED  BY <1>1, <1>2, IdleIsFit, QuietKeeps

\* Ranks are natural numbers, and each entry that was listed has one.
LEMMA RanksAreNatural ==
  ASSUME NEW days, DOMAIN days \subseteq Entries, NEW plan \in RanksByUrgency(days)
  PROVE  DOMAIN plan = DOMAIN days /\ \A e \in DOMAIN plan : plan[e] \in Nat
<1>1. Cardinality(DOMAIN days) \in Nat
  BY EntryIds, FS_Subset, FS_CardinalityType
<1> QED  BY <1>1 DEF RanksByUrgency

LEMMA PlanRanksKeeps ==
  ASSUME IInv, NEW s \in Sessions, PlanRanks(s)
  PROVE  IInv'
<1> PICK t : t = tx[s]
  OBVIOUS
<1>1. t.kind = "rank" /\ UNCHANGED <<schedule, rul, lock, contested>>
  BY DEF PlanRanks
<1> PICK plan \in RanksByUrgency(t.days) :
           Become(s, [kind |-> "flush", days |-> t.days, plan |-> plan,
                      kept |-> DOMAIN t.known \ Differing(t, plan), pending |-> Differing(t, plan)])
  BY DEF PlanRanks
<1> PICK x : x = [kind |-> "flush", days |-> t.days, plan |-> plan,
                  kept |-> DOMAIN t.known \ Differing(t, plan), pending |-> Differing(t, plan)]
  OBVIOUS
<1>2. /\ x.kind = "flush" /\ x.plan = plan /\ x.pending = Differing(t, plan) /\ x.days = t.days
      /\ x.kept = DOMAIN t.known \ Differing(t, plan)
  OBVIOUS
<1>3. DOMAIN t.days \subseteq Rows /\ Rows \subseteq Entries
  BY <1>1 DEF IInv, RequestsAreFit, Fit, Rows
<1>4. DOMAIN plan = DOMAIN t.days /\ \A e \in DOMAIN plan : plan[e] \in Nat
  BY <1>3, RanksAreNatural
<1>5. Fit(x)
  BY <1>2, <1>3, <1>4 DEF Fit, Differing
<1>6. \A e \in Entries : lock[e] # s
  BY <1>1 DEF IInv, LocksAreOrdered
<1>7. rul' \in [Pumps -> Days \cup {None}]
  BY <1>1 DEF IInv, TypeOK
<1>8. \A e \in DOMAIN x.plan : e \in x.kept \/ e \in x.pending
  BY <1>2 DEF Differing
<1> QED  BY <1>1, <1>2, <1>5, <1>6, <1>7, <1>8, QuietKeeps

LEMMA ListOrdersKeeps ==
  ASSUME IInv, NEW s \in Sessions, NEW listed \in SUBSET Orders, ListOrders(s, listed)
  PROVE  IInv'
<1> PICK x : x = [kind |-> "auto", listed |-> listed, left |-> listed, adds |-> {}]
  OBVIOUS
<1>1. x.kind = "auto" /\ x.listed = listed /\ x.left = listed /\ x.adds = {}
  OBVIOUS
<1>2. Become(s, x) /\ tx[s].kind = "idle" /\ UNCHANGED <<schedule, rul, lock, contested>>
  BY IdleIsFit DEF ListOrders, Begin, Become
<1>3. Fit(x)
  BY <1>1 DEF Fit
<1>4. rul' \in [Pumps -> Days \cup {None}]
  BY <1>2 DEF IInv, TypeOK
<1> QED  BY <1>1, <1>2, <1>3, <1>4, QuietKeeps

\* The row an edit writes is a row.
LEMMA PatchedIsRow ==
  ASSUME NEW row \in Row, NEW t, t.patch \in Patches
  PROVE  Patched(row, t) \in Row
<1> DEFINE new == Patched(row, t)
<1>1. DOMAIN row = {"pump", "rank", "status", "order"}
  BY DEF Row
<1>2. new = [c \in {"pump", "rank", "status", "order"} |-> IF c \in Changed(t) THEN t.patch[c] ELSE row[c]]
  BY <1>1 DEF Patched
<1>3. /\ "pump" \notin Changed(t)
      /\ "rank" \in Changed(t) => t.patch["rank"] \in Nat \cup {None}
      /\ "status" \in Changed(t) => t.patch["status"] \in Statuses
      /\ "order" \in Changed(t) => t.patch["order"] \in Orders \cup {None}
  BY PatchesAreColumns DEF Changed
<1>4. row.pump \in Pumps /\ row.rank \in Nat \cup {None} /\ row.status \in Statuses
      /\ row.order \in Orders \cup {None}
  BY DEF Row
<1>5. new.pump \in Pumps /\ new.rank \in Nat \cup {None} /\ new.status \in Statuses
      /\ new.order \in Orders \cup {None}
  BY <1>2, <1>3, <1>4
<1>6. new = [pump |-> new.pump, rank |-> new.rank, status |-> new.status, order |-> new.order]
  BY <1>2
<1> HIDE DEF new
<1>7. new \in Row
  BY <1>5, <1>6 DEF Row
<1> QED  BY <1>7 DEF new

LEMMA CommitEditKeeps ==
  ASSUME IInv, NEW s \in Sessions, CommitEdit(s)
  PROVE  IInv'
<1> PICK t, e, row : t = tx[s] /\ e = t.entry /\ row = Patched(schedule[e], t)
  OBVIOUS
<1>1. /\ t.kind = "edit" /\ schedule' = [schedule EXCEPT ![e] = row]
      /\ contested' = contested \cup
           {o \in Orders : row.order = o /\ row.status # "cancelled" /\ e \notin Planned(o)}
      /\ Become(s, Idle) /\ UNCHANGED <<rul, lock>>
  BY DEF CommitEdit, Finish, Become
<1>2. e \in Rows /\ t.patch \in Patches
  BY <1>1 DEF IInv, RequestsAreFit, Fit
<1>3. schedule \in [Entries -> Row \cup {None}] /\ e \in Entries /\ schedule[e] \in Row
  BY <1>2 DEF Rows, IInv, TypeOK
<1>4. row \in Row
  BY <1>2, <1>3, PatchedIsRow
<1>5. schedule' \in [Entries -> Row \cup {None}] /\ schedule'[e] = row
      /\ \A f \in Entries \ {e} : schedule'[f] = schedule[f]
  BY <1>1, <1>3, <1>4
<1>6. Grows
  BY <1>4, <1>5, NoneIsNew DEF Grows, Rows
<1>7. /\ DOMAIN tx' = Sessions /\ tx'[s] = Idle
      /\ \A r \in Sessions \ {s} : tx'[r] = tx[r]
      /\ RequestsAreFit'
  <2>1. Fit(Idle)'
    BY <1>6, IdleIsFit, StaysFit
  <2> QED  BY <1>1, <1>6, <2>1, OneBecomes
<1>8. TypeOK'
  BY <1>1, <1>5, <1>7 DEF IInv, TypeOK
<1>9. LocksAreOrdered' /\ RankingsAreWhole'
  BY <1>1, <1>7, IdleIsFit DEF IInv, LocksAreOrdered, RankingsAreWhole
<1>10. ASSUME NEW o \in Orders \ contested'
       PROVE  PlannedOnce(o)'
  <2>1. PlannedOnce(o)
    BY <1>1 DEF IInv, OrdersAreFit
  <2>2. Planned(o)' \subseteq Planned(o)
    <3> SUFFICES ASSUME NEW f \in Planned(o)' PROVE f \in Planned(o)
      OBVIOUS
    <3>1. f \in Entries /\ schedule'[f] # None /\ schedule'[f].order = o /\ schedule'[f].status # "cancelled"
      BY DEF Planned, Rows, Live
    <3>2. CASE f = e
      BY <1>1, <1>5, <3>1, <3>2
    <3>3. CASE f # e
      BY <1>5, <3>1, <3>3 DEF Planned, Rows, Live
    <3> QED  BY <3>2, <3>3
  <2>3. \A r \in Sessions : o \in Adds(r)' => o \in Adds(r)
    BY <1>7, IdleIsFit DEF Adds
  <2> QED  BY <2>1, <2>2, <2>3, StaysPlannedOnce
<1> QED  BY <1>7, <1>8, <1>9, <1>10 DEF IInv, OrdersAreFit

LEMMA UpdateRowKeeps ==
  ASSUME IInv, NEW s \in Sessions, UpdateRow(s)
  PROVE  IInv'
<1> PICK t, e : t = tx[s] /\ e = NextRow(t)
  OBVIOUS
<1> PICK x : x = [t EXCEPT !.pending = t.pending \ {e}]
  OBVIOUS
<1>1. /\ t.kind = "flush" /\ t.pending # {} /\ lock[e] = None
      /\ lock' = [lock EXCEPT ![e] = s] /\ Become(s, x)
      /\ UNCHANGED <<schedule, rul, contested>>
  BY DEF UpdateRow
<1>2. Fit(t) /\ Rows \subseteq Entries
  BY DEF IInv, RequestsAreFit, Rows
<1>3. e \in t.pending /\ e \in DOMAIN t.plan /\ e \in Entries /\ \A f \in t.pending : e <= f
  <2>1. t.pending \subseteq DOMAIN t.plan /\ t.pending \subseteq Entries
    BY <1>1, <1>2 DEF Fit
  <2> QED  BY <1>1, <2>1, NextRowIsLeast
<1>4. /\ x.kind = "flush" /\ x.plan = t.plan /\ x.days = t.days /\ x.kept = t.kept
      /\ x.pending = t.pending \ {e}
  BY <1>1
<1>5. Fit(x)
  BY <1>1, <1>2, <1>4 DEF Fit
<1>6. Grows /\ \A o \in Orders : Planned(o)' = Planned(o)
  BY <1>1, SamePlan
<1>7. /\ DOMAIN tx' = Sessions /\ tx'[s] = x
      /\ \A r \in Sessions \ {s} : tx'[r] = tx[r]
      /\ RequestsAreFit'
  <2>1. Fit(x)'
    BY <1>5, <1>6, StaysFit
  <2> QED  BY <1>1, <1>6, <2>1, OneBecomes
<1>8. /\ lock' \in [Entries -> Sessions \cup {None}] /\ lock'[e] = s
      /\ \A f \in Entries \ {e} : lock'[f] = lock[f]
  BY <1>1, <1>3 DEF IInv, TypeOK
<1>9. TypeOK'
  BY <1>1, <1>7, <1>8 DEF IInv, TypeOK
<1>10. LocksAreOrdered'
  <2> SUFFICES ASSUME NEW f \in Entries, NEW r \in Sessions, lock'[f] = r
               PROVE  /\ tx'[r].kind = "flush" /\ f \in DOMAIN tx'[r].plan
                      /\ \A g \in tx'[r].pending : f < g
    BY DEF LocksAreOrdered
  <2>1. CASE f = e
    <3>1. r = s
      BY <1>8, <2>1
    <3>2. \A g \in t.pending \ {e} : e < g
      BY <1>1, <1>2, <1>3, EntryIds DEF Fit
    <3> QED  BY <1>3, <1>4, <1>7, <2>1, <3>1, <3>2
  <2>2. CASE f # e /\ r = s
    <3>1. lock[f] = s
      BY <1>8, <2>2
    <3>2. f \in DOMAIN t.plan /\ \A g \in t.pending : f < g
      BY <3>1 DEF IInv, LocksAreOrdered
    <3> QED  BY <1>4, <1>7, <2>2, <3>2
  <2>3. CASE f # e /\ r # s
    BY <1>7, <1>8, <2>3 DEF IInv, LocksAreOrdered
  <2> QED  BY <2>1, <2>2, <2>3
<1>11. RankingsAreWhole'
  <2> SUFFICES ASSUME NEW r \in Sessions, tx'[r].kind = "flush", NEW f \in DOMAIN tx'[r].plan
               PROVE  f \in tx'[r].kept \/ f \in tx'[r].pending \/ lock'[f] = r
    BY DEF RankingsAreWhole
  <2>1. CASE r = s
    <3>1. f \in t.kept \/ f \in t.pending \/ lock[f] = s
      <4>1. f \in DOMAIN tx[s].plan
        BY <1>4, <1>7, <2>1
      <4> QED  BY <1>1, <4>1 DEF IInv, RankingsAreWhole
    <3>2. f \in Entries
      BY <1>1, <1>2, <1>4, <1>7, <2>1 DEF Fit
    <3> QED  BY <1>4, <1>7, <1>8, <2>1, <3>1, <3>2
  <2>2. CASE r # s
    <3>1. f \in tx[r].kept \/ f \in tx[r].pending \/ lock[f] = r
      BY <1>7, <2>2 DEF IInv, RankingsAreWhole
    <3>2. lock[f] = r => lock'[f] = r
      <4>1. f \in Entries
        <5>1. Fit(tx[r]) /\ tx[r] = tx'[r]
          BY <1>7, <2>2 DEF IInv, RequestsAreFit
        <5> QED  BY <1>2, <5>1 DEF Fit
      <4> QED  BY <1>1, <1>8, <4>1, NoneIsNew
    <3> QED  BY <1>7, <2>2, <3>1, <3>2
  <2> QED  BY <2>1, <2>2
<1>12. OrdersAreFit'
  <2>1. \A r \in Sessions, o \in Orders : o \in Adds(r)' => o \in Adds(r)
    BY <1>4, <1>7 DEF Adds
  <2> QED  BY <1>1, <1>6, <2>1, StaysPlannedOnce DEF IInv, OrdersAreFit
<1> QED  BY <1>7, <1>9, <1>10, <1>11, <1>12 DEF IInv

LEMMA CommitRanksKeeps ==
  ASSUME IInv, NEW s \in Sessions, CommitRanks(s)
  PROVE  IInv'
<1> PICK t : t = tx[s]
  OBVIOUS
<1>1. /\ t.kind = "flush"
      /\ schedule' = [e \in Entries |->
            IF lock[e] = s THEN [schedule[e] EXCEPT !.rank = t.plan[e]] ELSE schedule[e]]
      /\ lock' = [e \in Entries |-> IF lock[e] = s THEN None ELSE lock[e]]
      /\ Become(s, Idle) /\ UNCHANGED <<rul, contested>>
  BY DEF CommitRanks, Finish, Become
<1>2. ASSUME NEW e \in Entries, lock[e] = s
      PROVE  /\ schedule[e] \in Row /\ schedule'[e] \in Row
             /\ schedule'[e].order = schedule[e].order /\ schedule'[e].status = schedule[e].status
  <2>1. e \in DOMAIN t.plan
    BY <1>2 DEF IInv, LocksAreOrdered
  <2>2. e \in Rows /\ t.plan[e] \in Nat
    BY <1>1, <2>1 DEF IInv, RequestsAreFit, Fit
  <2>3. schedule[e] \in Row
    BY <2>2 DEF IInv, TypeOK, Rows
  <2>4. schedule'[e] = [schedule[e] EXCEPT !.rank = t.plan[e]]
    BY <1>1, <1>2
  <2> QED  BY <2>2, <2>3, <2>4 DEF Row
<1>3. \A e \in Entries : lock[e] # s => schedule'[e] = schedule[e]
  BY <1>1
<1>4. schedule' \in [Entries -> Row \cup {None}]
  <2>1. \A e \in Entries : schedule'[e] \in Row \cup {None}
    BY <1>2, <1>3 DEF IInv, TypeOK
  <2> QED  BY <1>1, <2>1
<1>5. Grows
  BY <1>2, <1>3, NoneIsNew DEF Grows, Rows
<1>6. /\ DOMAIN tx' = Sessions /\ tx'[s] = Idle
      /\ \A r \in Sessions \ {s} : tx'[r] = tx[r]
      /\ RequestsAreFit'
  <2>1. Fit(Idle)'
    BY <1>5, IdleIsFit, StaysFit
  <2> QED  BY <1>1, <1>5, <2>1, OneBecomes
<1>7. lock' \in [Entries -> Sessions \cup {None}]
  BY <1>1 DEF IInv, TypeOK
<1>8. TypeOK'
  BY <1>1, <1>4, <1>6, <1>7 DEF IInv, TypeOK
<1>9. LocksAreOrdered'
  <2>1. ASSUME NEW e \in Entries, NEW r \in Sessions, lock'[e] = r
        PROVE  r # s /\ lock[e] = r
    BY <1>1, <2>1, NoneIsNew
  <2> QED  BY <1>6, <2>1 DEF IInv, LocksAreOrdered
<1>10. RankingsAreWhole'
  <2> SUFFICES ASSUME NEW r \in Sessions, tx'[r].kind = "flush", NEW f \in DOMAIN tx'[r].plan
               PROVE  f \in tx'[r].kept \/ f \in tx'[r].pending \/ lock'[f] = r
    BY DEF RankingsAreWhole
  <2>1. r # s /\ tx'[r] = tx[r]
    BY <1>6, IdleIsFit
  <2>2. f \in tx[r].kept \/ f \in tx[r].pending \/ lock[f] = r
    BY <2>1 DEF IInv, RankingsAreWhole
  <2>3. f \in Entries
    <3>1. Fit(tx[r])
      BY DEF IInv, RequestsAreFit
    <3> QED  BY <2>1, <3>1 DEF Fit, Rows
  <2> QED  BY <1>1, <2>1, <2>2, <2>3
<1>11. ASSUME NEW o \in Orders
       PROVE  Planned(o)' \subseteq Planned(o)
  <2> SUFFICES ASSUME NEW f \in Planned(o)' PROVE f \in Planned(o)
    OBVIOUS
  <2>1. f \in Entries /\ schedule'[f] # None /\ schedule'[f].order = o /\ schedule'[f].status # "cancelled"
    BY DEF Planned, Rows, Live
  <2>2. schedule[f] # None /\ schedule[f].order = o /\ schedule[f].status # "cancelled"
    BY <1>2, <1>3, <2>1, NoneIsNew
  <2> QED  BY <2>1, <2>2 DEF Planned, Rows, Live
<1>12. OrdersAreFit'
  <2>1. \A r \in Sessions, o \in Orders : o \in Adds(r)' => o \in Adds(r)
    BY <1>6, IdleIsFit DEF Adds
  <2> QED  BY <1>1, <1>11, <2>1, StaysPlannedOnce DEF IInv, OrdersAreFit
<1> QED  BY <1>6, <1>8, <1>9, <1>10, <1>12 DEF IInv

LEMMA LookUpKeeps ==
  ASSUME IInv, NEW s \in Sessions, LookUpOrder(s)
  PROVE  IInv'
<1> PICK t, o : t = tx[s] /\ o = Min(t.left)
  OBVIOUS
<1> PICK x : x = [t EXCEPT !.left = t.left \ {o}, !.adds = IF IsPlanned(o) THEN t.adds ELSE t.adds \cup {o}]
  OBVIOUS
<1>1. /\ t.kind = "auto" /\ t.left # {} /\ Become(s, x)
      /\ contested' = IF IsPlanned(o) \/ {r \in Sessions \ {s} : tx[r].kind = "auto" /\ o \in tx[r].adds} = {}
                      THEN contested ELSE contested \cup {o}
      /\ UNCHANGED <<schedule, rul, lock>>
  BY DEF LookUpOrder
<1>2. Fit(t)
  BY DEF IInv, RequestsAreFit
<1>3. o \in Orders
  BY <1>1, <1>2, MinIsLeast DEF Fit
<1>4. /\ x.kind = "auto" /\ x.listed = t.listed /\ x.left = t.left \ {o}
      /\ x.adds = IF IsPlanned(o) THEN t.adds ELSE t.adds \cup {o}
  BY <1>1
<1>5. Fit(x)
  BY <1>1, <1>2, <1>3, <1>4 DEF Fit
<1>6. Grows /\ \A q \in Orders : Planned(q)' = Planned(q)
  BY <1>1, SamePlan
<1>7. /\ DOMAIN tx' = Sessions /\ tx'[s] = x
      /\ \A r \in Sessions \ {s} : tx'[r] = tx[r]
      /\ RequestsAreFit'
  <2>1. Fit(x)'
    BY <1>5, <1>6, StaysFit
  <2> QED  BY <1>1, <1>6, <2>1, OneBecomes
<1>8. contested \subseteq contested' /\ contested' \subseteq contested \cup {o}
  BY <1>1
<1>9. TypeOK'
  BY <1>1, <1>3, <1>7, <1>8 DEF IInv, TypeOK
<1>10. LocksAreOrdered' /\ RankingsAreWhole'
  <2>1. tx[s].kind # "flush" /\ tx'[s].kind # "flush"
    BY <1>1, <1>4, <1>7
  <2>2. \A e \in Entries, r \in Sessions : lock[e] = r => r # s
    BY <2>1 DEF IInv, LocksAreOrdered
  <2>3. LocksAreOrdered'
    BY <1>1, <1>7, <2>2 DEF IInv, LocksAreOrdered
  <2>4. RankingsAreWhole'
    <3> SUFFICES ASSUME NEW r \in Sessions, tx'[r].kind = "flush"
                 PROVE  \A e \in DOMAIN tx'[r].plan :
                          e \in tx'[r].kept \/ e \in tx'[r].pending \/ lock'[e] = r
      BY DEF RankingsAreWhole
    <3>1. tx'[r] = tx[r] /\ lock' = lock
      BY <1>1, <1>7, <2>1
    <3> QED  BY <3>1 DEF IInv, RankingsAreWhole
  <2> QED  BY <2>3, <2>4
<1>11. ASSUME NEW q \in Orders \ contested'
       PROVE  PlannedOnce(q)'
  <2>1. PlannedOnce(q)
    BY <1>8 DEF IInv, OrdersAreFit
  <2>2. CASE q # o \/ IsPlanned(o)
    <3>1. ASSUME NEW r \in Sessions, q \in Adds(r)' PROVE q \in Adds(r)
      <4>1. CASE r = s
        <5>1. q \in x.adds
          BY <1>4, <1>7, <3>1, <4>1 DEF Adds
        <5>2. q \in t.adds
          BY <1>4, <2>2, <5>1
        <5> QED  BY <1>1, <4>1, <5>2 DEF Adds
      <4>2. CASE r # s
        BY <1>7, <3>1, <4>2 DEF Adds
      <4> QED  BY <4>1, <4>2
    <3> QED  BY <1>6, <2>1, <3>1, StaysPlannedOnce
  <2>3. CASE q = o /\ ~IsPlanned(o)
    <3>1. Planned(q)' = {}
      BY <1>3, <1>6, <2>3 DEF IsPlanned
    <3>2. \A r \in Sessions \ {s} : ~(tx[r].kind = "auto" /\ o \in tx[r].adds)
      BY <1>1, <2>3
    <3>3. \A r \in Sessions \ {s} : q \notin Adds(r)'
      BY <1>7, <2>3, <3>2 DEF Adds
    <3> QED  BY <3>1, <3>3 DEF PlannedOnce
  <2> QED  BY <2>2, <2>3
<1> QED  BY <1>7, <1>9, <1>10, <1>11 DEF IInv, OrdersAreFit

LEMMA CommitPlanKeeps ==
  ASSUME IInv, NEW s \in Sessions, CommitPlan(s)
  PROVE  IInv'
<1> PICK t : t = tx[s]
  OBVIOUS
<1> PICK id \in [t.adds -> Entries \ Rows] :
      /\ \A o, q \in t.adds : o # q => id[o] # id[q]
      /\ schedule' = [e \in Entries |->
           IF \E o \in t.adds : id[o] = e
           THEN LET o == CHOOSE o \in t.adds : id[o] = e
                IN [pump |-> OrderPump[o], rank |-> Place(t, o),
                    status |-> "planned", order |-> o]
           ELSE schedule[e]]
  BY DEF CommitPlan
<1>1. t.kind = "auto" /\ Become(s, Idle) /\ UNCHANGED <<rul, lock, contested>>
  BY DEF CommitPlan, Finish, Become
<1>2. t.adds \subseteq Orders /\ t.listed \subseteq Orders
  BY <1>1 DEF IInv, RequestsAreFit, Fit
<1>3. ASSUME NEW e \in Entries, NEW o \in t.adds, id[o] = e
      PROVE  schedule[e] = None /\ schedule'[e] \in Row /\ schedule'[e].order = o
  <2>1. (CHOOSE q \in t.adds : id[q] = e) = o
    BY <1>3
  <2>2. schedule'[e] = [pump |-> OrderPump[o], rank |-> Place(t, o), status |-> "planned", order |-> o]
    BY <1>3, <2>1
  <2>3. Place(t, o) \in Nat
    <3>1. {q \in t.listed : q <= o} \subseteq Orders
      BY <1>2
    <3> QED  BY <3>1, OrderIds, FS_Subset, FS_CardinalityType DEF Place
  <2>4. o \in Orders /\ OrderPump[o] \in Pumps
    BY <1>2, PumpSets
  <2>5. schedule[e] = None
    BY <1>3 DEF Rows
  <2> QED  BY <2>2, <2>3, <2>4, <2>5 DEF Row, Statuses
<1>4. \A e \in Entries : (\A o \in t.adds : id[o] # e) => schedule'[e] = schedule[e]
  OBVIOUS
<1>5. schedule' \in [Entries -> Row \cup {None}]
  <2>1. \A e \in Entries : schedule'[e] \in Row \cup {None}
    BY <1>3, <1>4 DEF IInv, TypeOK
  <2>2. DOMAIN schedule' = Entries /\ schedule' = [e \in Entries |-> schedule'[e]]
    OBVIOUS
  <2> QED  BY <2>1, <2>2
<1>6. Grows
  BY <1>3, <1>4 DEF Grows, Rows
<1>7. /\ DOMAIN tx' = Sessions /\ tx'[s] = Idle
      /\ \A r \in Sessions \ {s} : tx'[r] = tx[r]
      /\ RequestsAreFit'
  <2>1. Fit(Idle)'
    BY <1>6, IdleIsFit, StaysFit
  <2> QED  BY <1>1, <1>6, <2>1, OneBecomes
<1>8. TypeOK'
  BY <1>1, <1>5, <1>7 DEF IInv, TypeOK
<1>9. LocksAreOrdered' /\ RankingsAreWhole'
  BY <1>1, <1>7, IdleIsFit DEF IInv, LocksAreOrdered, RankingsAreWhole
<1>10. \A r \in Sessions, q \in Orders : q \in Adds(r)' => r # s /\ q \in Adds(r)
  BY <1>7, IdleIsFit DEF Adds
<1>11. ASSUME NEW q \in Orders, NEW f \in Planned(q)'
       PROVE  (q \in t.adds /\ id[q] = f) \/ (q \notin t.adds /\ f \in Planned(q))
                \/ (q \in t.adds /\ f \in Planned(q))
  <2>1. f \in Entries /\ schedule'[f] # None /\ schedule'[f].order = q /\ schedule'[f].status # "cancelled"
    BY DEF Planned, Rows, Live
  <2>2. CASE \E o \in t.adds : id[o] = f
    BY <1>3, <2>1, <2>2
  <2>3. CASE \A o \in t.adds : id[o] # f
    <3>1. schedule'[f] = schedule[f]
      BY <1>4, <2>1, <2>3
    <3> QED  BY <2>1, <3>1 DEF Planned, Rows, Live
  <2> QED  BY <2>2, <2>3
<1>12. ASSUME NEW q \in Orders \ contested'
       PROVE  PlannedOnce(q)'
  <2>1. PlannedOnce(q)
    BY <1>1 DEF IInv, OrdersAreFit
  <2>2. CASE q \in t.adds
    <3>1. q \in Adds(s) /\ Planned(q) = {}
      BY <1>1, <2>1, <2>2 DEF Adds, PlannedOnce
    <3>2. \A f \in Planned(q)' : f = id[q]
      BY <1>11, <3>1
    <3>3. \A r \in Sessions : q \notin Adds(r)'
      BY <1>10, <2>1, <3>1 DEF PlannedOnce
    <3> QED  BY <3>2, <3>3 DEF PlannedOnce
  <2>3. CASE q \notin t.adds
    BY <1>10, <1>11, <2>1, <2>3, StaysPlannedOnce
  <2> QED  BY <2>2, <2>3
<1> QED  BY <1>7, <1>8, <1>9, <1>12 DEF IInv, OrdersAreFit

\* Steps that touch neither the calendar nor a request.
LEMMA AsideKeeps ==
  ASSUME IInv, UNCHANGED <<schedule, tx, lock, contested>>, rul' \in [Pumps -> Days \cup {None}]
  PROVE  IInv'
<1>1. Grows /\ \A o \in Orders : Planned(o)' = Planned(o)
  BY SamePlan
<1>2. RequestsAreFit'
  <2> SUFFICES ASSUME NEW r \in Sessions PROVE Fit(tx[r])'
    BY DEF RequestsAreFit
  <2> PICK t : t = tx[r]
    OBVIOUS
  <2>1. Fit(t)'
    BY <1>1, StaysFit DEF IInv, RequestsAreFit
  <2> QED  BY <2>1
<1>3. TypeOK' /\ LocksAreOrdered' /\ RankingsAreWhole'
  BY DEF IInv, TypeOK, LocksAreOrdered, RankingsAreWhole
<1>4. OrdersAreFit'
  BY <1>1, StaysPlannedOnce DEF IInv, OrdersAreFit, Adds
<1> QED  BY <1>2, <1>3, <1>4 DEF IInv

-----------------------------------------------------------------------------
(* The theorems.                                                           *)

LEMMA RequestKeeps ==
  ASSUME IInv, NEW s \in Sessions, Request(s)
  PROVE  IInv'
<1>1. CASE \E e \in Entries, patch \in Patches : ReadEntry(s, e, patch)
  BY <1>1, ReadEntryKeeps
<1>2. CASE CommitEdit(s)
  BY <1>2, CommitEditKeeps
<1>3. CASE ListEntries(s) \/ PlanRanks(s) \/ UpdateRow(s) \/ CommitRanks(s)
  BY <1>3, ListEntriesKeeps, PlanRanksKeeps, UpdateRowKeeps, CommitRanksKeeps
<1>4. CASE \E e \in Entries : ReadRul(s, e) \/ EstimateFails(s, e)
  BY <1>4, ReadRulKeeps, EstimateFailsKeeps
<1>5. CASE \E e \in Entries, d \in Days : EstimateRul(s, e, d)
  BY <1>5, EstimateKeeps
<1>6. CASE \E listed \in SUBSET Orders : ListOrders(s, listed)
  BY <1>6, ListOrdersKeeps
<1>7. CASE LookUpOrder(s) \/ CommitPlan(s)
  BY <1>7, LookUpKeeps, CommitPlanKeeps
<1> QED  BY <1>1, <1>2, <1>3, <1>4, <1>5, <1>6, <1>7 DEF Request

LEMMA StepKeeps == IInv /\ [Next]_vars => IInv'
<1> SUFFICES ASSUME IInv, [Next]_vars PROVE IInv'
  OBVIOUS
<1>1. CASE \E s \in Sessions : Request(s)
  BY <1>1, RequestKeeps
<1>2. CASE \E e \in Entries, p \in HandPumps : CreateEntry(e, p)
  BY <1>2, PumpSets, CreateKeeps
<1>3. CASE \E p \in Pumps, d \in Days : NewEstimate(p, d)
  <2>1. UNCHANGED <<schedule, tx, lock, contested>> /\ rul' \in [Pumps -> Days \cup {None}]
    BY <1>3 DEF NewEstimate, IInv, TypeOK
  <2> QED  BY <2>1, AsideKeeps
<1>4. CASE UNCHANGED vars
  BY <1>4, AsideKeeps DEF vars, IInv, TypeOK
<1> QED  BY <1>1, <1>2, <1>3, <1>4 DEF Next

LEMMA Inductive == Spec => []IInv
BY InitIsFit, StepKeeps, PTL DEF Spec

\* Type correctness, for any number of requests, entries, orders and pumps.
THEOREM ScheduleTypeCorrect == Spec => []TypeOK
<1>1. IInv => TypeOK
  BY DEF IInv
<1> QED  BY <1>1, Inductive, PTL

\* An order has one live entry, however many automations follow one another
\* and whatever is edited between them.
THEOREM OrdersArePlannedOnce == Spec => []PlannedOncePerOrder
<1>1. IInv => PlannedOncePerOrder
  BY DEF IInv, OrdersAreFit, PlannedOnce, PlannedOncePerOrder
<1> QED  BY <1>1, Inductive, PTL

\* In every group the request that wants the last row waits for nobody of
\* the group.
LEMMA GroupIsFree ==
  ASSUME IInv, NEW group, group \in SUBSET Sessions, group # {},
         \A s \in group : \E r \in group : WaitsFor(s, r)
  PROVE  FALSE
<1> DEFINE waiting == {r \in group : tx[r].kind = "flush" /\ tx[r].pending # {}}
           wanted == {NextRow(tx[r]) : r \in waiting}
<1>1. ASSUME NEW r \in waiting
      PROVE  /\ tx[r].pending \subseteq Entries /\ NextRow(tx[r]) \in Entries
             /\ NextRow(tx[r]) \in tx[r].pending
  <2>1. tx[r].pending \subseteq Entries /\ tx[r].pending # {}
    BY DEF IInv, RequestsAreFit, Fit, Rows
  <2> QED  BY <2>1, NextRowIsLeast
<1>2. ASSUME NEW e \in Entries, NEW r \in group, lock[e] = r
      PROVE  r \in waiting /\ e < NextRow(tx[r])
  <2>1. tx[r].kind = "flush" /\ \A f \in tx[r].pending : e < f
    BY <1>2 DEF IInv, LocksAreOrdered
  <2>2. PICK q \in group : WaitsFor(r, q)
    OBVIOUS
  <2>3. r \in waiting
    BY <2>1, <2>2 DEF WaitsFor
  <2> QED  BY <1>1, <2>1, <2>3
<1>3. \A s \in group : \E e \in Entries, r \in group :
        lock[e] = r /\ (s \in waiting => e = NextRow(tx[s]))
  <2> SUFFICES ASSUME NEW s \in group
               PROVE  \E e \in Entries, r \in group :
                        lock[e] = r /\ (s \in waiting => e = NextRow(tx[s]))
    OBVIOUS
  <2>1. PICK r \in group : WaitsFor(s, r)
    OBVIOUS
  <2>2. CASE tx[s].kind = "flush" /\ tx[s].pending # {} /\ lock[NextRow(tx[s])] = r
    BY <1>1, <2>2
  <2>3. CASE tx[s].kind = "edit" /\ lock[tx[s].entry] = r
    <3>1. tx[s].entry \in Entries
      BY <2>3 DEF IInv, RequestsAreFit, Fit, Rows
    <3> QED  BY <2>3, <3>1
  <2> QED  BY <2>1, <2>2, <2>3 DEF WaitsFor
<1>4. waiting # {}
  <2>1. PICK s : s \in group
    OBVIOUS
  <2>2. PICK e \in Entries, r \in group : lock[e] = r
    BY <1>3, <2>1
  <2>3. r \in waiting
    BY <1>2, <2>2
  <2> QED  BY <2>3
<1>5. wanted \subseteq Entries /\ wanted # {}
  BY <1>1, <1>4
<1>6. PICK last \in wanted : \A e \in wanted : e <= last
  <2>1. IsFiniteSet(wanted) /\ wanted \subseteq Nat
    BY <1>5, EntryIds, FS_Subset
  <2> HIDE DEF wanted
  <2> QED  BY <1>5, <2>1, GreatestExists
<1>7. PICK s \in waiting : last = NextRow(tx[s])
  BY <1>6
<1>8. PICK r \in group : lock[last] = r
  BY <1>3, <1>7
<1>9. r \in waiting /\ last < NextRow(tx[r])
  BY <1>2, <1>5, <1>6, <1>8
<1>10. NextRow(tx[r]) <= last /\ NextRow(tx[r]) \in Nat /\ last \in Nat
  BY <1>1, <1>5, <1>6, <1>9, EntryIds
<1> QED  BY <1>9, <1>10

\* No circle of requests waits for one another's rows, however many rankings
\* and edits there are.
THEOREM RankingsAreFree == Spec => []RankingsNeverDeadlock
<1>1. IInv => RankingsNeverDeadlock
  <2> SUFFICES ASSUME IInv PROVE RankingsNeverDeadlock
    OBVIOUS
  <2> QED  BY GroupIsFree DEF RankingsNeverDeadlock
<1> QED  BY <1>1, Inductive, PTL

\* A ranking that commits while what it read is still so leaves the ranks
\* that its remaining lives ask for.
THEOREM CommittedRanksFollowRul == Spec => RankingFollowsRul
<1> DEFINE Follows(s) ==
      tx[s].kind = "flush" /\ tx'[s] = Idle /\ UpToDate(tx[s])
        => [e \in DOMAIN tx[s].plan |-> schedule'[e].rank]
             \in RanksByUrgency([e \in DOMAIN tx[s].plan |-> rul[schedule[e].pump]])
<1>1. ASSUME IInv, NEW s \in Sessions, [Next]_vars
      PROVE  Follows(s)
  <2> SUFFICES ASSUME tx[s].kind = "flush", tx'[s] = Idle, UpToDate(tx[s])
               PROVE  [e \in DOMAIN tx[s].plan |-> schedule'[e].rank]
                        \in RanksByUrgency([e \in DOMAIN tx[s].plan |-> rul[schedule[e].pump]])
    OBVIOUS
  <2>1. CommitRanks(s)
    <3>1. tx'[s] # tx[s]
      BY IdleIsFit
    <3>2. PICK r \in Sessions : Request(r)
      <4>1. ~(\E e \in Entries, p \in HandPumps : CreateEntry(e, p))
        BY <3>1 DEF CreateEntry
      <4>2. ~(\E p \in Pumps, d \in Days : NewEstimate(p, d)) /\ ~(UNCHANGED vars)
        BY <3>1 DEF NewEstimate, vars
      <4> QED  BY <1>1, <4>1, <4>2 DEF Next
    <3>3. r = s
      <4>1. PICK x : Become(r, x)
        BY <3>2 DEF Request, ReadEntry, CommitEdit, ListEntries, PlanRanks, UpdateRow, CommitRanks,
                    ReadRul, EstimateFails, EstimateRul, ListOrders, LookUpOrder, CommitPlan,
                    Begin, Become, Finish
      <4> QED  BY <3>1, <4>1 DEF Become
    <3>4. CommitRanks(s) \/ UpdateRow(s)
      BY <3>2, <3>3, IdleIsFit DEF Request, ReadEntry, CommitEdit, ListEntries, PlanRanks,
         ReadRul, EstimateFails, EstimateRul, ListOrders, LookUpOrder, CommitPlan, Begin
    <3>5. ~UpdateRow(s)
      <4> SUFFICES ASSUME UpdateRow(s) PROVE FALSE
        OBVIOUS
      <4> PICK t, x : t = tx[s] /\ x = [t EXCEPT !.pending = t.pending \ {NextRow(t)}]
        OBVIOUS
      <4>1. x.kind = "flush" /\ Become(s, x)
        BY DEF UpdateRow
      <4>2. tx'[s] = x
        BY <1>1, <4>1 DEF Become, IInv, TypeOK
      <4> QED  BY <4>1, <4>2, IdleIsFit
    <3> QED  BY <3>4, <3>5
  <2> PICK t : t = tx[s]
    OBVIOUS
  <2>2. /\ t.pending = {}
        /\ schedule' = [e \in Entries |->
              IF lock[e] = s THEN [schedule[e] EXCEPT !.rank = t.plan[e]] ELSE schedule[e]]
    BY <2>1 DEF CommitRanks
  <2>3. t.plan \in RanksByUrgency(t.days) /\ DOMAIN t.plan \subseteq Rows
    <3>1. Fit(t)
      BY <1>1 DEF IInv, RequestsAreFit
    <3> QED  BY <3>1 DEF Fit
  <2>4. ASSUME NEW e \in DOMAIN t.plan
        PROVE  schedule'[e].rank = t.plan[e]
    <3>1. e \in Entries /\ schedule[e] \in Row
      BY <1>1, <2>3 DEF IInv, TypeOK, Rows
    <3>2. CASE lock[e] = s
      <4>1. schedule'[e] = [schedule[e] EXCEPT !.rank = t.plan[e]]
        BY <2>2, <3>1, <3>2
      <4> QED  BY <3>1, <4>1 DEF Row
    <3>3. CASE lock[e] # s
      <4>1. e \in t.kept
        BY <1>1, <2>2, <2>4, <3>3 DEF IInv, RankingsAreWhole
      <4> QED  BY <2>2, <3>1, <3>3, <4>1 DEF UpToDate
    <3> QED  BY <3>2, <3>3
  <2>5. DOMAIN t.plan = DOMAIN t.days /\ \A e \in DOMAIN t.plan : t.days[e] = rul[schedule[e].pump]
    BY <2>3 DEF RanksByUrgency, UpToDate
  <2> DEFINE new == [e \in DOMAIN t.plan |-> schedule'[e].rank]
             lives == [e \in DOMAIN t.plan |-> rul[schedule[e].pump]]
  <2>6. new = t.plan
    BY <2>3, <2>4 DEF RanksByUrgency
  <2>7. t.plan \in RanksByUrgency(lives)
    BY <2>3, <2>5 DEF RanksByUrgency
  <2> QED  BY <2>6, <2>7
<1>2. IInv /\ [Next]_vars => [\A s \in Sessions : Follows(s)]_vars
  BY <1>1
<1> QED  BY <1>2, Inductive, PTL DEF Spec, RankingFollowsRul
=============================================================================
