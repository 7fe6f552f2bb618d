-------------------------- MODULE FleetSeedProofs --------------------------
(***************************************************************************)
(* Theorems about FleetSeed, for any number of runs, stations and kills.   *)
(***************************************************************************)
EXTENDS FleetSeed, TLAPS

-----------------------------------------------------------------------------
(* The inductive invariant.                                                *)

\* Where a run stands, what it has passed is there, or is in its session.
Passed(r) ==
  /\ Active(r) => (run[r].pc \in {"admin", "new admin"} <=> ~SeedsFleet(r))
  /\ run[r].pc \in {"new station", "pump"} => JobOf[r] = "kpc"
  /\ JobOf[r] = "kpc" /\ run[r].pc \in {"station", "new station"} =>
       run[r].lane = 1 /\ run[r].adds = {}
  /\ JobOf[r] = "kpc" /\ run[r].pc \in {"station", "new station", "pump"} =>
       run[r].at \in Codes /\ SeededUpTo(run[r].at - 1)
  /\ run[r].pc = "pump" =>
       /\ stations[run[r].at] # 0
       /\ \A p \in Lanes : p < run[r].lane => p \in run[r].adds \/ pumps[run[r].at][p] # 0
  /\ JobOf[r] = "kpc" /\ run[r].pc = "done" => SeededUpTo(N)

\* While nothing mixes with it, what a run found missing is missing still.
Exact(r) ==
  /\ run[r].pc = "new station" => stations[run[r].at] = 0
  /\ run[r].pc = "pump" => \A p \in Lanes \cap run[r].adds : pumps[run[r].at][p] = 0
  /\ run[r].pc = "station" => \A i \in Codes \cap run[r].adds : stations[i] = 0

\* Runs that fill the fleet do not overlap.
Alone == \A q, r \in Runs : SeedsFleet(q) /\ SeedsFleet(r) /\ Active(q) /\ Active(r) => q = r

Unmixed == ~mixed => Alone /\ RepeatedSeedsAddNothing /\ \A r \in Runs : Exact(r)

IInv == TypeOK /\ (\A r \in Runs : Passed(r)) /\ Unmixed

LEMMA InitPasses == Init => IInv
<1> SUFFICES ASSUME Init PROVE IInv
  OBVIOUS
<1>1. \A r \in Runs : run[r] = Stopped
  BY DEF Init
<1>2. Stopped \in Run
  BY SomeStations DEF Stopped, At, Run, Phases, Ended
<1>3. TypeOK
  <2>1. stations \in [Codes -> Rows] /\ pumps \in [Codes -> [Lanes -> Rows]]
    BY DEF Init, Rows
  <2>2. crashes \in 0 .. MaxCrashes
    BY Crashes DEF Init
  <2>3. run \in [Runs -> Run]
    BY <1>2 DEF Init
  <2>4. tenant \in BOOLEAN /\ admin \in BOOLEAN /\ mixed \in BOOLEAN
    BY DEF Init
  <2> QED  BY <2>1, <2>2, <2>3, <2>4 DEF TypeOK
<1>4. \A r \in Runs : run[r].pc = "stopped"
  <2>1. Stopped.pc = "stopped"
    BY DEF Stopped, At
  <2> QED  BY <1>1, <2>1
<1>5. \A r \in Runs : Exact(r)
  BY <1>4 DEF Exact
<1>6. \A r \in Runs : ~Active(r)
  BY <1>4 DEF Active, Ended
<1>7. \A r \in Runs : Passed(r)
  BY <1>4, <1>6 DEF Passed
<1>8. RepeatedSeedsAddNothing
  BY DEF Init, RepeatedSeedsAddNothing
<1> QED  BY <1>3, <1>5, <1>6, <1>7, <1>8 DEF IInv, Unmixed, Alone

-----------------------------------------------------------------------------
(* What every step keeps of the runs that do not take it.                  *)

\* Rows do not go away.
Grows ==
  /\ tenant => tenant'
  /\ \A i \in Codes : stations[i] # 0 => stations'[i] # 0
  /\ \A i \in Codes, p \in Lanes : pumps[i][p] # 0 => pumps'[i][p] # 0

LEMMA SeededStays ==
  ASSUME Grows, NEW n, SeededUpTo(n)
  PROVE  SeededUpTo(n)'
BY DEF Grows, SeededUpTo

LEMMA OthersPass ==
  ASSUME Grows, NEW q \in Runs, Passed(q), run'[q] = run[q]
  PROVE  Passed(q)'
<1>1. (Active(q) <=> Active(q)') /\ (SeedsFleet(q) <=> SeedsFleet(q)')
  BY DEF Active, SeedsFleet
<1>2. run[q].pc = "pump" => JobOf[q] = "kpc" /\ run[q].at \in Codes
  BY DEF Passed
<1>3. run[q].pc = "pump" =>
        /\ stations'[run[q].at] # 0
        /\ \A p \in Lanes : p < run[q].lane => p \in run[q].adds \/ pumps'[run[q].at][p] # 0
  BY <1>2 DEF Grows, Passed
<1>4. JobOf[q] = "kpc" /\ run[q].pc \in {"station", "new station", "pump"} =>
        SeededUpTo(run[q].at - 1)'
  BY SeededStays DEF Passed
<1>5. JobOf[q] = "kpc" /\ run[q].pc = "done" => SeededUpTo(N)'
  BY SeededStays DEF Passed
<1> QED  BY <1>1, <1>3, <1>4, <1>5 DEF Passed

\* A step of r that leaves the fleet alone, or that only r can take.
LEMMA OthersAreExact ==
  ASSUME IInv, ~mixed, NEW r \in Runs, Active(r), SeedsFleet(r), NEW q \in Runs \ {r}, run'[q] = run[q]
  PROVE  Exact(q)'
<1>1. ~(SeedsFleet(q) /\ Active(q))
  BY DEF IInv, Unmixed, Alone
<1>2. run[q].pc \notin {"station", "new station", "pump"}
  BY <1>1 DEF IInv, Passed, Active, Ended
<1> QED  BY <1>2 DEF Exact

LEMMA AloneStays ==
  ASSUME NEW r \in Runs, Alone, \A q \in Runs \ {r} : run'[q] = run[q], Active(r)' => Active(r)
  PROVE  Alone'
BY DEF Alone, Active, SeedsFleet

\* A step of one run, with what it must keep of its own.
LEMMA RunKeeps ==
  ASSUME IInv, TypeOK', NEW r \in Runs, Active(r), NEW x, run' = [run EXCEPT ![r] = x], Grows,
         mixed' = mixed, Passed(r)', ~mixed => Exact(r)' /\ RepeatedSeedsAddNothing',
         SeedsFleet(r) \/ UNCHANGED <<stations, pumps>>
  PROVE  IInv'
<1>1. /\ run'[r] = x
      /\ \A q \in Runs \ {r} : run'[q] = run[q]
  BY DEF IInv, TypeOK
<1>2. \A q \in Runs : Passed(q)'
  BY <1>1, OthersPass DEF IInv
<1>3. ASSUME ~mixed, NEW q \in Runs \ {r}
      PROVE  Exact(q)'
  <2>1. CASE SeedsFleet(r)
    BY <1>1, <1>3, <2>1, OthersAreExact
  <2>2. CASE UNCHANGED <<stations, pumps>>
    <3>1. Exact(q) /\ run'[q] = run[q]
      BY <1>1, <1>3 DEF IInv, Unmixed
    <3> QED  BY <2>2, <3>1 DEF Exact
  <2> QED  BY <2>1, <2>2
<1>4. ~mixed => Alone'
  BY <1>1, AloneStays DEF IInv, Unmixed
<1> QED  BY <1>2, <1>3, <1>4 DEF IInv, Unmixed

\* A step that only moves a run.
LEMMA MoveKeeps ==
  ASSUME IInv, NEW r \in Runs, Active(r), NEW x \in Run, run' = [run EXCEPT ![r] = x],
         UNCHANGED <<tenant, stations, pumps, admin, mixed>>, crashes' \in 0 .. MaxCrashes,
         Passed(r)', ~mixed => Exact(r)'
  PROVE  IInv'
<1>1. TypeOK'
  BY DEF IInv, TypeOK
<1>2. Grows
  BY DEF Grows
<1>3. ~mixed => RepeatedSeedsAddNothing'
  BY DEF IInv, Unmixed, RepeatedSeedsAddNothing
<1> QED  BY <1>1, <1>2, <1>3, RunKeeps

-----------------------------------------------------------------------------
(* The steps.                                                              *)

\* A run that ends without success, or is killed, owes nothing.
LEMMA FailKeeps ==
  ASSUME IInv, NEW r \in Runs, Active(r), Fail(r),
         UNCHANGED <<tenant, stations, pumps, admin, mixed>>, crashes' \in 0 .. MaxCrashes
  PROVE  IInv'
<1>1. Stopped \in Run
  BY SomeStations DEF Stopped, At, Run, Phases, Ended
<1>2. run'[r] = Stopped
  BY DEF Fail, IInv, TypeOK
<1>3. Passed(r)' /\ Exact(r)'
  BY <1>2 DEF Passed, Exact, Stopped, At, Active, Ended
<1> QED  BY <1>1, <1>3, MoveKeeps DEF Fail

LEMMA AtIsRun ==
  ASSUME NEW phase \in Phases, NEW i \in Codes
  PROVE  At(phase, i) \in Run
BY SomeStations DEF At, Run, Codes

\* A run of either script goes on to a station.
LEMMA AtStationFits ==
  ASSUME IInv, NEW r \in Runs, SeedsFleet(r), NEW i \in Codes, AtStation(r, i),
         SeededUpTo(i - 1)'
  PROVE  /\ At("station", i) \in Run
         /\ Passed(r)' /\ Exact(r)'
<1> DEFINE x == At("station", i)
<1>1. x.pc = "station" /\ x.at = i /\ x.lane = 1 /\ x.adds = {}
  BY DEF At
<1>2. x \in Run
  BY AtIsRun DEF Phases
<1>3. run'[r] = x
  BY DEF AtStation, IInv, TypeOK
<1> HIDE DEF x
<1>4. Active(r)' /\ SeedsFleet(r)'
  BY <1>1, <1>3 DEF Active, Ended, SeedsFleet
<1>5. Passed(r)'
  BY <1>1, <1>3, <1>4 DEF Passed
<1>6. Exact(r)'
  BY <1>1, <1>3 DEF Exact
<1> QED  BY <1>2, <1>5, <1>6 DEF x

LEMMA StartKeeps ==
  ASSUME IInv, NEW r \in Runs, Start(r)
  PROVE  IInv'
<1> DEFINE x == At(IF SeedsFleet(r) THEN "tenant" ELSE "admin", 1)
<1>1. x.pc = IF SeedsFleet(r) THEN "tenant" ELSE "admin"
  BY DEF At
<1>2. x \in Run
  <2>1. 1 \in Codes
    BY SomeStations DEF Codes
  <2> QED  BY <2>1, AtIsRun DEF Phases
<1>3. /\ run' = [run EXCEPT ![r] = x]
      /\ UNCHANGED <<tenant, stations, pumps, admin, crashes>>
      /\ mixed' = (mixed \/ (SeedsFleet(r) /\ FleetRunActive))
      /\ ~Active(r)
  BY DEF Start
<1> HIDE DEF x
<1>4. run'[r] = x /\ \A q \in Runs \ {r} : run'[q] = run[q]
  BY <1>3 DEF IInv, TypeOK
<1>5. TypeOK'
  BY <1>2, <1>3 DEF IInv, TypeOK
<1>6. Grows
  BY <1>3 DEF Grows
<1>7. Passed(r)' /\ Exact(r)'
  BY <1>1, <1>4 DEF Passed, Exact, Active, Ended, SeedsFleet
<1>8. \A q \in Runs : Passed(q)'
  BY <1>4, <1>6, <1>7, OthersPass DEF IInv
<1>9. ASSUME ~mixed'
      PROVE  Alone' /\ RepeatedSeedsAddNothing' /\ \A q \in Runs : Exact(q)'
  <2>1. ~mixed /\ (SeedsFleet(r) => ~FleetRunActive)
    BY <1>3, <1>9 DEF IInv, TypeOK
  <2>2. Alone'
    BY <2>1, <1>4 DEF IInv, Unmixed, Alone, FleetRunActive, SeedsFleet, Active
  <2>3. RepeatedSeedsAddNothing'
    BY <2>1, <1>3 DEF IInv, Unmixed, RepeatedSeedsAddNothing
  <2>4. ASSUME NEW q \in Runs \ {r}
        PROVE  Exact(q)'
    <3>1. Exact(q) /\ run'[q] = run[q]
      BY <2>1, <1>4 DEF IInv, Unmixed
    <3> QED  BY <3>1, <1>3 DEF Exact
  <2> QED  BY <2>2, <2>3, <2>4, <1>7
<1> QED  BY <1>5, <1>8, <1>9 DEF IInv, Unmixed

LEMMA FindTenantKeeps ==
  ASSUME IInv, NEW r \in Runs, FindTenant(r)
  PROVE  IInv'
<1>1. run[r].pc = "tenant" /\ Active(r) /\ SeedsFleet(r) /\ run[r] \in Run
  BY DEF FindTenant, Active, Ended, IInv, Passed, TypeOK
<1>2. UNCHANGED <<tenant, stations, pumps, admin, mixed>> /\ crashes' \in 0 .. MaxCrashes
  BY DEF FindTenant, IInv, TypeOK
<1>3. CASE tenant
  <2>1. AtStation(r, 1) /\ 1 \in Codes /\ SeededUpTo(1 - 1)'
    BY <1>2, <1>3, SomeStations DEF FindTenant, Codes, SeededUpTo
  <2> QED  BY <1>1, <1>2, <2>1, AtStationFits, MoveKeeps DEF AtStation
<1>4. CASE ~tenant
  <2>1. run' = [run EXCEPT ![r] = [run[r] EXCEPT !.pc = "new tenant"]]
    BY <1>4 DEF FindTenant, Goto
  <2>2. [run[r] EXCEPT !.pc = "new tenant"] \in Run
    BY <1>1 DEF Run, Phases
  <2>3. run'[r].pc = "new tenant"
    BY <1>1, <2>1 DEF IInv, TypeOK, Run
  <2>4. Passed(r)' /\ Exact(r)'
    BY <1>1, <2>3 DEF Passed, Exact, Active, Ended, SeedsFleet
  <2> QED  BY <1>1, <1>2, <2>1, <2>2, <2>4, MoveKeeps
<1> QED  BY <1>3, <1>4

LEMMA CreateTenantKeeps ==
  ASSUME IInv, NEW r \in Runs, CreateTenant(r)
  PROVE  IInv'
<1>1. run[r].pc = "new tenant" /\ Active(r) /\ SeedsFleet(r)
  BY DEF CreateTenant, Active, Ended, IInv, Passed
<1>2. tenant' = TRUE /\ UNCHANGED <<stations, pumps, admin, crashes, mixed>>
  BY DEF CreateTenant
<1>3. CASE tenant
  BY <1>1, <1>2, <1>3, FailKeeps DEF CreateTenant, IInv, TypeOK
<1>4. CASE ~tenant
  <2>1. AtStation(r, 1) /\ 1 \in Codes /\ SeededUpTo(1 - 1)'
    <3>1. AtStation(r, 1)
      BY <1>4 DEF CreateTenant
    <3>3. 1 \in Codes
      BY SomeStations DEF Codes
    <3>2. tenant' /\ \A i \in Codes : ~(i <= 1 - 1)
      BY <1>2 DEF Codes
    <3> QED  BY <3>1, <3>2, <3>3 DEF SeededUpTo
  <2>2. At("station", 1) \in Run /\ Passed(r)' /\ Exact(r)'
    BY <1>1, <2>1, AtStationFits
  <2>3. run' = [run EXCEPT ![r] = At("station", 1)]
    BY <2>1 DEF AtStation
  <2>4. TypeOK'
    BY <1>2, <2>2, <2>3 DEF IInv, TypeOK
  <2>5. Grows
    BY <1>2 DEF Grows
  <2>6. ~mixed => RepeatedSeedsAddNothing'
    BY <1>2 DEF IInv, Unmixed, RepeatedSeedsAddNothing
  <2> QED  BY <1>1, <1>2, <2>2, <2>3, <2>4, <2>5, <2>6, RunKeeps
<1> QED  BY <1>3, <1>4

\* No lane comes before the first.
LEMMA NoLaneBefore == \A p \in Lanes : ~(p < 1)
BY DEF Lanes

\* What there is to show of a seed at station i.
LEMMA SeedPasses ==
  ASSUME NEW r \in Runs, JobOf[r] = "kpc", NEW i \in Codes,
         run'[r].at = i, run'[r].pc \in {"new station", "pump"}, SeededUpTo(i - 1)',
         run'[r].pc = "new station" => run'[r].lane = 1 /\ run'[r].adds = {},
         run'[r].pc = "pump" => stations'[i] # 0,
         \A p \in Lanes : p < run'[r].lane => p \in run'[r].adds \/ pumps'[i][p] # 0
  PROVE  Passed(r)'
<1>1. run'[r].pc \notin {"admin", "new admin", "station", "done"} /\ SeedsFleet(r)'
  BY DEF SeedsFleet
<1>2. run'[r].at \in Codes /\ SeededUpTo(run[r].at - 1)'
  OBVIOUS
<1> QED  BY <1>1, <1>2 DEF Passed

LEMMA FindStationKeeps ==
  ASSUME IInv, NEW r \in Runs, FindStation(r)
  PROVE  IInv'
<1> PICK i : i = run[r].at
  OBVIOUS
<1>1. /\ run[r].pc = "station" /\ Active(r) /\ SeedsFleet(r) /\ JobOf[r] = "kpc"
      /\ run[r] \in Run /\ run[r].lane = 1 /\ run[r].adds = {}
      /\ i \in Codes /\ SeededUpTo(i - 1)
  BY DEF FindStation, Active, Ended, SeedsFleet, IInv, Passed, TypeOK
<1>2. UNCHANGED <<tenant, stations, pumps, admin, mixed>> /\ crashes' \in 0 .. MaxCrashes
  BY DEF FindStation, IInv, TypeOK
<1>3. SeededUpTo(i - 1)'
  BY <1>1, <1>2, SeededStays DEF Grows
<1>4. ASSUME NEW next \in {"new station", "pump"}, Goto(r, next),
             stations[i] = IF next = "pump" THEN 1 ELSE 0
      PROVE  IInv'
  <2> DEFINE x == [run[r] EXCEPT !.pc = next]
  <2>1. x \in Run /\ x.pc = next /\ x.at = i /\ x.lane = 1 /\ x.adds = {}
    BY <1>1 DEF Run, Phases
  <2>2. run' = [run EXCEPT ![r] = x] /\ run'[r] = x
    BY <1>4 DEF Goto, IInv, TypeOK
  <2> HIDE DEF x
  <2>3. Passed(r)'
    <3>1. x.pc = "pump" => stations'[i] # 0
      BY <1>2, <1>4, <2>1
    <3>2. run'[r].at = i /\ run'[r].pc \in {"new station", "pump"}
          /\ run'[r].lane = 1 /\ run'[r].adds = {}
      BY <2>1, <2>2
    <3>3. run'[r].pc = "pump" => stations'[i] # 0
      BY <2>1, <2>2, <3>1
    <3> QED  BY <1>1, <1>3, <3>2, <3>3, NoLaneBefore, SeedPasses
  <2>4. Exact(r)'
    BY <1>2, <1>4, <2>1, <2>2 DEF Exact
  <2> QED  BY <1>1, <1>2, <2>1, <2>2, <2>3, <2>4, MoveKeeps
<1>5. \/ stations[i] = 0 /\ Goto(r, "new station")
      \/ stations[i] = 1 /\ Goto(r, "pump")
      \/ Fail(r)
  BY DEF FindStation, StationExists
<1>6. CASE stations[i] = 0 /\ Goto(r, "new station")
  BY <1>4, <1>6
<1>7. CASE stations[i] = 1 /\ Goto(r, "pump")
  BY <1>4, <1>7
<1> QED  BY <1>1, <1>2, <1>5, <1>6, <1>7, FailKeeps

LEMMA CreateStationKeeps ==
  ASSUME IInv, NEW r \in Runs, CreateStation(r)
  PROVE  IInv'
<1> PICK i : i = run[r].at
  OBVIOUS
<1> DEFINE x == [run[r] EXCEPT !.pc = "pump"]
<1>1. /\ run[r].pc = "new station" /\ Active(r) /\ SeedsFleet(r) /\ JobOf[r] = "kpc"
      /\ run[r] \in Run /\ run[r].lane = 1 /\ run[r].adds = {}
      /\ i \in Codes /\ SeededUpTo(i - 1)
  BY DEF CreateStation, Active, Ended, SeedsFleet, IInv, Passed, TypeOK
<1>2. UNCHANGED <<tenant, pumps, admin, crashes, mixed>>
  BY DEF CreateStation
<1>3. /\ stations' = [stations EXCEPT ![i] = OneMore(stations[i])]
      /\ stations \in [Codes -> Rows]
      /\ OneMore(stations[i]) \in {1, 2} /\ OneMore(stations[i]) \in Rows
  <2>1. OneMore(stations[i]) \in {1, 2} /\ OneMore(stations[i]) \in Rows
    BY DEF OneMore, Rows
  <2>2. stations \in [Codes -> Rows]
    BY DEF IInv, TypeOK
  <2> QED  BY <2>1, <2>2 DEF CreateStation
<1>4. x \in Run /\ x.pc = "pump" /\ x.at = i /\ x.lane = 1 /\ x.adds = {}
  BY <1>1 DEF Run, Phases
<1>5. run' = [run EXCEPT ![r] = x] /\ run'[r] = x
  BY DEF CreateStation, Goto, IInv, TypeOK
<1> HIDE DEF x
<1>6. stations'[i] \in {1, 2} /\ \A j \in Codes \ {i} : stations'[j] = stations[j]
  BY <1>1, <1>3
<1>7. Grows
  BY <1>2, <1>6 DEF Grows
<1>8. TypeOK'
  <2>1. stations' \in [Codes -> Rows]
    BY <1>1, <1>3
  <2> QED  BY <1>2, <1>4, <1>5, <2>1 DEF IInv, TypeOK
<1>9. Passed(r)'
  <2>1. SeededUpTo(i - 1)'
    BY <1>1, <1>7, SeededStays
  <2>2. stations'[i] # 0 /\ run'[r].pc = "pump" /\ run'[r].lane = 1 /\ run'[r].at = i
    BY <1>4, <1>5, <1>6
  <2> QED  BY <1>1, <2>1, <2>2, NoLaneBefore, SeedPasses
<1>10. ASSUME ~mixed
       PROVE  Exact(r)' /\ RepeatedSeedsAddNothing'
  <2>1. stations[i] = 0
    BY <1>1, <1>10 DEF IInv, Unmixed, Exact
  <2>2. stations'[i] = 1
    BY <1>1, <1>3, <2>1 DEF OneMore
  <2>3. RepeatedSeedsAddNothing'
    <3>1. RepeatedSeedsAddNothing
      BY <1>10 DEF IInv, Unmixed
    <3>2. \A j \in Codes : stations'[j] < 2
      BY <1>2, <1>6, <1>10, <2>2, <3>1 DEF RepeatedSeedsAddNothing
    <3>3. \A j \in Codes, p \in Lanes : pumps'[j][p] < 2
      BY <1>2, <1>10, <3>1 DEF RepeatedSeedsAddNothing
    <3> QED  BY <3>2, <3>3 DEF RepeatedSeedsAddNothing
  <2> QED  BY <1>4, <1>5, <2>3 DEF Exact
<1> QED  BY <1>1, <1>2, <1>5, <1>7, <1>8, <1>9, <1>10, RunKeeps

LEMMA FindPumpKeeps ==
  ASSUME IInv, NEW r \in Runs, FindPump(r)
  PROVE  IInv'
<1> PICK i, l : i = run[r].at /\ l = run[r].lane
  OBVIOUS
<1> DEFINE x == [run[r] EXCEPT !.lane = l + 1, !.adds = Missing(r)]
<1>1. /\ run[r].pc = "pump" /\ Active(r) /\ SeedsFleet(r) /\ JobOf[r] = "kpc" /\ l \in Lanes
      /\ run[r] \in Run /\ i \in Codes /\ SeededUpTo(i - 1) /\ stations[i] # 0
      /\ \A p \in Lanes : p < l => p \in run[r].adds \/ pumps[i][p] # 0
  BY DEF FindPump, Active, Ended, SeedsFleet, IInv, Passed, TypeOK
<1>2. UNCHANGED <<tenant, stations, pumps, admin, mixed>> /\ crashes' \in 0 .. MaxCrashes
  BY DEF FindPump, IInv, TypeOK
<1>3. CASE Fail(r)
  BY <1>1, <1>2, <1>3, FailKeeps
<1>4. CASE run' = [run EXCEPT ![r] = x]
  <2>1. Missing(r) = IF pumps[i][l] = 0 THEN run[r].adds \cup {l} ELSE run[r].adds
    BY DEF Missing
  <2>2. x \in Run /\ x.pc = "pump" /\ x.at = i /\ x.lane = l + 1 /\ x.adds = Missing(r)
    <3>1. Missing(r) \in SUBSET (Codes \cup Lanes) /\ l + 1 \in 1 .. 3
      BY <1>1, <2>1 DEF Run, Lanes
    <3> QED  BY <1>1, <3>1 DEF Run
  <2>3. run'[r] = x
    BY <1>4 DEF IInv, TypeOK
  <2> HIDE DEF x
  <2>4. SeededUpTo(i - 1)'
    BY <1>1, <1>2, SeededStays DEF Grows
  <2>5. \A p \in Lanes : p < l + 1 => p \in Missing(r) \/ pumps[i][p] # 0
    BY <1>1, <2>1 DEF Lanes
  <2>6. Passed(r)'
    BY <1>1, <1>2, <2>2, <2>3, <2>4, <2>5 DEF Passed, Active, Ended, SeedsFleet
  <2>7. ASSUME ~mixed
        PROVE  Exact(r)'
    <3>1. \A p \in Lanes \cap run[r].adds : pumps[i][p] = 0
      BY <1>1, <2>7 DEF IInv, Unmixed, Exact
    <3>2. \A p \in Lanes \cap Missing(r) : pumps[i][p] = 0
      BY <2>1, <3>1
    <3> QED  BY <1>2, <2>2, <2>3, <3>2 DEF Exact
  <2> QED  BY <1>1, <1>2, <1>4, <2>2, <2>6, <2>7, MoveKeeps
<1> QED  BY <1>3, <1>4 DEF FindPump

LEMMA CommitPumpsKeeps ==
  ASSUME IInv, NEW r \in Runs, CommitPumps(r)
  PROVE  IInv'
<1> PICK i : i = run[r].at
  OBVIOUS
<1> DEFINE stored(p) == IF p \in run[r].adds THEN OneMore(pumps[i][p]) ELSE pumps[i][p]
<1>1. /\ run[r].pc = "pump" /\ Active(r) /\ SeedsFleet(r) /\ JobOf[r] = "kpc" /\ run[r].lane = 3
      /\ i \in Codes /\ SeededUpTo(i - 1) /\ stations[i] # 0
      /\ \A p \in Lanes : p < 3 => p \in run[r].adds \/ pumps[i][p] # 0
  BY DEF CommitPumps, Active, Ended, SeedsFleet, IInv, Passed
<1>2. UNCHANGED <<tenant, stations, admin, crashes, mixed>>
  BY DEF CommitPumps
<1>3. pumps \in [Codes -> [Lanes -> Rows]]
  BY DEF IInv, TypeOK
<1>4. pumps' = [pumps EXCEPT ![i] = [p \in Lanes |-> stored(p)]]
  BY DEF CommitPumps
<1>5. \A p \in Lanes : stored(p) \in Rows /\ stored(p) # 0
  <2> SUFFICES ASSUME NEW p \in Lanes PROVE stored(p) \in Rows /\ stored(p) # 0
    OBVIOUS
  <2>1. pumps[i][p] \in Rows /\ (p \in run[r].adds \/ pumps[i][p] # 0)
    BY <1>1, <1>3 DEF Lanes
  <2> QED  BY <2>1 DEF OneMore, Rows
<1>6. \A p \in Lanes : ~mixed /\ pumps[i][p] < 2 => stored(p) < 2
  <2> SUFFICES ASSUME NEW p \in Lanes, ~mixed, pumps[i][p] < 2 PROVE stored(p) < 2
    OBVIOUS
  <2>1. p \in run[r].adds => pumps[i][p] = 0
    BY <1>1 DEF IInv, Unmixed, Exact
  <2> QED  BY <2>1 DEF OneMore
<1> HIDE DEF stored
<1>7. /\ \A p \in Lanes : pumps'[i][p] = stored(p)
      /\ \A j \in Codes \ {i} : pumps'[j] = pumps[j]
      /\ pumps' \in [Codes -> [Lanes -> Rows]]
  BY <1>1, <1>3, <1>4, <1>5
<1>8. Grows
  BY <1>2, <1>5, <1>7 DEF Grows
<1>9. ~mixed => RepeatedSeedsAddNothing'
  <2> SUFFICES ASSUME ~mixed PROVE RepeatedSeedsAddNothing'
    OBVIOUS
  <2>1. RepeatedSeedsAddNothing
    BY DEF IInv, Unmixed
  <2>2. \A j \in Codes : stations'[j] < 2
    BY <1>2, <2>1 DEF RepeatedSeedsAddNothing
  <2>3. \A j \in Codes, p \in Lanes : pumps'[j][p] < 2
    BY <1>1, <1>6, <1>7, <2>1 DEF RepeatedSeedsAddNothing
  <2> QED  BY <2>2, <2>3 DEF RepeatedSeedsAddNothing
<1>10. SeededUpTo(i)'
  <2>1. SeededUpTo(i - 1)'
    BY <1>1, <1>8, SeededStays
  <2>2. stations'[i] # 0 /\ \A p \in Lanes : pumps'[i][p] # 0
    BY <1>1, <1>2, <1>5, <1>7
  <2>3. \A j \in Codes : j <= i => j <= i - 1 \/ j = i
    BY <1>1 DEF Codes
  <2> QED  BY <2>1, <2>2, <2>3 DEF SeededUpTo
<1>11. ASSUME NEW x \in Run, run' = [run EXCEPT ![r] = x], Passed(r)', Exact(r)'
       PROVE  IInv'
  <2>1. TypeOK'
    BY <1>2, <1>7, <1>11 DEF IInv, TypeOK
  <2> QED  BY <1>1, <1>2, <1>8, <1>9, <1>11, <2>1, RunKeeps
<1>12. CASE i = N
  <2>1. run' = [run EXCEPT ![r] = At("done", 1)]
    BY <1>12 DEF CommitPumps
  <2>2. At("done", 1) \in Run
    <3>1. 1 \in Codes
      BY SomeStations DEF Codes
    <3> QED  BY <3>1, AtIsRun DEF Phases, Ended
  <2>3. run'[r].pc = "done"
    BY <2>1 DEF IInv, TypeOK, At
  <2>4. Passed(r)' /\ Exact(r)'
    BY <1>10, <1>12, <2>3 DEF Passed, Exact, Active, Ended
  <2> QED  BY <1>11, <2>1, <2>2, <2>4
<1>13. CASE i # N
  <2>1. AtStation(r, i + 1)
    BY <1>13 DEF CommitPumps
  <2>2. i + 1 \in Codes /\ (i + 1) - 1 = i
    BY <1>1, <1>13, SomeStations DEF Codes
  <2>3. At("station", i + 1) \in Run /\ Passed(r)' /\ Exact(r)'
    BY <1>1, <1>10, <2>1, <2>2, AtStationFits
  <2> QED  BY <1>11, <2>1, <2>3 DEF AtStation
<1> QED  BY <1>12, <1>13

\* A run of the demo owes nothing to the seed.
LEMMA DemoPasses ==
  ASSUME NEW r \in Runs, JobOf[r] = "demo", run'[r].pc \in {"station", "sensor"}
  PROVE  Passed(r)'
BY DEF Passed, SeedsFleet, Active, Ended

LEMMA DemoFindStationKeeps ==
  ASSUME IInv, NEW r \in Runs, DemoFindStation(r)
  PROVE  IInv'
<1> PICK i, adds : i = run[r].at /\ adds = IF stations[i] = 0 THEN run[r].adds \cup {i} ELSE run[r].adds
  OBVIOUS
<1> DEFINE x == [run[r] EXCEPT !.at = i + 1, !.adds = adds]
<1>1. /\ run[r].pc = "station" /\ JobOf[r] = "demo" /\ Active(r) /\ SeedsFleet(r)
      /\ run[r] \in Run /\ i \in Codes
  BY SomeStations DEF DemoFindStation, Active, Ended, SeedsFleet, IInv, TypeOK, Run, Codes
<1>2. UNCHANGED <<tenant, stations, pumps, admin, mixed>> /\ crashes' \in 0 .. MaxCrashes
  BY DEF DemoFindStation, IInv, TypeOK
<1>3. run' = [run EXCEPT ![r] = x] /\ run'[r] = x
  BY DEF DemoFindStation, IInv, TypeOK
<1>4. x \in Run /\ x.pc = "station" /\ x.adds = adds
  <2>1. i + 1 \in 1 .. N + 1 /\ adds \in SUBSET (Codes \cup Lanes)
    BY <1>1, SomeStations DEF Run, Codes
  <2> QED  BY <1>1, <2>1 DEF Run
<1> HIDE DEF x
<1>5. Passed(r)'
  BY <1>1, <1>3, <1>4, DemoPasses
<1>6. ASSUME ~mixed
      PROVE  Exact(r)'
  <2>1. \A j \in Codes \cap run[r].adds : stations[j] = 0
    BY <1>1, <1>6 DEF IInv, Unmixed, Exact
  <2>2. \A j \in Codes \cap adds : stations'[j] = 0
    BY <1>2, <2>1
  <2> QED  BY <1>3, <1>4, <2>2 DEF Exact
<1> QED  BY <1>1, <1>2, <1>3, <1>4, <1>5, <1>6, MoveKeeps

LEMMA DemoCommitKeeps ==
  ASSUME IInv, NEW r \in Runs, DemoCommitStations(r)
  PROVE  IInv'
<1> DEFINE stored(i) == IF i \in run[r].adds THEN OneMore(stations[i]) ELSE stations[i]
<1>1. /\ run[r].pc = "station" /\ JobOf[r] = "demo" /\ Active(r) /\ SeedsFleet(r)
      /\ UNCHANGED <<tenant, pumps, admin, crashes, mixed>>
      /\ stations' = [i \in Codes |-> stored(i)]
      /\ run' = [run EXCEPT ![r] = At("sensor", 1)]
  BY DEF DemoCommitStations, Active, Ended, SeedsFleet
<1>2. \A i \in Codes : stored(i) \in Rows /\ (stations[i] # 0 => stored(i) # 0)
  <2> SUFFICES ASSUME NEW i \in Codes PROVE stored(i) \in Rows /\ (stations[i] # 0 => stored(i) # 0)
    OBVIOUS
  <2>1. stations[i] \in Rows
    BY DEF IInv, TypeOK
  <2> QED  BY <2>1 DEF OneMore, Rows
<1>3. \A i \in Codes : ~mixed => stored(i) < 2
  <2> SUFFICES ASSUME NEW i \in Codes, ~mixed PROVE stored(i) < 2
    OBVIOUS
  <2>1. i \in run[r].adds => stations[i] = 0
    BY <1>1 DEF IInv, Unmixed, Exact
  <2>2. stations[i] < 2
    BY DEF IInv, Unmixed, RepeatedSeedsAddNothing
  <2> QED  BY <2>1, <2>2 DEF OneMore
<1> HIDE DEF stored
<1>4. Grows
  BY <1>1, <1>2 DEF Grows
<1>5. At("sensor", 1) \in Run
  <2>1. 1 \in Codes
    BY SomeStations DEF Codes
  <2> QED  BY <2>1, AtIsRun DEF Phases
<1>6. TypeOK'
  <2>1. stations' \in [Codes -> Rows]
    BY <1>1, <1>2
  <2> QED  BY <1>1, <1>5, <2>1 DEF IInv, TypeOK
<1>7. run'[r].pc = "sensor"
  BY <1>1 DEF IInv, TypeOK, At
<1>8. Passed(r)' /\ Exact(r)'
  BY <1>1, <1>7, DemoPasses DEF Exact
<1>9. ~mixed => RepeatedSeedsAddNothing'
  <2> SUFFICES ASSUME ~mixed PROVE RepeatedSeedsAddNothing'
    OBVIOUS
  <2>1. RepeatedSeedsAddNothing
    BY DEF IInv, Unmixed
  <2>2. \A i \in Codes : stations'[i] < 2
    BY <1>1, <1>3
  <2> QED  BY <1>1, <2>1, <2>2 DEF RepeatedSeedsAddNothing
<1> QED  BY <1>1, <1>4, <1>6, <1>8, <1>9, RunKeeps

LEMMA FindAdminKeeps ==
  ASSUME IInv, NEW r \in Runs, FindAdmin(r)
  PROVE  IInv'
<1> PICK next \in {"done", "new admin"} : Goto(r, next)
  BY DEF FindAdmin
<1> DEFINE x == [run[r] EXCEPT !.pc = next]
<1>1. run[r].pc = "admin" /\ Active(r) /\ ~SeedsFleet(r) /\ run[r] \in Run
  BY DEF FindAdmin, Active, Ended, IInv, Passed, TypeOK
<1>2. UNCHANGED <<tenant, stations, pumps, admin, mixed>> /\ crashes' \in 0 .. MaxCrashes
  BY DEF FindAdmin, IInv, TypeOK
<1>3. x \in Run /\ x.pc = next
  BY <1>1 DEF Run, Phases, Ended
<1>4. run' = [run EXCEPT ![r] = x] /\ run'[r] = x
  BY DEF Goto, IInv, TypeOK
<1> HIDE DEF x
<1>5. run'[r].pc \in {"done", "new admin"} /\ JobOf[r] # "kpc" /\ ~SeedsFleet(r)'
  BY <1>1, <1>3, <1>4 DEF SeedsFleet
<1>6. Passed(r)' /\ Exact(r)'
  BY <1>5 DEF Passed, Exact, Active, Ended
<1> QED  BY <1>1, <1>2, <1>3, <1>4, <1>6, MoveKeeps

LEMMA CreateAdminKeeps ==
  ASSUME IInv, NEW r \in Runs, CreateAdmin(r)
  PROVE  IInv'
<1> PICK x : /\ x \in Run /\ x.pc \in Ended
             /\ run' = [run EXCEPT ![r] = x]
  <2>1. CASE admin
    <3>1. Stopped \in Run /\ Stopped.pc \in Ended
      BY SomeStations DEF Stopped, At, Run, Phases, Ended
    <3> QED  BY <2>1, <3>1 DEF CreateAdmin, Fail
  <2>2. CASE ~admin
    <3>1. run[r] \in Run
      BY DEF IInv, TypeOK
    <3>2. [run[r] EXCEPT !.pc = "done"] \in Run /\ [run[r] EXCEPT !.pc = "done"].pc \in Ended
      BY <3>1 DEF Run, Phases, Ended
    <3> QED  BY <2>2, <3>2 DEF CreateAdmin, Goto
  <2> QED  BY <2>1, <2>2
<1>1. run[r].pc = "new admin" /\ Active(r) /\ ~SeedsFleet(r)
  BY DEF CreateAdmin, Active, Ended, IInv, Passed
<1>2. admin' = TRUE /\ UNCHANGED <<tenant, stations, pumps, crashes, mixed>>
  BY DEF CreateAdmin
<1>3. TypeOK'
  BY <1>2 DEF IInv, TypeOK
<1>4. run'[r].pc \in Ended /\ JobOf[r] # "kpc"
  BY <1>1 DEF IInv, TypeOK, SeedsFleet
<1>5. Passed(r)' /\ Exact(r)'
  BY <1>4 DEF Passed, Exact, Active, Ended
<1>6. Grows /\ (~mixed => RepeatedSeedsAddNothing')
  BY <1>2 DEF Grows, IInv, Unmixed, RepeatedSeedsAddNothing
<1> QED  BY <1>1, <1>2, <1>3, <1>5, <1>6, RunKeeps

-----------------------------------------------------------------------------
(* The API.                                                                *)

\* What the API adds mixes with a run, or is a first row.
LEMMA ApiKeeps ==
  ASSUME IInv, TypeOK', Grows, UNCHANGED run,
         ~mixed' => ~mixed /\ (UNCHANGED <<stations, pumps>> \/ ~FleetRunActive),
         ~mixed' => RepeatedSeedsAddNothing'
  PROVE  IInv'
<1>1. \A r \in Runs : Passed(r)'
  BY OthersPass DEF IInv
<1>2. ASSUME ~mixed'
      PROVE  Alone' /\ \A r \in Runs : Exact(r)'
  <2>1. Alone'
    BY <1>2 DEF IInv, Unmixed, Alone, Active, SeedsFleet
  <2>2. ASSUME NEW r \in Runs PROVE Exact(r)'
    <3>1. CASE UNCHANGED <<stations, pumps>>
      BY <1>2, <3>1 DEF IInv, Unmixed, Exact
    <3>2. CASE ~FleetRunActive
      <4>1. ~(SeedsFleet(r) /\ Active(r))
        BY <3>2 DEF FleetRunActive
      <4>2. run[r].pc \notin {"station", "new station", "pump"}
        BY <4>1 DEF IInv, Passed, Active, Ended
      <4> QED  BY <4>2 DEF Exact
    <3> QED  BY <1>2, <3>1, <3>2
  <2> QED  BY <2>1, <2>2
<1> QED  BY <1>1, <1>2 DEF IInv, Unmixed

LEMMA OnboardKeeps ==
  ASSUME IInv, OnboardTenant
  PROVE  IInv'
<1>1. tenant' = TRUE /\ UNCHANGED <<stations, pumps, admin, run, crashes, mixed>>
  BY DEF OnboardTenant
<1>2. TypeOK'
  BY <1>1 DEF IInv, TypeOK
<1>3. Grows /\ (~mixed' => RepeatedSeedsAddNothing')
  BY <1>1 DEF Grows, IInv, Unmixed, RepeatedSeedsAddNothing
<1> QED  BY <1>1, <1>2, <1>3, ApiKeeps

LEMMA AddStationKeeps ==
  ASSUME IInv, NEW i \in Codes, AddStation(i)
  PROVE  IInv'
<1>1. UNCHANGED <<tenant, pumps, admin, run, crashes>>
  BY DEF AddStation
<1>2. mixed' = (mixed \/ FleetRunActive \/ stations[i] # 0)
  BY DEF AddStation
<1>3. /\ stations' = [stations EXCEPT ![i] = OneMore(stations[i])]
      /\ stations \in [Codes -> Rows]
  BY DEF AddStation, IInv, TypeOK
<1>4. OneMore(stations[i]) \in Rows \ {0} /\ (stations[i] = 0 => OneMore(stations[i]) = 1)
  BY DEF OneMore, Rows
<1>5. /\ stations' \in [Codes -> Rows]
      /\ stations'[i] = OneMore(stations[i])
      /\ \A j \in Codes \ {i} : stations'[j] = stations[j]
  BY <1>3, <1>4
<1>6. mixed' \in BOOLEAN /\ (~mixed' => ~mixed /\ ~FleetRunActive /\ stations[i] = 0)
  BY <1>2
<1>7. TypeOK'
  BY <1>1, <1>5, <1>6 DEF IInv, TypeOK
<1>8. Grows
  BY <1>1, <1>4, <1>5 DEF Grows
<1>9. ASSUME ~mixed' PROVE RepeatedSeedsAddNothing'
  <2>1. RepeatedSeedsAddNothing
    BY <1>6, <1>9 DEF IInv, Unmixed
  <2>2. \A j \in Codes : stations'[j] < 2
    BY <1>4, <1>5, <1>6, <1>9, <2>1 DEF RepeatedSeedsAddNothing
  <2> QED  BY <1>1, <1>6, <1>9, <2>1, <2>2 DEF RepeatedSeedsAddNothing
<1> QED  BY <1>1, <1>6, <1>7, <1>8, <1>9, ApiKeeps

LEMMA AddPumpKeeps ==
  ASSUME IInv, NEW i \in Codes, NEW p \in Lanes, AddPump(i, p)
  PROVE  IInv'
<1> DEFINE row == [pumps[i] EXCEPT ![p] = OneMore(pumps[i][p])]
<1>1. UNCHANGED <<tenant, stations, admin, run, crashes>>
  BY DEF AddPump
<1>2. mixed' = (mixed \/ FleetRunActive \/ pumps[i][p] # 0)
  BY DEF AddPump
<1>3. pumps' = [pumps EXCEPT ![i] = row] /\ pumps \in [Codes -> [Lanes -> Rows]]
  BY DEF AddPump, IInv, TypeOK
<1>4. OneMore(pumps[i][p]) \in Rows \ {0} /\ (pumps[i][p] = 0 => OneMore(pumps[i][p]) = 1)
  BY DEF OneMore, Rows
<1>5. /\ row \in [Lanes -> Rows] /\ row[p] = OneMore(pumps[i][p])
      /\ \A q \in Lanes \ {p} : row[q] = pumps[i][q]
  BY <1>3, <1>4
<1> HIDE DEF row
<1>6. /\ pumps' \in [Codes -> [Lanes -> Rows]]
      /\ pumps'[i] = row
      /\ \A j \in Codes \ {i} : pumps'[j] = pumps[j]
  BY <1>3, <1>5
<1>7. mixed' \in BOOLEAN /\ (~mixed' => ~mixed /\ ~FleetRunActive /\ pumps[i][p] = 0)
  BY <1>2
<1>8. TypeOK'
  BY <1>1, <1>6, <1>7 DEF IInv, TypeOK
<1>9. Grows
  BY <1>1, <1>4, <1>5, <1>6 DEF Grows
<1>10. ASSUME ~mixed' PROVE RepeatedSeedsAddNothing'
  <2>1. RepeatedSeedsAddNothing
    BY <1>7, <1>10 DEF IInv, Unmixed
  <2>2. \A q \in Lanes : row[q] < 2
    BY <1>4, <1>5, <1>7, <1>10, <2>1 DEF RepeatedSeedsAddNothing
  <2>3. \A j \in Codes, q \in Lanes : pumps'[j][q] < 2
    BY <1>6, <1>7, <1>10, <2>1, <2>2 DEF RepeatedSeedsAddNothing
  <2> QED  BY <1>1, <1>7, <1>10, <2>1, <2>3 DEF RepeatedSeedsAddNothing
<1> QED  BY <1>1, <1>7, <1>8, <1>9, <1>10, ApiKeeps

-----------------------------------------------------------------------------
(* The theorems.                                                           *)

LEMMA StepKeeps == IInv /\ [Next]_vars => IInv'
<1> SUFFICES ASSUME IInv, [Next]_vars PROVE IInv'
  OBVIOUS
<1>1. ASSUME NEW r \in Runs, Start(r) \/ Step(r) \/ Crash(r)
      PROVE  IInv'
  <2>1. CASE Start(r)
    BY <2>1, StartKeeps
  <2>2. CASE Crash(r)
    <3>1. crashes' \in 0 .. MaxCrashes
      BY <2>2, Crashes DEF Crash, IInv, TypeOK
    <3> QED  BY <2>2, <3>1, FailKeeps DEF Crash
  <2>3. CASE DemoRaises(r)
    <3>1. Active(r) /\ crashes' \in 0 .. MaxCrashes
      BY <2>3 DEF DemoRaises, Active, Ended, IInv, TypeOK
    <3> QED  BY <2>3, <3>1, FailKeeps DEF DemoRaises
  <2>4. CASE FindTenant(r) \/ CreateTenant(r) \/ FindStation(r) \/ CreateStation(r)
    BY <2>4, FindTenantKeeps, CreateTenantKeeps, FindStationKeeps, CreateStationKeeps
  <2>5. CASE FindPump(r) \/ CommitPumps(r) \/ DemoFindStation(r) \/ DemoCommitStations(r)
    BY <2>5, FindPumpKeeps, CommitPumpsKeeps, DemoFindStationKeeps, DemoCommitKeeps
  <2>6. CASE FindAdmin(r) \/ CreateAdmin(r)
    BY <2>6, FindAdminKeeps, CreateAdminKeeps
  <2> QED  BY <1>1, <2>1, <2>2, <2>3, <2>4, <2>5, <2>6 DEF Step
<1>2. CASE OnboardTenant
  BY <1>2, OnboardKeeps
<1>3. CASE \E i \in Codes : AddStation(i)
  BY <1>3, AddStationKeeps
<1>4. CASE \E i \in Codes, p \in Lanes : AddPump(i, p)
  BY <1>4, AddPumpKeeps
<1>5. CASE UNCHANGED vars
  <2>1. TypeOK' /\ Grows /\ UNCHANGED <<stations, pumps, run>> /\ mixed' = mixed
    BY <1>5 DEF vars, IInv, TypeOK, Grows
  <2>2. ~mixed' => RepeatedSeedsAddNothing'
    BY <2>1 DEF IInv, Unmixed, RepeatedSeedsAddNothing
  <2> QED  BY <2>1, <2>2, ApiKeeps
<1> QED  BY <1>1, <1>2, <1>3, <1>4, <1>5 DEF Next

LEMMA Inductive == Spec => []IInv
BY InitPasses, StepKeeps, PTL DEF Spec

\* Type correctness, for any number of stations, runs and kills.
THEOREM SeedTypeCorrect == Spec => []TypeOK
<1>1. IInv => TypeOK
  BY DEF IInv
<1> QED  BY <1>1, Inductive, PTL

\* A seed that ends well leaves the whole fleet, however many stations it has
\* and however often earlier runs were killed or overlapped.
THEOREM SeedIsComplete == Spec => []FinishedSeedIsComplete
<1>1. IInv => FinishedSeedIsComplete
  BY DEF IInv, FinishedSeedIsComplete, Passed
<1> QED  BY <1>1, Inductive, PTL

\* Runs one after the other, killed or not, store every row once.
THEOREM SeedAddsOnce == Spec => []RepeatedSeedsAddNothing
<1>1. IInv => RepeatedSeedsAddNothing
  BY DEF IInv, Unmixed, RepeatedSeedsAddNothing
<1> QED  BY <1>1, Inductive, PTL
=============================================================================
