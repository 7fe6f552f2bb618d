----------------------------- MODULE FleetSeed -----------------------------
(***************************************************************************)
(* The programs that fill an empty database, beside the asset routes:      *)
(* scripts/seed_kpc_tenant.py, scripts/seed_platform_admin.py,             *)
(* scripts/bootstrap_demo.py as far as it gets, create_station and         *)
(* create_pump.                                                            *)
(*                                                                         *)
(* seed_kpc_tenant commits the tenant, then each station, then the two     *)
(* pumps of that station, and looks every row up before it inserts it.     *)
(* Only tenant.slug and user.email are unique: nothing keeps a station     *)
(* code or a pump tag from being stored twice, and one_or_none raises      *)
(* when it meets two rows.  bootstrap_demo commits the tenant, then all    *)
(* stations at once, and raises at its first pump, because SensorReading   *)
(* has no column recorded_at.                                              *)
(*                                                                         *)
(* A run may be killed between any two statements and started again.  Rows *)
(* are counted as the scripts tell them apart: none, one, more.            *)
(***************************************************************************)
EXTENDS Naturals

CONSTANTS
  Runs,           \* processes that run a script, one run after the other
  JobOf,          \* JobOf[r]: the script that r runs
  N,              \* length of STATIONS (13 in the script)
  MaxCrashes      \* bound: runs that are killed

ASSUME SomeStations == N \in Nat \ {0}
ASSUME Crashes == MaxCrashes \in Nat
ASSUME Jobs == JobOf \in [Runs -> {"kpc", "demo", "admin"}]

VARIABLES
  tenant,         \* the row with slug "kpc" is committed
  stations,       \* stations[i]: rows of that tenant with code PSi
  pumps,          \* pumps[i][p]: rows with tag PSi-P0p
  admin,          \* the platform administrator is committed
  run,            \* run[r]: where run r stands
  crashes,        \* runs killed so far
  mixed           \* history: runs overlapped, or the API added a row that was
                  \* there or while a run was under way

vars == <<tenant, stations, pumps, admin, run, crashes, mixed>>

Codes == 1 .. N
Lanes == 1 .. 2
Rows == 0 .. 2                  \* none, one, more than one
OneMore(n) == IF n = 0 THEN 1 ELSE 2

Ended == {"stopped", "done"}
Phases == Ended \cup {"tenant", "new tenant", "station", "new station", "pump",
                      "sensor", "admin", "new admin"}
Run == [pc : Phases, at : 1 .. N + 1, lane : 1 .. 3, adds : SUBSET (Codes \cup Lanes)]
At(pc, i) == [pc |-> pc, at |-> i, lane |-> 1, adds |-> {}]
Stopped == At("stopped", 1)

Init ==
  /\ tenant = FALSE /\ admin = FALSE
  /\ stations = [i \in Codes |-> 0]
  /\ pumps = [i \in Codes |-> [p \in Lanes |-> 0]]
  /\ run = [r \in Runs |-> Stopped]
  /\ crashes = 0 /\ mixed = FALSE

Active(r) == run[r].pc \notin Ended
SeedsFleet(r) == JobOf[r] # "admin"
FleetRunActive == \E r \in Runs : SeedsFleet(r) /\ Active(r)
Goto(r, pc) == run' = [run EXCEPT ![r].pc = pc]
Fail(r) == run' = [run EXCEPT ![r] = Stopped]
AtStation(r, i) == run' = [run EXCEPT ![r] = At("station", i)]

-----------------------------------------------------------------------------
(* seed_kpc_tenant.                                                        *)

\* Somebody runs the script, for the first time or again.
Start(r) ==
  /\ ~Active(r)
  /\ run' = [run EXCEPT ![r] = At(IF SeedsFleet(r) THEN "tenant" ELSE "admin", 1)]
  /\ mixed' = (mixed \/ (SeedsFleet(r) /\ FleetRunActive))
  /\ UNCHANGED <<tenant, stations, pumps, admin, crashes>>

FindTenant(r) ==
  /\ run[r].pc = "tenant"
  /\ IF tenant THEN AtStation(r, 1) ELSE Goto(r, "new tenant")
  /\ UNCHANGED <<tenant, stations, pumps, admin, crashes, mixed>>

\* The unique slug refuses a second tenant: IntegrityError.
CreateTenant(r) ==
  /\ run[r].pc = "new tenant"
  /\ tenant' = TRUE
  /\ IF tenant THEN Fail(r) ELSE AtStation(r, 1)
  /\ UNCHANGED <<stations, pumps, admin, crashes, mixed>>

\* Mutant: a station that exists counts as seeded, pumps and all.
StationIsDone(r) ==
  IF run[r].at = N THEN Goto(r, "done") ELSE AtStation(r, run[r].at + 1)

\* The station exists; its pumps are looked up all the same.
StationExists(r) == Goto(r, "pump")

\* one_or_none for the station: none, one, or MultipleResultsFound.
FindStation(r) ==
  LET found == stations[run[r].at] IN
  /\ run[r].pc = "station" /\ JobOf[r] = "kpc"
  /\ \/ found = 0 /\ Goto(r, "new station")
     \/ found = 1 /\ StationExists(r)
     \/ found = 2 /\ Fail(r)
  /\ UNCHANGED <<tenant, stations, pumps, admin, crashes, mixed>>

CreateStation(r) ==
  /\ run[r].pc = "new station"
  /\ stations' = [stations EXCEPT ![run[r].at] = OneMore(@)]
  /\ Goto(r, "pump")
  /\ UNCHANGED <<tenant, pumps, admin, crashes, mixed>>

\* Mutant: the pumps of a station are added without looking for them.
EveryLane(r) == run[r].adds \cup {run[r].lane}

\* A pump that is missing is added to the session, not yet to the table.
Missing(r) ==
  IF pumps[run[r].at][run[r].lane] = 0 THEN run[r].adds \cup {run[r].lane} ELSE run[r].adds

FindPump(r) ==
  /\ run[r].pc = "pump" /\ run[r].lane \in Lanes
  /\ IF pumps[run[r].at][run[r].lane] = 2
     THEN Fail(r)
     ELSE run' = [run EXCEPT ![r].lane = run[r].lane + 1, ![r].adds = Missing(r)]
  /\ UNCHANGED <<tenant, stations, pumps, admin, crashes, mixed>>

\* Both pumps of the station in one commit, then the next station.
CommitPumps(r) ==
  LET i == run[r].at IN
  /\ run[r].pc = "pump" /\ run[r].lane = 3
  /\ pumps' = [pumps EXCEPT ![i] =
                 [p \in Lanes |-> IF p \in run[r].adds THEN OneMore(pumps[i][p]) ELSE pumps[i][p]]]
  /\ IF i = N THEN run' = [run EXCEPT ![r] = At("done", 1)] ELSE AtStation(r, i + 1)
  /\ UNCHANGED <<tenant, stations, admin, crashes, mixed>>

-----------------------------------------------------------------------------
(* bootstrap_demo, which shares FindTenant and CreateTenant.               *)

\* Stations are looked up (the first row will do) and added to the session.
DemoFindStation(r) ==
  LET i == run[r].at IN
  /\ run[r].pc = "station" /\ JobOf[r] = "demo" /\ i <= N
  /\ run' = [run EXCEPT ![r].at = i + 1,
               ![r].adds = IF stations[i] = 0 THEN run[r].adds \cup {i} ELSE run[r].adds]
  /\ UNCHANGED <<tenant, stations, pumps, admin, crashes, mixed>>

\* All stations in one commit.
DemoCommitStations(r) ==
  /\ run[r].pc = "station" /\ JobOf[r] = "demo" /\ run[r].at = N + 1
  /\ stations' = [i \in Codes |-> IF i \in run[r].adds THEN OneMore(stations[i]) ELSE stations[i]]
  /\ run' = [run EXCEPT ![r] = At("sensor", 1)]
  /\ UNCHANGED <<tenant, pumps, admin, crashes, mixed>>

\* The first pump is flushed; its SensorReading raises and takes it back.
DemoRaises(r) ==
  /\ run[r].pc = "sensor"
  /\ Fail(r)
  /\ UNCHANGED <<tenant, stations, pumps, admin, crashes, mixed>>

-----------------------------------------------------------------------------
(* seed_platform_admin.                                                    *)

FindAdmin(r) ==
  /\ run[r].pc = "admin"
  /\ Goto(r, IF admin THEN "done" ELSE "new admin")
  /\ UNCHANGED <<tenant, stations, pumps, admin, crashes, mixed>>

CreateAdmin(r) ==
  /\ run[r].pc = "new admin"
  /\ admin' = TRUE
  /\ IF admin THEN Fail(r) ELSE Goto(r, "done")
  /\ UNCHANGED <<tenant, stations, pumps, crashes, mixed>>

-----------------------------------------------------------------------------
(* The API beside the scripts, and killed runs.                            *)

\* POST /tenants with the slug "kpc".
OnboardTenant ==
  /\ ~tenant
  /\ tenant' = TRUE
  /\ UNCHANGED <<stations, pumps, admin, run, crashes, mixed>>

\* POST /stations: no lookup.
AddStation(i) ==
  /\ tenant
  /\ stations' = [stations EXCEPT ![i] = OneMore(@)]
  /\ mixed' = (mixed \/ FleetRunActive \/ stations[i] # 0)
  /\ UNCHANGED <<tenant, pumps, admin, run, crashes>>

\* POST /pumps: no lookup; station_id is a foreign key.
AddPump(i, p) ==
  /\ stations[i] # 0
  /\ pumps' = [pumps EXCEPT ![i][p] = OneMore(@)]
  /\ mixed' = (mixed \/ FleetRunActive \/ pumps[i][p] # 0)
  /\ UNCHANGED <<tenant, stations, admin, run, crashes>>

Crash(r) ==
  /\ Active(r) /\ crashes < MaxCrashes
  /\ Fail(r)
  /\ crashes' = crashes + 1
  /\ UNCHANGED <<tenant, stations, pumps, admin, mixed>>

Step(r) ==
  \/ FindTenant(r) \/ CreateTenant(r)
  \/ FindStation(r) \/ CreateStation(r) \/ FindPump(r) \/ CommitPumps(r)
  \/ DemoFindStation(r) \/ DemoCommitStations(r) \/ DemoRaises(r)
  \/ FindAdmin(r) \/ CreateAdmin(r)

Next ==
  \/ \E r \in Runs : Start(r) \/ Step(r) \/ Crash(r)
  \/ OnboardTenant
  \/ \E i \in Codes : AddStation(i)
  \/ \E i \in Codes, p \in Lanes : AddPump(i, p)

Spec == Init /\ [][Next]_vars

\* A run goes on by itself, and somebody runs the script again.
FairSpec == Spec /\ \A r \in Runs : WF_vars(Step(r)) /\ WF_vars(Start(r))

-----------------------------------------------------------------------------
(* Properties.                                                             *)

\* Type invariant.
TypeOK ==
  /\ tenant \in BOOLEAN /\ admin \in BOOLEAN /\ mixed \in BOOLEAN
  /\ stations \in [Codes -> Rows]
  /\ pumps \in [Codes -> [Lanes -> Rows]]
  /\ run \in [Runs -> Run]
  /\ crashes \in 0 .. MaxCrashes

\* The first n stations are there, each with both of its pumps.
SeededUpTo(n) ==
  tenant /\ \A i \in Codes : i <= n => stations[i] # 0 /\ \A p \in Lanes : pumps[i][p] # 0

\* A run of seed_kpc_tenant that ends well leaves the whole fleet, although
\* earlier runs were killed between the commit of a station and the commit of
\* its pumps, and bootstrap_demo leaves stations without pumps.
FinishedSeedIsComplete ==
  \A r \in Runs : JobOf[r] = "kpc" /\ run[r].pc = "done" => SeededUpTo(N)

\* Runs that follow one another, finished, killed or failed, and an API that
\* adds new codes between them store every station and pump once.
RepeatedSeedsAddNothing ==
  ~mixed => /\ \A i \in Codes : stations[i] < 2
            /\ \A i \in Codes, p \in Lanes : pumps[i][p] < 2

Doubled ==
  \/ \E i \in Codes : stations[i] = 2
  \/ \E i \in Codes, p \in Lanes : pumps[i][p] = 2

\* Whoever runs the seed again and again completes the fleet in the end,
\* unless a code or tag was doubled, which stops every later run.
SeedingSucceeds == <>(SeededUpTo(N) \/ Doubled)
=============================================================================
