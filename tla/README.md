# Flowguard backend: verification project

Flowguard is a multi-tenant predictive-maintenance backend: FastAPI routes call
service functions, which read and write PostgreSQL through a request-scoped
SQLAlchemy session. This directory holds TLA+ models of its services, the TLC
configurations that check them, and TLAPS proofs about them. All paths below are
relative to the repository (`app/...` is `src/app/...`).

## 1. Inventory

| component | code | state it keeps | operations that change it | what is hard |
|---|---|---|---|---|
| work orders | `app/work_order` | `work_order` rows: status, owner, evidence, verification, parent | create, update, record outcome, verify, follow up, create from a prediction | row locks, check-then-insert, corrections of corrections, stale user rows |
| audit trail | `app/audit` | `audit_event` rows (before, after, actor) | `record_event`, inside other transactions | the snapshots must chain |
| database sessions | `app/core/db.py` | a transaction per request | open, commit, close | READ COMMITTED: each statement sees a new snapshot; an abandoned session rolls back |
| roles and permissions | `app/core/permissions.py`, `auth.py`, `tenancy.py` | nothing; the token carries user, tenant and role | - | tokens outlive the row they were made from |
| incident policy and queue | `app/incidents` | `incident_policy` revisions | `save_policy` | optimistic revision check under a tenant lock; the overdue filter and the overdue flags are computed twice |
| alerts | `app/alert` | `alert` rows | create, update, `evaluate_thresholds` | thresholds re-raise the same alert; no lock on update |
| operations automation | `app/operations` | alerts and schedule entries it inserts | `auto_generate_alerts`, `auto_generate_schedule`, digest | check-then-insert without lock or constraint |
| maintenance schedule | `app/maintenance_schedule` | `scheduled_maintenance` rows | create, update, `rank_schedule_by_rul` | ranks computed from reads taken before commits of estimates |
| telemetry ingestion | `app/telemetry` | connectors, records, a checkpoint of counters per connector | create and enable connector, `ingest` | retried and concurrent batches, unique constraint, counters read before they are written |
| medallion pipeline | `app/etl`, `scripts/refresh_pipeline.py` | bronze, silver and gold tables | land a reading, `process_bronze_to_silver`, weather, risk, gold features, the endless cycle | each cycle copies everything again; partial cycles; one exception ends the loop |
| scoring chain | `app/flowgard_engine`, `prediction`, `rul`, `explainability`, `feature_engineering` | histories of health deviations, predictions, estimates, attributions | `compute_health_deviation`, `run_prediction`, `run_rul_estimate`, `compute_feature_attribution`, `build_feature_vector`, `build_feature_batch` | "latest" of four histories that are recomputed independently; thresholds and clamps; a batch that reads statement by statement |
| accounts and tenants | `app/user`, `app/tenant`, `app/core/email.py` | users, tenants | onboard tenant and user, login, reset, update | a commit before an e-mail that may fail; reset tokens that live on |
| refresh sessions | `app/auth_session` | `refresh_session` rows | issue, rotate, revoke | two rotations of one token |
| assets | `app/station`, `app/pump`, `assets_routes.py` | stations, pumps | create and update station and pump | no unique code or tag; scores read a pump's intervention count |
| reporting, metrics, governance, dashboard | `app/reporting`, `model_metrics`, `model_governance_routes.py`, `operations/services.py`, `streamlit_app` | model metric rows | one insert | read-only aggregation |
| seed scripts | `scripts/seed_kpc_tenant.py`, `seed_platform_admin.py`, `bootstrap_demo.py` | - | tenant, stations, pumps, administrator | several commits each, run again after a failure, nothing unique below the tenant |
| other scripts and migrations | `scripts`, `migrations`, `reset_db.py` | - | simulated readings, schema | run by hand |

How they interact: routes take the tenant from the access token and pass a
session and the tenant to a service; services of different components call each
other inside the same session (work orders ask predictions, which ask health
deviations; alerts and schedules ask predictions and estimates); everything else
is shared through the tables. Nothing in the process keeps state between
requests, so all concurrency is between database transactions.

At this commit several modules refer to names that do not exist (for instance
`app/core/auth.py` has no `require_permission`, although most routers import it,
and `settings` has no `jwt_refresh_token_expire_days`). The models take the
service functions as written and treat the missing permission gate as external:
it lets through the roles that `ROLE_PERMISSIONS` lists.

What makes each component correct:

- *work orders*: concurrent requests behave as if served one by one; a closed
  order stays closed as it was; the evidence columns can be replayed from the
  audit trail; a verdict fits the record it is about; at most one follow-up is
  open per parent.
- *telemetry ingestion*: what a 200 acknowledged is stored, each event once,
  under its first verdict; counters never claim more than the table holds.
- *medallion pipeline*: models see clean readings only; a finished cycle leaves
  the newest rows current; gold keeps what it has and grows by the newest readings;
  neither an outage nor a late reading holds data back.
- *incidents*: nobody replaces a policy that he or she had not seen; every
  revision is audited; the overdue filter and the overdue flags agree.
- *accounts*: no tenant without a user; a mailed password belongs to an account;
  no access token before the first-time password was changed.
- *operations, schedule*: one live entry per order while automations do not
  overlap; rankings never wait for each other in a circle and follow the lives.
- *scoring*: indices, risks and bounds within range for every input; predictions
  and explanations quote one index; orders follow the risk (they do not, section 6);
  a batch gives each pump with a fresh window what a request of its own would get, and
  leaves the others out (not all of them, section 6).
- *seed scripts*: a seed that ends well leaves the whole fleet, wherever earlier
  ones stopped; seeds that follow one another add nothing twice.

## 2. Modules

| module | models | how it corresponds to the code |
|---|---|---|
| `WorkOrders` | one `work_order` row and its audit history | `Row`, `Snapshot`, the request bodies that pass the schemas, and one operator per check or write of `services.py` and `outcomes.py` (`UpdateAllowed`, `CompletedRow`, `VerifiedRow`, ...). No behaviour of its own; holds the properties that speak of committed rows only. |
| `WorkOrderBoard` | what the API promises | each operation is one atomic step: check, row and audit event. The abstract specification. |
| `WorkOrderSessions` | the handlers as they run | one action per statement: `Acquire` is `SELECT ... FOR UPDATE`, `CheckOwner` and `FindNoOpenFollowUp` are the lock-free reads, `Update`, `RecordOutcome`, `Verify`, `CreateFollowUp` commit, `Rollback` is every other way out. |
| `TelemetryIngest` | connectors, records, checkpoints, `ingest` | one action per flush statement in the order the unit of work emits them (checkpoint, record; at commit connector, checkpoint), with the row and unique-index locks each takes; `Fail` is an `IntegrityError`, a counter that is `None` (`Conflicts`) or an envelope whose times cannot be compared (`Unjudged`), `Crash` a lost worker, `BreakDeadlock` PostgreSQL's detector. |
| `IngestAlone` | ingestion with a memory of overlap | `TelemetryIngest` with a history variable that tells whether two requests were ever under way together; holds the properties of requests that come one at a time. |
| `IngestLog` | what ingestion promises | an append-only log per connector, one atomic batch per step. Abstract specification of `TelemetryIngest`. |
| `MedallionPipeline` | bronze, silver, gold and the refresh cycle | `pc` and `todo` are the position of `scripts/refresh_pipeline.py` in its loops; each action is one service call with its commit; `Interrupt` and `WeatherRaises` stop the process, `Restart` starts it again. |
| `CuratedStore` | what the pipeline promises its readers | silver takes over all clean readings in one step, gold keeps its rows and takes a newest part of silver per step; copies, windows, weather and loops are not seen. Abstract specification of `MedallionPipeline`. |
| `IncidentDesk` | policy revisions, alerts, the queue | one action per statement of `save_policy`, `update_alert` and `queue`; `Breached` is the condition in SQL, `AcknowledgementOverdue` and `ResponseOverdue` the flags in Python. |
| `PolicyLog` | what `save_policy` promises | a log whose entry r was written by somebody who had seen entry r - 1. Abstract specification of `IncidentDesk`. |
| `Accounts` | tenants, users, mail, first sign-in | `InsertTenant` is the flush, `CommitUser` the commit that takes both rows, `Mail` what happens after it; login, reset and edit each as read and write. `MayCall`, `Speaks` and `MayReset` are the decoding of tokens: invitations and edits need an access token of the tenant, a reset its reset token. |
| `MaintenanceSchedule` | the calendar, its ranking and its automation | `CreateEntry` and `ReadEntry`, `CommitEdit` are the routes for people; a ranking is `ListEntries`, one `ReadRul` or `EstimateRul` per entry, `PlanRanks`, one `UpdateRow` per changed row in primary key order (with its lock) and `CommitRanks`; the automation is `ListOrders`, one `LookUpOrder` per order and `CommitPlan`. |
| `Scores` | the formulas | one operator per formula of `compute_health_deviation`, `run_prediction`, `run_rul_estimate`, `compute_feature_attribution`, `build_feature_vector`, `evaluate_thresholds` and `create_work_order_from_prediction`, over scaled integers. No behaviour of its own. |
| `ScoringChain` | scoring, alerts and orders of one tenant | one action per query or commit of `POST .../trigger`, `.../evaluate` and `.../auto-generate`; of each history the latest row is kept; `StoreGold`, `NewWindow`, `WindowAges`, `PatchPump` change what the formulas read. |
| `FeatureVectors` | `build_feature_batch` | `ReadWindows`, `ReadWeather`, `ReadRisk` are its queries, `TryOne` the fallback for one pump; the writers of the tables it reads run beside it. |
| `FleetSeed` | the seed scripts beside the asset routes | `pc`, `at` and `lane` are the position of a run in its loops, `adds` what its session has not committed; `Crash` kills a run anywhere, `Start` runs a script again. |

`MC<module>` gives a module small constants and symmetry; `<module>Proofs` holds
its theorems (`ScoringChainProofs` those of `Scores` and `FeatureVectors` too, and
`TelemetryIngestProofs` those of `IngestAlone`). `WorkOrderSessions` and `WorkOrderBoard` both extend `WorkOrders`, so
the two levels share every check and every written row, and the refinement is
about interleaving alone. `ScoringChain` composes the index, the prediction, the
remaining life, the attribution, the alerts and the order that a prediction raises,
because these services call one another inside a request; `ScoringChain` and
`FeatureVectors` both extend `Scores`, so the single vector and the batch are
compared on one formula. The other components share only tables, and none of their
operations calls another component inside a transaction except to record audit
events or to ask for a remaining life, which the modules include.

Definitions that a comment calls "Mutant" are faulty variants of the definition
below them (a dropped lock, a missing test). No specification uses them; they are
there to see each property fail when the code is changed that way.

Conventions of all session modules: a request is a record in `tx[s]`, told by its
`pc`; everything it read is kept in that record, and a write uses the kept copy
exactly where the code does. SQLAlchemy's commit writes only columns whose value
differs from what was read; `Differs` of `IncidentDesk`, `Edited` of `Accounts` and
`CheckpointOf` of `TelemetryIngest` model that.

## 3. Runs

| run | instance | shows |
|---|---|---|
| `work_order_followups` | 3 orders, 2 requests, 4 commits in all | reads stay valid, at most one open follow-up, refinement of the board |
| `work_order_evidence` | 1 order, 2 requests, 4 commits, two users (one may correct) | closure, evidence chain, verification, accountability, finality; every request ends |
| `ingest` | 2 requests, 1 connector, 2 events, batches of up to 2 | acknowledged is stored, refinement of the log, counters within the table, only enabled connectors, every request ends; requests that never overlap count exactly and meet neither the unique constraint nor an unset counter |
| `etl_cycles` | 1 pump with 2 timestamps, 2 stations, rows kept per computation: 2 | clean features, current gold, refinement of the curated store, risk through outages in every cycle; readings are curated and reach the features |
| `etl_windows` | 1 pump, 2 readings, 1 station | violated: a window that contains a reading twice |
| `incident_desk` | 2 requests, 1 alert, 2 revisions, 3 minutes | the policy log, its audit, the exact overdue list |
| `account_invites` | 2 requests, 2 tenants, 2 addresses, 3 invitations | no empty tenant, truthful mail, reset before access |
| `account_retry` | 1 request, 1 tenant, 2 addresses | violated: an invitation that cannot be repeated |
| `schedule` | 2 requests, 2 entries, 2 pumps, 1 order, lives of 10 and 20 days | one live entry per order, no circle of waiting rankings, ranks by remaining life |
| `scoring` | 2 requests, 1 pump, two gold rows, windows of 0 and 8.0 mm/s, counts -40, 7 and 30; beside it batches over any of 3 pumps of 2 tenants at 2 stations, repeatedly | scores in range, one index; the batch agrees with single requests |
| `scoring_orders` | as `scoring` | violated: an automatic work order below a risk of 0.70 |
| `fleet_seed` | the three scripts, 2 stations, 1 kill, the asset routes beside them | a finished seed is complete, repeated seeds add nothing, seeding succeeds in the end |

Bounds, and why they are enough to meet the interesting cases:

- *Two requests.* Every race in this code is between a read and a write of two
  transactions on the same row or index entry. Deadlocks need two requests as
  well (record before connector against connector before record). The theorems
  below lift the safety results to any number.
- *`MaxEvents`* bounds the commits of a behaviour. Four are enough for outcome,
  verification, correction and second verification of one order, and for a
  parent's creation, its outcome and verification and a follow-up, each with another
  request in flight.
- *Histories of overlap.* `IngestAlone` adds a variable that tells whether two
  requests were ever under way together; `raced` (scoring), `contested` (schedule),
  `mixed` (seed) and `touched` (feature vectors) do the same inside their modules. The
  properties that hold only without a certain overlap name it, so one run has
  both the overlapping and the undisturbed behaviour.
- *Scores.* The instance has readings beyond both ends of each clamp and
  thresholds on both sides; the theorems below cover all integers. Windows hold 0
  and 80 because a zero mean is treated differently by the two kinds of vector, and
  because two values tell a vector of one pump from that of another.
- *The chain and the batch* share no variable, so `scoring` checks both: `MCScoringChain` lets
  either run while the other is where it started, which reaches every state of each.
- *Entries, stations.* Two entries have two orders of urgency and one of primary
  keys, which is all that a circle of two rankings needs. Two stations have one
  before and one after the point where a run is killed; counts stop at "more than
  one", which is all the scripts can tell. One kill is enough: it may come at any
  statement, and every start may find what earlier runs left.
- *`MaxBatch`, `MaxDuplicates`.* A batch of two can hold a new event and a repeat,
  or two events in either order. Once a checkpoint has counted more than
  `MaxDuplicates` repeats, new batches are empty; the only unbounded quantity is that
  counter.
- *`MaxTime`, `Limit`, `Cap`* of the pipeline. Two timestamps can arrive in either
  order; a limit of two makes copies crowd out older rows as 100 does after a
  hundred cycles. `Cap` counts copies up to `Limit + 2`; more copies change no window
  and no choice of the newest rows.
- *`MaxRevision`, clock.* Two revisions have a stale author and a chain of two
  audit events; the four instants 0..3 put an alert before, on and after each deadline.
- *`MaxInvites`.* Three passwords let two invitations collide on an address after
  a third one founded a tenant.

Deadlock is checked in every run. Symmetry is used only in runs without
liveness properties, over sets whose members no definition distinguishes.

Times are abstracted where only order matters (`closed_at` is the number of the
audit event) and kept as integers where arithmetic matters (deadlines).

## 4. Fairness

Safety properties use no fairness. The five liveness properties assume:

- `WorkOrderSessions`: weak fairness of each request's own steps (a handler runs to
  its return or raise, then `get_db` closes the session) and strong fairness of
  `Acquire`, because PostgreSQL queues the waiters of a row lock. Clients owe
  nothing: submitting is not fair.
- `TelemetryIngest`: strong fairness of the statements that wait for a lock, for the same
  reason, weak fairness of the loop, and weak fairness of `BreakDeadlock`, because
  `deadlock_timeout` ends a cycle of waiters. The property needs every way out of
  the handler to release its locks: its mutant does not close a session that failed.
- `MedallionPipeline`: weak fairness of the orchestrator only. Every call it makes
  returns or raises, since the weather client has a timeout of five seconds
  (`etl/silver/services.py`). Restarting is an operator's act and is not fair,
  so the two properties end with "or the orchestrator stopped".
- `FleetSeed`: weak fairness of each run's own steps, and of `Start`: `SeedingSucceeds`
  is about somebody who runs the script again until it ends well, as its docstring
  invites to. Kills are bounded by `MaxCrashes`, or they could be endless.

## 5. Proofs

TLAPS checks the following for every value of the constants, under the named
assumptions of the modules: SQL NULL and the unset marker differ from all
values, bounds are natural numbers, deadlines are positive and ordered as the schema
validates them, tokens carry a role that may manage work orders, ids of entries and
orders are finitely many naturals, pumps and stations of the pipeline are finitely many
(its loops run over lists of them), and telemetry and rated pressures are integers
(vibration is not negative). Every invariant, every action property and every refinement
that a passing run checks is a theorem here.

**WorkOrderSessionsProofs.** `TypeCorrect`; `ReadsAreValid`: the row lock makes
what a request read still true when it writes. This is the invariant everything
else rests on. Its third conjunct is the delicate one: the absence of an open
follow-up is read without a lock on the children, and stays true because
children are only created under the lock of their parent, and a child that is
closed cannot be reopened. `Refinement` follows step by step: a commit that uses
the copy in `tx[s]` is the board's step because the copy equals the row.
`AtMostOneFollowUp`, `FollowUpsOfCompletedWork`, `ConsistentClosure` and
`FittingVerdict` are then proved about commits of the board only, and so are the
properties of whole trails. `TrailEnds` is what makes those inductive: an order whose last
event is evidence is completed, and one whose last event is a verification still has
it, so what the next event may be follows from the row alone. Each step appends one event
(`AuditAfter`), so only the last pair of events is new. From it:
`ReplayableEvidence`, `CurrentVerification` and `AccountableCorrections`.
`FinalClosure` is an action property; that a parent link is never cut rests on
`AbsentHasNoParent`, because the one operation that writes the link writes fresh rows.

**TelemetryIngestProofs.** `Inv` adds four facts to the types: a checkpoint that was
read stays (`ReadsExist`); what a request inserted has each event once and none that is
stored (`Fresh`); two requests never hold the same event (`Apart`, from
the unique index); whatever will be acknowledged is stored or the request's own to
store (`Seen`). `AcknowledgedForGood` and `IngestImplementsLog` follow;
`CountersWithinTable` and `DisabledStaysOut` need `Counts` on top: what a request read of the
checkpoint is within the table, which only grows. `OneAtATime` says what more is true until two
requests overlap: the counters are exact, and the one request under way has read
what is committed, inserts a new event, and writes a first checkpoint before the first
record (`Undisturbed`). `ExactCounters` and `RetriesDoNotConflict` follow; the latter does not
say that such a request succeeds, since an envelope that cannot be judged still ends it.
`NobodyIsStuck` is the invariant behind `EveryIngestEnds`, for any number of
requests and events: whenever requests are under way, one of them goes on, fails, or is in a
circle that deadlock detection breaks. Locks belong to requests under way
(`LocksAreHeld`), so whoever waits does so for one of finitely many; the smallest group
in which everybody waits for somebody of the group is a circle (`CircleExists`). It leaves to
TLC that the requests which can go on do so often enough.

**MedallionPipelineProofs.** Gold is computed from `FlattenSeq`, a recursive function, and there
is no induction over data here. What is needed of it is its type, and that is had
from the least counterexample: naturals are well founded (`LeastNatural`), so if
some prefix of the flattening were missing there would be a first one
(`PrefixesExist`, `FlattenGathers`); in the same way it has only the elements of its parts
(`FlattenTyped`) and all of them (`FlattenComplete`). On it rest `TypeCorrect` and, with
`CopiesAreClean` (a silver copy has passed the gate, and bronze rows never change),
`CleanFeatures`. The loops are told by what they have left: `StationsLeft` says that a station
without a score is still to be visited and gives `RiskSurvivesOutage`; `PumpsLeft` says that a pump that
the gold loop has left behind is current and gives `CurrentGold`. Its step rests on
`NewestIsChosen`: however rows of one timestamp are ordered, a reading with at most
`Limit` readings as new as itself is among the rows kept, so its row is computed.
`PipelineImplementsStore` maps silver to the set of times with copies and gold to the times of its
rows. Its two real steps are the gate, where `CopiesAreClean` makes the readings with copies
exactly the clean ones, and the gold step: `NewestTimes` shows, from `SeriesComplete`, that
the times of the rows kept are a newest part of the times in silver, though rows are chosen
among copies.

**IncidentDeskProofs.** `Inv` says that a request between its revision check and
its insert holds the tenant row (`HoldsTenant`), so that what it read is still the
last revision (`ReadIsCurrent`). From it: `EveryRevisionIsAudited`, `SavesDoNotFail` and
the refinement `PolicyIsALog`. `OverdueListNeverLies` rests on
`FilterMatchesFlags`: the subtraction in SQL and the addition in Python agree on
every row, for all integers, so the list is exact whatever happens between the statements.

**AccountsProofs.** `Inv` adds that a request about to mail made the account
(`MailIsOwed`) and that a row that was read stays (`ReadsExist`); `NoTenantIsEmpty`,
`MailIsTruthful` and `ResetComesFirst` follow.

**MaintenanceScheduleProofs.** `Fit` types each kind of request. `LocksAreOrdered` is the
key to `RankingsAreFree`: a ranking holds only rows whose key is below every row
it still has to write, so in any group of waiting requests the one that holds the
greatest locked row waits for none of them (`GreatestExists` gets that row
from well-foundedness of the subset order). `RankingsAreWhole` says that written, kept and
pending rows make up the plan; `CommittedRanksFollowRul` follows.
`PlannedOnce` ties an order's entries to the automations that have found none: at
most one of the two kinds exists unless the order is `contested`.

**ScoringChainProofs.** The first part is about `Scores` alone, for all integers: each
rounded and clamped formula stays in its range (`RiskRange`, `LifeRange`,
`SharesSumToOne`, ...), and a risk is below 0.35 exactly when the class is normal. `Carried`
then says that what a request holds between two statements has that range, and
`ScoresStayInRange` and `OrdersAlwaysNameFaults` follow; the latter is what holds of
automatic orders instead of the documented threshold. `IndexIsOne` strengthens
`OneDeviation`: everything that is stored or carried for a pump quotes its one stored
index, and where there is none yet, at most one request measures. The last part is about
`FeatureVectors`: `InStage` says, for each stage of the batch and the pumps nobody touched
since it began, that the windows it read are still the newest (`Selected`), that the
weather it read is that of their stations, and that what it has answered is what a
request of its own would get (`Answered`). It gives `BatchIsFaithful`, which leaves
pumps without a window open, because of them the code and its docstring disagree; the batch asks about
weather and risk only for the stations of its valid windows, which is enough because a
pump whose window is not fresh is answered without either.

**FleetSeedProofs.** `Passed` says that all stations before a run's position are there
with their pumps, and that the pumps it has passed are there or in its session;
rows are never deleted, so it stays true whatever other runs do, and
`SeedIsComplete` is its last line. `Exact` says that what a run found missing is
missing still; it holds while runs of the fleet are `Alone`, and gives `SeedAddsOnce`.

Model-checked only: the five liveness properties `EveryRequestEnds`, `EveryIngestEnds`,
`EveryCleanReadingIsCurated`, `FeaturesCatchUp` and `SeedingSucceeds` (fairness and
`ENABLED` are outside the prover; `NobodyIsStuck` is the part of one of them that is an
invariant), and the one property each of the three runs that expect a violation.

## 6. Findings

- *Windows that repeat a reading* (`etl_windows`). Silver gains one more copy of every
  reading per cycle, so a rolling window of three rows soon covers one reading.
  After a hundred cycles the newest reading's copies fill the 100 rows that a
  computation keeps, and older readings get no new gold rows.
- *An invitation that cannot be retried* (`account_retry`). `onboard_user` commits before it
  mails; repeating a failed invitation meets the unique slug or address,
  and no other operation sends a password.
- *Orders below the documented risk* (`scoring_orders`). The docstring
  (`work_order/services.py:110`) and `README.md` say that orders are raised from a risk of
  0.70. The code gives up only if the risk is below that and the class is normal; a class other
  than normal needs 0.35, so orders are raised from there (`OrdersAlwaysNameFaults`).

Four rules that documents state and the code does not keep are defined as properties
without a run of their own; TLC refutes each in a few steps when a cfg of its module
names it:

- `FollowUpHasDueDate` (`WorkOrders`): `schemas.py:53` refuses an outcome that
  requires follow-up without a due date; `outcomes.py:67` sets the flag on a
  failed verification and no date.
- `UpdateAssignsActiveUser` (`WorkOrderSessions`): `update_work_order` reads the new
  owner's row without a lock, and the owner may be deactivated before the commit.
- `ResolvedIsExplained` (`IncidentDesk`): the policy defines a response as "Resolution
  with an explanation"; `update_alert` asks for none.
- `MissingWindowsAreOmitted` (`FeatureVectors`): the header of `feature_engineering/services.py`
  and the docstring of `build_feature_batch` (`services.py:294`) say that a pump without a
  window is left out; the fallback answers it from a legacy gold row of any age.

Behaviour that the models show and no document rules out, unless said otherwise:

- *Ingestion.* Concurrent ingests of one connector lose counts (the checkpoint is read
  without a lock), so the counters are a lower bound; a batch whose first event is
  a repeat, sent to a connector without a checkpoint, fails as a whole because new
  counters are `None`. An envelope whose observed time names no zone, beside a receive time
  that does (or the reverse), is no quarantined record: the comparison raises, and the batch
  fails as a whole, again at each retry.
- *Incidents.* An explicit null in an alert's update clears its explanation. Two edits of one alert can combine into a row that neither asked for;
  an export's limit is checked against a count older than the rows it selects.
- *Accounts.* A token is believed without a look at the user's row, so a user who was
  deactivated goes on inviting and editing until the token expires.
- *Schedule.* Two overlapping automations give an order two entries; two overlapping
  rankings can leave duplicate ranks; cancelled and completed entries are ranked
  too; one pump without a feature vector aborts the whole ranking.
- *Scoring.* The index of a pump is computed once, at its first prediction; no route
  computes it again, so later predictions combine it with ever newer
  gold rows. An index of exactly 0 counts as 0.1. Gold's pressure (psi) is compared with a
  rated pressure in kPa. Vectors made from windows carry the default index 0.1, so alerts and
  lives of such pumps ignore the index; vectors made from a legacy row or from nothing say
  that weather and risk are available. A vibration of 0 is 0 for the risk and 1.5
  for lives and alerts. A window older than an hour ends the request with a 500, but
  a legacy row of any age is used. Every evaluation raises its alert again, and
  nothing looks for an earlier order of the pump.
- *Seeds.* Overlapping seeds, or a station created by hand while a seed runs, can store a
  code twice, and from then on every seed ends with `MultipleResultsFound`. `bootstrap_demo`
  commits its stations and then raises, because `SensorReading` has no `recorded_at`; the
  seed that follows completes its stations.

## 7. Not modelled, and the plan

Left out for good: reporting, metrics, governance and the dashboard (one insert
or none, nothing relates two steps), the shell (routing, settings, logging), the
generator of simulated readings and the migrations. Some operations end with an error at this
commit before they change anything, and so have no action: `auto_generate_alerts`
(`_pump_health` reads a column that `SensorReading` lacks), the refresh sessions'
`_issue` and the alert digest (missing settings), and the PATCH route of alerts (an
argument that the service does not take; `update_alert` itself is modelled).
Listings and exports only read; of them, the queue and the feature batch
are modelled because they combine several reads.

Left out of modelled parts: `update_tenant` and `update_station` (columns that no other
modelled operation reads), names, places and paging, the expiry of tokens, and of each
history of the scoring chain all but the latest row.

Next, in this order:

1. The invariants behind the other liveness properties: what a request waits for in
   `WorkOrderSessions`, and what a seed that was killed has left to do in `FleetSeed`.
