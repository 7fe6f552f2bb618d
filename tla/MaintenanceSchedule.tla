------------------------ MODULE MaintenanceSchedule ------------------------
(***************************************************************************)
(* The maintenance calendar of one tenant (app/maintenance_schedule) and   *)
(* the automation that fills it from open work orders                      *)
(* (app/operations/actions.auto_generate_schedule).                        *)
(*                                                                         *)
(* Every request has a session of its own under READ COMMITTED; nothing    *)
(* locks the table and nothing but the primary key is unique.  A session   *)
(* writes only the columns that differ from what it read, in one UPDATE    *)
(* per row in primary key order, and an UPDATE holds its row until the     *)
(* commit.  rank_schedule_by_rul reads every entry, asks for the latest    *)
(* RUL of each pump (estimating it where there is none, which commits and  *)
(* expires all the session has read), and numbers the entries by urgency.  *)
(* Dates are left out: among equals any order may come.                    *)
(***************************************************************************)
EXTENDS Naturals, FiniteSets, FiniteSetsExt

CONSTANTS
  Sessions,       \* request sessions
  Entries,        \* ids of schedule rows, numbered in primary key order
  Orders,         \* work orders, numbered in the order of their due dates
  Pumps,
  OrderPump,      \* OrderPump[o]: the pump of work order o
  HandPumps,      \* the pumps that people plan entries for
  Days,           \* remaining useful lives
  Patches,        \* payloads of PATCH: functions on some of rank, status, order
  None            \* no row, no value

ASSUME EntryIds == Entries \subseteq Nat /\ IsFiniteSet(Entries)
ASSUME OrderIds == Orders \subseteq Nat /\ IsFiniteSet(Orders)
ASSUME PumpSets == HandPumps \subseteq Pumps /\ OrderPump \in [Orders -> Pumps]
ASSUME RulDays == Days \subseteq Nat

Statuses == {"planned", "confirmed", "completed", "cancelled"}
Row == [pump : Pumps, rank : Nat \cup {None}, status : Statuses, order : Orders \cup {None}]

ASSUME NoneIsNew == None \notin Nat /\ None \notin Sessions /\ None \notin Row

ASSUME PatchesAreColumns ==
  \A p \in Patches : /\ DOMAIN p \subseteq {"rank", "status", "order"}
                     /\ \A c \in DOMAIN p :
                          p[c] \in CASE c = "rank" -> Nat \cup {None}
                                     [] c = "status" -> Statuses
                                     [] c = "order" -> Orders \cup {None}

VARIABLES
  schedule,       \* schedule[e]: the committed row, or None
  rul,            \* rul[p]: the latest estimate, or None
  tx,             \* tx[s]: what the request of session s has read and decided
  lock,           \* lock[e]: the session whose UPDATE holds the row, or None
  contested       \* history: orders that overlapping automations plan, or
                  \* that an edit gave a live entry

vars == <<schedule, rul, tx, lock, contested>>

Rows == {e \in Entries : schedule[e] # None}
Live(e) == schedule[e] # None /\ schedule[e].status # "cancelled"
Planned(o) == {e \in Rows : Live(e) /\ schedule[e].order = o}

Idle == [kind |-> "idle"]

Init ==
  /\ schedule = [e \in Entries |-> None]
  /\ rul = [p \in Pumps |-> None]
  /\ tx = [s \in Sessions |-> Idle]
  /\ lock = [e \in Entries |-> None]
  /\ contested = {}

Begin(s, request) == tx[s] = Idle /\ tx' = [tx EXCEPT ![s] = request]
Become(s, request) == tx' = [tx EXCEPT ![s] = request]
Finish(s) == tx' = [tx EXCEPT ![s] = Idle]

-----------------------------------------------------------------------------
(* POST /maintenance-schedule and PATCH /maintenance-schedule/{entry_id}.  *)

\* A person's entry is linked to no work order; its rank may come later,
\* with a PATCH.
CreateEntry(e, p) ==
  /\ schedule[e] = None
  /\ schedule' = [schedule EXCEPT ![e] = [pump |-> p, rank |-> None, status |-> "planned", order |-> None]]
  /\ UNCHANGED <<rul, tx, lock, contested>>

ReadEntry(s, e, patch) ==
  /\ e \in Rows
  /\ Begin(s, [kind |-> "edit", entry |-> e, patch |-> patch,
               read |-> [c \in DOMAIN patch |-> schedule[e][c]]])
  /\ UNCHANGED <<schedule, rul, lock, contested>>

\* The columns an edit writes.
Changed(t) == {c \in DOMAIN t.patch : t.patch[c] # t.read[c]}

Patched(row, t) == [c \in DOMAIN row |-> IF c \in Changed(t) THEN t.patch[c] ELSE row[c]]

CommitEdit(s) ==
  LET t == tx[s]
      e == t.entry
      row == Patched(schedule[e], t)
  IN /\ t.kind = "edit"
     /\ Changed(t) # {} => lock[e] = None
     /\ schedule' = [schedule EXCEPT ![e] = row]
     /\ contested' = contested \cup
          {o \in Orders : row.order = o /\ row.status # "cancelled" /\ e \notin Planned(o)}
     /\ Finish(s)
     /\ UNCHANGED <<rul, lock>>

-----------------------------------------------------------------------------
(* POST /maintenance-schedule/rank.                                        *)

\* list_scheduled_maintenance without a filter: cancelled and completed
\* entries are ranked as well.  An empty schedule returns at once.
ListEntries(s) ==
  /\ Rows # {}
  /\ Begin(s, [kind |-> "rank", left |-> Rows,
               known |-> [e \in Rows |-> schedule[e].rank],
               days |-> [e \in Rows |-> 0]])
  /\ UNCHANGED <<schedule, rul, lock, contested>>

\* The rank of e as the session sees it, read again where a commit expired it.
Seen(t, e) ==
  [f \in DOMAIN t.known \cup {e} |-> IF f \in DOMAIN t.known THEN t.known[f] ELSE schedule[e].rank]

ReadRul(s, e) ==
  LET t == tx[s] IN
  /\ t.kind = "rank" /\ e \in t.left
  /\ rul[schedule[e].pump] # None
  /\ Become(s, [t EXCEPT !.left = t.left \ {e},
                         !.days[e] = rul[schedule[e].pump],
                         !.known = Seen(t, e)])
  /\ UNCHANGED <<schedule, rul, lock, contested>>

\* No estimate of its pump: run_rul_estimate commits one.
EstimateRul(s, e, d) ==
  LET t == tx[s] IN
  /\ t.kind = "rank" /\ e \in t.left
  /\ rul[schedule[e].pump] = None
  /\ rul' = [rul EXCEPT ![schedule[e].pump] = d]
  /\ Become(s, [t EXCEPT !.left = t.left \ {e},
                         !.days[e] = d,
                         !.known = [f \in {} |-> None]])
  /\ UNCHANGED <<schedule, lock, contested>>

\* No feature vector for that pump: the request ends with an error.
EstimateFails(s, e) ==
  /\ tx[s].kind = "rank" /\ e \in tx[s].left
  /\ rul[schedule[e].pump] = None
  /\ Finish(s)
  /\ UNCHANGED <<schedule, rul, lock, contested>>

\* The ranks a sort by remaining life may give.
RanksByUrgency(days) ==
  {r \in [DOMAIN days -> 1 .. Cardinality(DOMAIN days)] :
     /\ \A e, f \in DOMAIN days : e # f => r[e] # r[f]
     /\ \A e, f \in DOMAIN days : days[e] < days[f] => r[e] < r[f]}

\* Mutant: a rank that was expired counts as unchanged.
KnownToDiffer(t, plan) == {e \in DOMAIN t.known : t.known[e] # plan[e]}

\* The rows a ranking writes.
Differing(t, plan) == {e \in DOMAIN plan : e \notin DOMAIN t.known \/ t.known[e] # plan[e]}

PlanRanks(s) ==
  LET t == tx[s] IN
  /\ t.kind = "rank" /\ t.left = {}
  /\ \E plan \in RanksByUrgency(t.days) :
       Become(s, [kind |-> "flush", days |-> t.days, plan |-> plan,
                  kept |-> DOMAIN t.known \ Differing(t, plan),
                  pending |-> Differing(t, plan)])
  /\ UNCHANGED <<schedule, rul, lock, contested>>

\* Mutant: one UPDATE after the other in the order of urgency.
MostUrgent(t) == CHOOSE e \in t.pending : \A f \in t.pending : t.plan[e] <= t.plan[f]

\* The flush goes by primary key.
NextRow(t) == CHOOSE e \in t.pending : \A f \in t.pending : e <= f

UpdateRow(s) ==
  LET t == tx[s]
      e == NextRow(t)
  IN /\ t.kind = "flush" /\ t.pending # {}
     /\ lock[e] = None
     /\ lock' = [lock EXCEPT ![e] = s]
     /\ Become(s, [t EXCEPT !.pending = t.pending \ {e}])
     /\ UNCHANGED <<schedule, rul, contested>>

CommitRanks(s) ==
  LET t == tx[s] IN
  /\ t.kind = "flush" /\ t.pending = {}
  /\ schedule' = [e \in Entries |->
       IF lock[e] = s THEN [schedule[e] EXCEPT !.rank = t.plan[e]] ELSE schedule[e]]
  /\ lock' = [e \in Entries |-> IF lock[e] = s THEN None ELSE lock[e]]
  /\ Finish(s)
  /\ UNCHANGED <<rul, contested>>

-----------------------------------------------------------------------------
(* POST /operations/maintenance-schedule/auto-generate.                    *)

\* The orders that are open just then; their life is the module WorkOrders.
ListOrders(s, listed) ==
  /\ Begin(s, [kind |-> "auto", listed |-> listed, left |-> listed, adds |-> {}])
  /\ UNCHANGED <<schedule, rul, lock, contested>>

\* Mutant: every open order is planned, looked up or not.
NeverPlanned(o) == FALSE

\* Some entry of the order is not cancelled.
IsPlanned(o) == Planned(o) # {}

\* One SELECT for each order; what it misses goes into the session.
LookUpOrder(s) ==
  LET t == tx[s]
      o == Min(t.left)
      rivals == {r \in Sessions \ {s} : tx[r].kind = "auto" /\ o \in tx[r].adds}
  IN /\ t.kind = "auto" /\ t.left # {}
     /\ Become(s, [t EXCEPT !.left = t.left \ {o},
                            !.adds = IF IsPlanned(o) THEN t.adds ELSE t.adds \cup {o}])
     /\ contested' = IF IsPlanned(o) \/ rivals = {} THEN contested ELSE contested \cup {o}
     /\ UNCHANGED <<schedule, rul, lock>>

\* The rank of an order is its place in the list.
Place(t, o) == Cardinality({q \in t.listed : q <= o})

\* All new entries in one commit, with ids that nothing orders.
CommitPlan(s) ==
  LET t == tx[s] IN
  /\ t.kind = "auto" /\ t.left = {}
  /\ \E id \in [t.adds -> Entries \ Rows] :
       /\ \A o, q \in t.adds : o # q => id[o] # id[q]
       /\ schedule' = [e \in Entries |->
            IF \E o \in t.adds : id[o] = e
            THEN LET o == CHOOSE o \in t.adds : id[o] = e
                 IN [pump |-> OrderPump[o], rank |-> Place(t, o),
                     status |-> "planned", order |-> o]
            ELSE schedule[e]]
  /\ Finish(s)
  /\ UNCHANGED <<rul, lock, contested>>

-----------------------------------------------------------------------------
(* Around the calendar: POST /rul/pumps/{pump_id}/trigger.                 *)

NewEstimate(p, d) ==
  /\ rul' = [rul EXCEPT ![p] = d]
  /\ UNCHANGED <<schedule, tx, lock, contested>>

-----------------------------------------------------------------------------

Request(s) ==
  \/ \E e \in Entries, patch \in Patches : ReadEntry(s, e, patch)
  \/ CommitEdit(s)
  \/ ListEntries(s) \/ PlanRanks(s) \/ UpdateRow(s) \/ CommitRanks(s)
  \/ \E e \in Entries : ReadRul(s, e) \/ EstimateFails(s, e)
  \/ \E e \in Entries, d \in Days : EstimateRul(s, e, d)
  \/ \E listed \in SUBSET Orders : ListOrders(s, listed)
  \/ LookUpOrder(s) \/ CommitPlan(s)

Next ==
  \/ \E s \in Sessions : Request(s)
  \/ \E e \in Entries, p \in HandPumps : CreateEntry(e, p)
  \/ \E p \in Pumps, d \in Days : NewEstimate(p, d)

Spec == Init /\ [][Next]_vars

-----------------------------------------------------------------------------
(* Properties.                                                             *)

\* Type invariant.
TypeOK ==
  /\ schedule \in [Entries -> Row \cup {None}]
  /\ rul \in [Pumps -> Days \cup {None}]
  /\ DOMAIN tx = Sessions
  /\ lock \in [Entries -> Sessions \cup {None}]
  /\ contested \subseteq Orders

\* Automations that do not overlap plan an open order once, however often
\* they run and whatever edits cancel, confirm or complete in between: an
\* order has one live entry, unless two automations looked for it at the same
\* time or a person linked or revived a second one.
PlannedOncePerOrder ==
  \A o \in Orders \ contested : \A e, f \in Planned(o) : e = f

\* A request whose UPDATE waits for the row of another.
WaitsFor(s, r) ==
  \/ tx[s].kind = "flush" /\ tx[s].pending # {} /\ lock[NextRow(tx[s])] = r
  \/ tx[s].kind = "edit" /\ Changed(tx[s]) # {} /\ lock[tx[s].entry] = r

\* Rankings and edits never wait for one another in a circle, although each
\* ranking holds the rows it has written and writes another set of rows.
RankingsNeverDeadlock ==
  \A group \in SUBSET Sessions :
    group # {} => \E s \in group : \A r \in group : ~WaitsFor(s, r)

\* What a ranking relies on is still so when it commits: the ranks it read and
\* need not write, and the remaining lives.
UpToDate(t) ==
  /\ \A e \in t.kept : schedule[e].rank = t.plan[e]
  /\ \A e \in DOMAIN t.plan : t.days[e] = rul[schedule[e].pump]

\* A ranking that nobody disturbed leaves ranks 1, 2, 3 ... by remaining
\* life, although it writes only the ranks that differ from what it read, and
\* its own estimates made it forget what it had read.
RankingFollowsRul ==
  [][\A s \in Sessions :
       tx[s].kind = "flush" /\ tx'[s] = Idle /\ UpToDate(tx[s])
         => [e \in DOMAIN tx[s].plan |-> schedule'[e].rank]
              \in RanksByUrgency([e \in DOMAIN tx[s].plan |-> rul[schedule[e].pump]])]_vars
=============================================================================
