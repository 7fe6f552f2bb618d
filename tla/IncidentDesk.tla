---------------------------- MODULE IncidentDesk ----------------------------
(***************************************************************************)
(* Incidents of one organisation: save_policy, policy and queue of         *)
(* app/incidents/services.py, create_alert and update_alert of             *)
(* app/alert/services.py.                                                  *)
(*                                                                         *)
(* Every request is a database transaction under READ COMMITTED: each of   *)
(* its statements sees what is committed at that moment.  save_policy      *)
(* locks the tenant row before it reads the latest revision; the queue     *)
(* reads the policy, counts, and selects, without locks; update_alert      *)
(* reads a row, and its commit writes the columns that it changed.         *)
(*                                                                         *)
(* Paging and the columns that nothing below depends on (owner, message,   *)
(* pump, station) are left out; of the queue's filters by equality, the    *)
(* severity stands for all.                                                *)
(***************************************************************************)
EXTENDS Integers, Sequences, FiniteSets

CONSTANTS
  Requests,       \* concurrent requests
  Alerts,         \* identifiers of alerts
  Severities,
  Schedules,      \* the deadlines that administrators choose
  Defaults,       \* DEFAULTS of incidents/services.py
  ExportLimit,    \* incidents that an export may hold (10,000)
  None,
  MaxRevision,    \* bound: revisions of the policy
  MaxTime         \* bound: minutes

\* Deadline and PolicyWrite of schemas.py: no response before acknowledgement.
Deadline == {d \in [acknowledge : Nat \ {0}, response : Nat \ {0}] : d.acknowledge <= d.response}

ASSUME DeadlinesAreOrdered == Schedules \cup {Defaults} \subseteq [Severities -> Deadline]
ASSUME Bounds == MaxRevision \in Nat /\ MaxTime \in Nat /\ ExportLimit \in Nat

VARIABLES
  policies,       \* revision r is policies[r]; expected: what its author had seen
  trail,          \* audit events of entity type incident_policy
  alerts,         \* alerts[a]: row of the alert table, or None
  clock,          \* minutes
  lock,           \* the request that holds the tenant row FOR UPDATE, or None
  tx              \* tx[s]: what request s has read and does next

vars == <<policies, trail, alerts, clock, lock, tx>>

Times == 0 .. MaxTime
Statuses == {"triggered", "acknowledged", "resolved"}
AlertRow == [severity : Severities, status : Statuses, triggered : Times, explained : BOOLEAN]
Row == [deadlines : Schedules, expected : Nat]

ASSUME NoneIsNull == None \notin Requests \cup Alerts \cup Severities \cup Statuses \cup AlertRow

Policy == [revision : Nat, deadlines : Schedules \cup {Defaults}]
Event == [before : Policy, after : Policy]
Filter == [severity : Severities \cup {None}, overdue : BOOLEAN]
Item == [alert : Alerts, acknowledgement_overdue : BOOLEAN, response_overdue : BOOLEAN]

\* AlertUpdate: a status, a note, or an explicit null for either.
Change == [status : Statuses \cup {"unset", "null"}, note : {"unset", "null", "written"}]

\* A request, by what it has still to do.
Idle == [pc |-> "idle"]
Failed == [pc |-> "failed"]
Saving == [pc : {"waiting", "locked"}, expected : Nat, deadlines : Schedules]
Inserting == [pc : {"checked"}, expected : Nat, deadlines : Schedules, previous : Policy]
Listing == [pc : {"rules", "counted"}, now : Times, rules : Policy, filter : Filter]
Listed == [pc : {"listed"}, items : SUBSET Item]
Editing == [pc : {"editing"}, alert : Alerts, change : Change]
Request == {Idle, Failed} \cup Saving \cup Inserting \cup Listing \cup Listed \cup Editing

Init ==
  /\ policies = <<>> /\ trail = <<>>
  /\ alerts = [a \in Alerts |-> None]
  /\ clock = 0 /\ lock = None
  /\ tx = [s \in Requests |-> Idle]

Goto(s, t) == tx' = [tx EXCEPT ![s] = t]

-----------------------------------------------------------------------------
(* The policy.                                                             *)

\* policy: the row of the highest revision, or the defaults as revision 0.
PolicyAt(r) ==
  [revision |-> r, deadlines |-> IF r = 0 THEN Defaults ELSE policies[r].deadlines]

Current == PolicyAt(Len(policies))

RequestSave(s, expected, d) ==
  /\ tx[s] = Idle
  /\ Goto(s, [pc |-> "waiting", expected |-> expected, deadlines |-> d])
  /\ UNCHANGED <<policies, trail, alerts, clock, lock>>

TenantIsFree == lock = None

LockTenant(s) ==
  /\ tx[s].pc = "waiting" /\ TenantIsFree
  /\ lock' = s
  /\ Goto(s, [tx[s] EXCEPT !.pc = "locked"])
  /\ UNCHANGED <<policies, trail, alerts, clock>>

\* Mutant: the revision that the author had seen is not compared.
AnyRevision(s) == TRUE

SeenIsCurrent(s) == tx[s].expected = Current.revision

\* 409, and the session closes.
Refuse(s) ==
  /\ tx[s].pc = "locked" /\ ~SeenIsCurrent(s)
  /\ lock' = None
  /\ Goto(s, Idle)
  /\ UNCHANGED <<policies, trail, alerts, clock>>

CheckRevision(s) ==
  /\ tx[s].pc = "locked" /\ SeenIsCurrent(s)
  /\ Goto(s, [pc |-> "checked", expected |-> tx[s].expected, deadlines |-> tx[s].deadlines,
              previous |-> Current])
  /\ UNCHANGED <<policies, trail, alerts, clock, lock>>

Inserted(s) == [revision |-> tx[s].previous.revision + 1, deadlines |-> tx[s].deadlines]

\* Mutant: the previous policy is read again after the flush.
ReadAfterFlush(s) == [before |-> Inserted(s), after |-> Inserted(s)]

Revised(s) == [before |-> tx[s].previous, after |-> Inserted(s)]

\* Revision and audit event are one transaction; the unique constraint on
\* (tenant, revision) fails the flush of a revision that exists.  The answer
\* reads the policy again, so it may show a later revision.
Save(s) ==
  /\ tx[s].pc = "checked"
  /\ IF Inserted(s).revision \in DOMAIN policies
     THEN Goto(s, Failed) /\ UNCHANGED <<policies, trail>>
     ELSE /\ policies' = Append(policies,
                [deadlines |-> tx[s].deadlines, expected |-> tx[s].expected])
          /\ trail' = Append(trail, Revised(s))
          /\ Goto(s, Idle)
  /\ lock' = None
  /\ UNCHANGED <<alerts, clock>>

-----------------------------------------------------------------------------
(* Alerts.                                                                 *)

Raise(a, severity, triggered) ==
  /\ alerts[a] = None
  /\ alerts' = [alerts EXCEPT ![a] = [severity |-> severity, status |-> "triggered",
                                      triggered |-> triggered, explained |-> FALSE]]
  /\ UNCHANGED <<policies, trail, clock, lock, tx>>

\* The commit writes no column whose value is the one that was read: such a
\* field counts as unset.
Differs(change, row) ==
  change.status # row.status /\ (change.note = "null" => row.explained)

ReadAlert(s, a, change) ==
  /\ tx[s] = Idle /\ alerts[a] # None
  /\ Differs(change, alerts[a])
  /\ Goto(s, [pc |-> "editing", alert |-> a, change |-> change])
  /\ UNCHANGED <<policies, trail, alerts, clock, lock>>

Edited(s) ==
  LET change == tx[s].change
      row == alerts[tx[s].alert]
  IN [row EXCEPT !.status = IF change.status = "unset" THEN row.status ELSE change.status,
                 !.explained = IF change.note = "unset" THEN row.explained
                               ELSE change.note = "written"]

\* A status of null fails on NOT NULL, and nothing is written.
WriteAlert(s) ==
  /\ tx[s].pc = "editing"
  /\ alerts' = IF tx[s].change.status = "null" THEN alerts
               ELSE [alerts EXCEPT ![tx[s].alert] = Edited(s)]
  /\ Goto(s, Idle)
  /\ UNCHANGED <<policies, trail, clock, lock>>

-----------------------------------------------------------------------------
(* The queue and its export.                                               *)

\* An item's flags, as the listing computes them in Python.
AcknowledgementOverdue(row, rules, now) ==
  row.status = "triggered" /\ now > row.triggered + rules.deadlines[row.severity].acknowledge

ResponseOverdue(row, rules, now) ==
  row.status # "resolved" /\ now > row.triggered + rules.deadlines[row.severity].response

\* Mutant: only the acknowledgement deadline is a breach.
OnlyUnacknowledged(row, rules, now) ==
  row.status = "triggered" /\ row.triggered < now - rules.deadlines[row.severity].acknowledge

\* The overdue filter, as the statement computes it in SQL.
Breached(row, rules, now) ==
  /\ row.status # "resolved"
  /\ \E severity \in Severities :
       /\ row.severity = severity
       /\ \/ /\ row.status = "triggered"
             /\ row.triggered < now - rules.deadlines[severity].acknowledge
          \/ row.triggered < now - rules.deadlines[severity].response

Matches(row, t) ==
  /\ row # None
  /\ t.filter.severity \in {None, row.severity}
  /\ t.filter.overdue => Breached(row, t.rules, t.now)

Matching(s) == {a \in Alerts : Matches(alerts[a], tx[s])}

ReadRules(s, filter) ==
  /\ tx[s] = Idle
  /\ Goto(s, [pc |-> "rules", now |-> clock, rules |-> Current, filter |-> filter])
  /\ UNCHANGED <<policies, trail, alerts, clock, lock>>

Count(s) ==
  /\ tx[s].pc = "rules"
  /\ Goto(s, [tx[s] EXCEPT !.pc = "counted"])
  /\ UNCHANGED <<policies, trail, alerts, clock, lock>>

\* 422 for an export.
RefuseExport(s) ==
  /\ tx[s].pc = "rules" /\ Cardinality(Matching(s)) > ExportLimit
  /\ Goto(s, Idle)
  /\ UNCHANGED <<policies, trail, alerts, clock, lock>>

ItemOf(a, t) ==
  [alert |-> a,
   acknowledgement_overdue |-> AcknowledgementOverdue(alerts[a], t.rules, t.now),
   response_overdue |-> ResponseOverdue(alerts[a], t.rules, t.now)]

Select(s) ==
  /\ tx[s].pc = "counted"
  /\ Goto(s, [pc |-> "listed", items |-> {ItemOf(a, tx[s]) : a \in Matching(s)}])
  /\ UNCHANGED <<policies, trail, alerts, clock, lock>>

-----------------------------------------------------------------------------

\* The session closes: the answer is sent, or the request dies and its
\* transaction is rolled back.
Close(s) ==
  /\ tx[s] # Idle
  /\ lock' = IF lock = s THEN None ELSE lock
  /\ Goto(s, Idle)
  /\ UNCHANGED <<policies, trail, alerts, clock>>

Tick ==
  /\ clock < MaxTime
  /\ clock' = clock + 1
  /\ UNCHANGED <<policies, trail, alerts, lock, tx>>

Revise(s) ==
  \/ \E d \in Schedules, expected \in 0 .. Len(policies) :
       Len(policies) < MaxRevision /\ RequestSave(s, expected, d)
  \/ LockTenant(s) \/ Refuse(s) \/ CheckRevision(s) \/ Save(s)

Edit(s) ==
  \/ \E a \in Alerts, change \in Change : ReadAlert(s, a, change)
  \/ WriteAlert(s)

List(s) ==
  \/ \E filter \in Filter : ReadRules(s, filter)
  \/ Count(s) \/ RefuseExport(s) \/ Select(s)

Next ==
  \/ \E s \in Requests : Revise(s) \/ Edit(s) \/ List(s) \/ Close(s)
  \/ \E a \in Alerts, severity \in Severities, triggered \in Times : Raise(a, severity, triggered)
  \/ Tick

Spec == Init /\ [][Next]_vars

-----------------------------------------------------------------------------
(* Properties.                                                             *)

TypeOK ==
  /\ policies \in Seq(Row) /\ trail \in Seq(Event)
  /\ alerts \in [Alerts -> AlertRow \cup {None}]
  /\ clock \in Times /\ lock \in Requests \cup {None}
  /\ tx \in [Requests -> Request]

Promise == INSTANCE PolicyLog WITH log <- policies

\* save_policy: concurrent and stale saves, refusals and lost connections
\* together behave as a log whose revisions replace what their authors saw.
ImplementsPolicyLog == Promise!Spec

\* Every committed revision has one audit event, in the same order, and the
\* events chain: each "before" is the revision that its "after" replaced.
AuditIsTheHistory ==
  /\ Len(trail) = Len(policies)
  /\ \A r \in DOMAIN trail : trail[r] = [before |-> PolicyAt(r - 1), after |-> PolicyAt(r)]

\* No save ever runs into the unique constraint: a concurrent save costs its
\* author a 409 with "refresh before saving", not a server error.
SavesNeverCollide == \A s \in Requests : tx[s] # Failed

\* queue: with the overdue filter, the statement's conditions and the flags
\* computed in Python agree, whatever is saved, raised or edited between the
\* request's statements: a listed incident carries a flag, and an incident
\* that the other filters admit and that is left out would carry none.
OverdueListIsExact ==
  [][\A s \in Requests : tx[s].pc = "counted" /\ Select(s) /\ tx[s].filter.overdue =>
       {i.alert : i \in {j \in tx'[s].items : j.acknowledgement_overdue \/ j.response_overdue}}
         = {a \in Alerts :
             /\ alerts[a] # None
             /\ tx[s].filter.severity \in {None, alerts[a].severity}
             /\ \/ AcknowledgementOverdue(alerts[a], tx[s].rules, tx[s].now)
                \/ ResponseOverdue(alerts[a], tx[s].rules, tx[s].now)}]_vars

\* policy() defines the response as "Resolution with an explanation": an
\* incident that counts as resolved has a note.
ResolvedIsExplained ==
  \A a \in Alerts : alerts[a] # None /\ alerts[a].status = "resolved" => alerts[a].explained
=============================================================================
