------------------------- MODULE IncidentDeskProofs -------------------------
(***************************************************************************)
(* Theorems about IncidentDesk, for any number of requests, alerts,        *)
(* severities and schedules of deadlines.                                  *)
(***************************************************************************)
EXTENDS IncidentDesk, TLAPS

-----------------------------------------------------------------------------
(* Lemmas about the data.                                                  *)

\* The state of a request is told by its pc alone.
LEMMA KindOfRequest ==
  ASSUME NEW t \in Request
  PROVE  /\ t.pc \in {"waiting", "locked"} => t \in Saving
         /\ t.pc = "checked" => t \in Inserting
         /\ t.pc \in {"rules", "counted"} => t \in Listing
         /\ t.pc = "editing" => t \in Editing
         /\ t.pc = "failed" <=> t = Failed
         /\ t.pc = "idle" <=> t = Idle
  BY DEF Request, Idle, Failed, Saving, Inserting, Listing, Listed, Editing

\* The overdue filter of the statement says of a row what its flags say.
LEMMA FilterMatchesFlags ==
  ASSUME NEW row \in AlertRow, NEW rules \in Policy, NEW now \in Times
  PROVE  Breached(row, rules, now) <=>
           AcknowledgementOverdue(row, rules, now) \/ ResponseOverdue(row, rules, now)
<1>1. /\ row.triggered \in Int /\ now \in Int /\ row.severity \in Severities
  BY DEF AlertRow, Times
<1>2. rules.deadlines \in [Severities -> Deadline]
  BY DeadlinesAreOrdered DEF Policy
<1>3. /\ rules.deadlines[row.severity].acknowledge \in Int
      /\ rules.deadlines[row.severity].response \in Int
  BY <1>1, <1>2 DEF Deadline
<1> QED
  BY <1>1, <1>3 DEF Breached, AcknowledgementOverdue, ResponseOverdue, AlertRow, Statuses

LEMMA PolicyTyped ==
  ASSUME policies \in Seq(Row), NEW r \in 0 .. Len(policies)
  PROVE  PolicyAt(r) \in Policy
<1>1. CASE r = 0
  BY <1>1 DEF PolicyAt, Policy
<1>2. CASE r # 0
  <2>1. policies[r] \in Row
    BY <1>2
  <2> QED BY <1>2, <2>1 DEF PolicyAt, Policy, Row
<1> QED BY <1>1, <1>2

LEMMA CurrentTyped ==
  ASSUME policies \in Seq(Row)
  PROVE  Current \in Policy /\ Current.revision = Len(policies) /\ Len(policies) \in Nat
<1>1. Len(policies) \in 0 .. Len(policies) /\ Len(policies) \in Nat
  OBVIOUS
<1> QED BY <1>1, PolicyTyped DEF Current, PolicyAt

-----------------------------------------------------------------------------
(* The inductive invariant.  A save between its revision check and its     *)
(* insert holds the tenant row, so what it read is still the last revision.*)

HoldsTenant == \A s \in Requests : tx[s].pc \in {"locked", "checked"} => lock = s

ReadIsCurrent ==
  \A s \in Requests : tx[s].pc = "checked" =>
    tx[s].previous = Current /\ tx[s].expected = Len(policies)

\* No alert is ever deleted.
EditsExist == \A s \in Requests : tx[s].pc = "editing" => alerts[tx[s].alert] # None

Inv ==
  /\ TypeOK /\ HoldsTenant /\ ReadIsCurrent /\ EditsExist
  /\ SavesNeverCollide /\ AuditIsTheHistory

LEMMA InitInv == Init => Inv
<1> SUFFICES ASSUME Init PROVE Inv
  OBVIOUS
<1>1. TypeOK
  <2>1. 0 \in Times
    BY Bounds DEF Times
  <2> QED BY <2>1 DEF Init, TypeOK, Request
<1>2. HoldsTenant /\ ReadIsCurrent /\ EditsExist
  BY DEF Init, HoldsTenant, ReadIsCurrent, EditsExist, Idle
<1>3. SavesNeverCollide /\ AuditIsTheHistory
  BY DEF Init, SavesNeverCollide, AuditIsTheHistory, Idle, Failed
<1> QED BY <1>1, <1>2, <1>3 DEF Inv

\* What a step that leaves the policy alone has to show.
LEMMA PolicyUntouched ==
  ASSUME Inv, UNCHANGED <<policies, trail>>, NEW s \in Requests, NEW t \in Request,
         tx' = [tx EXCEPT ![s] = t],
         alerts' \in [Alerts -> AlertRow \cup {None}], clock' \in Times,
         lock' \in Requests \cup {None},
         \A u \in Requests \ {s} : lock = u => lock' = u,
         t.pc \in {"locked", "checked"} => lock' = s,
         t.pc = "checked" => t.previous = Current /\ t.expected = Len(policies),
         t.pc = "editing" => t.alert \in Alerts /\ alerts[t.alert] # None,
         \A a \in Alerts : alerts[a] # None => alerts'[a] # None,
         t # Failed
  PROVE  Inv'
<1>1. /\ tx \in [Requests -> Request] /\ tx' \in [Requests -> Request]
      /\ tx'[s] = t /\ \A u \in Requests \ {s} : tx'[u] = tx[u]
  BY DEF Inv, TypeOK
<1>2. TypeOK'
  BY <1>1 DEF Inv, TypeOK
<1>3. HoldsTenant'
  BY <1>1 DEF Inv, HoldsTenant
<1>4. ReadIsCurrent'
  BY <1>1 DEF Inv, ReadIsCurrent, Current, PolicyAt
<1>5. SavesNeverCollide'
  BY <1>1 DEF Inv, SavesNeverCollide
<1>6. AuditIsTheHistory'
  BY DEF Inv, AuditIsTheHistory, PolicyAt
<1>7. EditsExist'
  <2>1. ASSUME NEW u \in Requests \ {s}, tx[u].pc = "editing"
        PROVE  alerts'[tx[u].alert] # None
    <3>1. tx[u] \in Editing
      BY <2>1, <1>1, KindOfRequest
    <3> QED BY <2>1, <3>1 DEF Editing, Inv, EditsExist
  <2> QED BY <1>1, <2>1 DEF EditsExist
<1> QED BY <1>2, <1>3, <1>4, <1>5, <1>6, <1>7 DEF Inv

\* Saves.
LEMMA RequestSaveInv ==
  ASSUME Inv, NEW s \in Requests, NEW d \in Schedules, NEW e \in 0 .. Len(policies),
         RequestSave(s, e, d)
  PROVE  Inv'
<1> DEFINE t == [pc |-> "waiting", expected |-> e, deadlines |-> d]
<1>1. e \in Nat
  BY CurrentTyped DEF Inv, TypeOK
<1>2. t \in Request
  BY <1>1 DEF Request, Saving
<1>3. t # Failed /\ t.pc = "waiting"
  BY DEF Failed
<1>4. tx' = [tx EXCEPT ![s] = t] /\ UNCHANGED <<policies, trail, alerts, clock, lock>>
  BY DEF RequestSave, Goto
<1> HIDE DEF t
<1> QED BY <1>2, <1>3, <1>4, PolicyUntouched DEF Inv, TypeOK

LEMMA LockTenantInv ==
  ASSUME Inv, NEW s \in Requests, LockTenant(s)
  PROVE  Inv'
<1> DEFINE t == [tx[s] EXCEPT !.pc = "locked"]
<1>1. tx[s] \in Saving
  BY KindOfRequest DEF Inv, TypeOK, LockTenant
<1>2. t \in Saving /\ t.pc = "locked"
  BY <1>1 DEF Saving
<1>3. t \in Request /\ t # Failed
  BY <1>2 DEF Request, Failed
<1>4. /\ tx' = [tx EXCEPT ![s] = t] /\ lock = None /\ lock' = s
      /\ UNCHANGED <<policies, trail, alerts, clock>>
  BY DEF LockTenant, Goto, TenantIsFree
<1>5. \A u \in Requests : lock # u
  BY <1>4, NoneIsNull
<1> HIDE DEF t
<1> QED BY <1>2, <1>3, <1>4, <1>5, PolicyUntouched DEF Inv, TypeOK

LEMMA RefuseInv ==
  ASSUME Inv, NEW s \in Requests, Refuse(s)
  PROVE  Inv'
<1>1. lock = s
  BY DEF Inv, HoldsTenant, Refuse
<1>2. Idle \in Request /\ Idle # Failed /\ Idle.pc = "idle"
  BY DEF Request, Idle, Failed
<1>3. /\ tx' = [tx EXCEPT ![s] = Idle] /\ lock' = None
      /\ UNCHANGED <<policies, trail, alerts, clock>>
  BY DEF Refuse, Goto
<1> QED BY <1>1, <1>2, <1>3, PolicyUntouched DEF Inv, TypeOK

LEMMA CheckRevisionInv ==
  ASSUME Inv, NEW s \in Requests, CheckRevision(s)
  PROVE  Inv'
<1> DEFINE t == [pc |-> "checked", expected |-> tx[s].expected,
                 deadlines |-> tx[s].deadlines, previous |-> Current]
<1>1. tx[s] \in Saving
  BY KindOfRequest DEF Inv, TypeOK, CheckRevision
<1>2. Current \in Policy /\ Current.revision = Len(policies)
  BY CurrentTyped DEF Inv, TypeOK
<1>3. t \in Inserting
  BY <1>1, <1>2 DEF Saving, Inserting
<1>4. t \in Request /\ t # Failed /\ t.pc = "checked"
  BY <1>3 DEF Request, Inserting, Failed
<1>5. t.previous = Current /\ t.expected = Len(policies)
  BY <1>2 DEF CheckRevision, SeenIsCurrent
<1>6. /\ tx' = [tx EXCEPT ![s] = t] /\ lock = s
      /\ UNCHANGED <<policies, trail, alerts, clock, lock>>
  BY DEF CheckRevision, Goto, Inv, HoldsTenant
<1> HIDE DEF t
<1> QED BY <1>4, <1>5, <1>6, PolicyUntouched DEF Inv, TypeOK

\* What a save does: the next revision is the one that its author expected.
LEMMA SaveEffect ==
  ASSUME Inv, NEW s \in Requests, Save(s)
  PROVE  /\ tx[s] \in Inserting /\ lock = s
         /\ tx[s].previous = Current /\ tx[s].expected = Len(policies)
         /\ Inserted(s).revision = Len(policies) + 1 /\ Len(policies) \in Nat
         /\ policies' = Append(policies, [deadlines |-> tx[s].deadlines,
                                          expected |-> Len(policies)])
         /\ trail' = Append(trail, Revised(s))
         /\ tx' = [tx EXCEPT ![s] = Idle] /\ lock' = None
         /\ UNCHANGED <<alerts, clock>>
<1>1. tx[s].pc = "checked"
  BY DEF Save
<1>2. tx[s] \in Inserting
  BY <1>1, KindOfRequest DEF Inv, TypeOK
<1>3. lock = s /\ tx[s].previous = Current /\ tx[s].expected = Len(policies)
  BY <1>1 DEF Inv, HoldsTenant, ReadIsCurrent
<1>4. Current.revision = Len(policies) /\ Len(policies) \in Nat
  BY CurrentTyped DEF Inv, TypeOK
<1>5. Inserted(s).revision = Len(policies) + 1
  BY <1>3, <1>4 DEF Inserted
<1>6. DOMAIN policies = 1 .. Len(policies)
  BY DEF Inv, TypeOK
<1>7. Inserted(s).revision \notin DOMAIN policies
  BY <1>4, <1>5, <1>6
<1> QED BY <1>2, <1>3, <1>4, <1>5, <1>7 DEF Save, Goto

\* Earlier revisions keep their content when one is appended.
LEMMA AppendKeepsPolicies ==
  ASSUME policies \in Seq(Row), NEW row \in Row, policies' = Append(policies, row)
  PROVE  /\ \A r \in 0 .. Len(policies) : PolicyAt(r)' = PolicyAt(r)
         /\ \A r \in Nat : r = Len(policies) + 1 =>
              PolicyAt(r)' = [revision |-> r, deadlines |-> row.deadlines]
<1>1. Len(policies) \in Nat
  OBVIOUS
<1>2. \A r \in 1 .. Len(policies) : policies'[r] = policies[r]
  OBVIOUS
<1>3. policies'[Len(policies) + 1] = row
  OBVIOUS
<1> QED BY <1>1, <1>2, <1>3 DEF PolicyAt

LEMMA SaveInv ==
  ASSUME Inv, NEW s \in Requests, Save(s)
  PROVE  Inv'
<1> DEFINE n == Len(policies)
           row == [deadlines |-> tx[s].deadlines, expected |-> n]
<1>1. /\ tx[s] \in Inserting /\ lock = s /\ tx[s].previous = Current
      /\ Inserted(s).revision = n + 1 /\ n \in Nat
      /\ policies' = Append(policies, row) /\ trail' = Append(trail, Revised(s))
      /\ tx' = [tx EXCEPT ![s] = Idle] /\ lock' = None
      /\ UNCHANGED <<alerts, clock>>
  BY SaveEffect
<1>2. row \in Row /\ tx[s].previous \in Policy
  BY <1>1 DEF Row, Inserting
<1>3. Inserted(s) = [revision |-> n + 1, deadlines |-> tx[s].deadlines]
  BY <1>1 DEF Inserted
<1>4. Inserted(s) \in Policy
  BY <1>1, <1>3 DEF Policy, Inserting
<1>5. Revised(s) \in Event
  BY <1>2, <1>4 DEF Revised, Event
<1>6. Idle \in Request /\ Idle # Failed /\ Idle.pc = "idle"
  BY DEF Request, Idle, Failed
<1>7. /\ tx \in [Requests -> Request] /\ policies \in Seq(Row) /\ trail \in Seq(Event)
      /\ tx' \in [Requests -> Request]
      /\ tx'[s] = Idle /\ \A u \in Requests \ {s} : tx'[u] = tx[u]
  BY <1>1, <1>6 DEF Inv, TypeOK
<1>8. TypeOK'
  <2>1. policies' \in Seq(Row) /\ trail' \in Seq(Event)
    BY <1>1, <1>2, <1>5, <1>7
  <2> QED BY <1>1, <1>7, <2>1 DEF Inv, TypeOK
<1>9. \A u \in Requests \ {s} : tx[u].pc \notin {"locked", "checked"}
  BY <1>1 DEF Inv, HoldsTenant
<1>10. HoldsTenant' /\ ReadIsCurrent'
  BY <1>6, <1>7, <1>9 DEF HoldsTenant, ReadIsCurrent
<1>11. SavesNeverCollide' /\ EditsExist'
  BY <1>1, <1>6, <1>7 DEF Inv, SavesNeverCollide, EditsExist
<1>12. AuditIsTheHistory'
  <2>1. Len(trail) = n /\ Len(trail') = n + 1 /\ Len(policies') = n + 1
    BY <1>1, <1>2, <1>5, <1>7 DEF Inv, AuditIsTheHistory
  <2>2. /\ \A r \in 0 .. n : PolicyAt(r)' = PolicyAt(r)
        /\ \A r \in Nat : r = n + 1 =>
             PolicyAt(r)' = [revision |-> r, deadlines |-> row.deadlines]
    BY <1>1, <1>2, <1>7, AppendKeepsPolicies
  <2>3. ASSUME NEW r \in 1 .. n
        PROVE  trail'[r] = [before |-> PolicyAt(r - 1), after |-> PolicyAt(r)]'
    <3>1. trail'[r] = trail[r]
      BY <1>1, <1>5, <1>7, <2>1
    <3>2. trail[r] = [before |-> PolicyAt(r - 1), after |-> PolicyAt(r)]
      BY <2>1, <1>7 DEF Inv, AuditIsTheHistory
    <3>3. r - 1 \in 0 .. n /\ r \in 0 .. n
      BY <1>1
    <3> QED BY <3>1, <3>2, <3>3, <2>2
  <2>4. ASSUME NEW r \in {n + 1}
        PROVE  trail'[r] = [before |-> PolicyAt(r - 1), after |-> PolicyAt(r)]'
    <3>1. trail'[r] = Revised(s)
      BY <1>1, <1>5, <1>7, <2>1
    <3>2. Revised(s).before = PolicyAt(r - 1)
      BY <1>1 DEF Revised, Current
    <3>3. r - 1 \in 0 .. n /\ r \in Nat
      BY <1>1
    <3>4. PolicyAt(r - 1)' = PolicyAt(r - 1)
      BY <3>3, <2>2
    <3>5. PolicyAt(r)' = Inserted(s)
      BY <3>3, <2>2, <1>3
    <3> QED BY <3>1, <3>2, <3>4, <3>5 DEF Revised
  <2>5. DOMAIN trail' = 1 .. n \cup {n + 1}
    BY <1>1, <1>5, <1>7, <2>1
  <2> QED BY <2>1, <2>3, <2>4, <2>5 DEF AuditIsTheHistory
<1> QED BY <1>8, <1>10, <1>11, <1>12 DEF Inv

\* Alerts.
LEMMA RaiseInv ==
  ASSUME Inv, NEW a \in Alerts, NEW v \in Severities, NEW t \in Times, Raise(a, v, t)
  PROVE  Inv'
<1> DEFINE row == [severity |-> v, status |-> "triggered", triggered |-> t, explained |-> FALSE]
<1>1. row \in AlertRow
  BY DEF AlertRow, Statuses
<1>2. /\ alerts[a] = None /\ alerts' = [alerts EXCEPT ![a] = row]
      /\ UNCHANGED <<policies, trail, clock, lock, tx>>
  BY DEF Raise
<1> HIDE DEF row
<1>3. TypeOK'
  BY <1>1, <1>2 DEF Inv, TypeOK
<1>4. HoldsTenant' /\ ReadIsCurrent'
  BY <1>2 DEF Inv, HoldsTenant, ReadIsCurrent, Current, PolicyAt
<1>5. EditsExist'
  <2>1. \A b \in Alerts \ {a} : alerts'[b] = alerts[b]
    BY <1>2 DEF Inv, TypeOK
  <2>2. \A s \in Requests : tx[s].pc = "editing" => tx[s].alert \in Alerts
    BY KindOfRequest DEF Inv, TypeOK, Editing
  <2> QED BY <1>2, <2>1, <2>2 DEF Inv, EditsExist
<1>6. SavesNeverCollide' /\ AuditIsTheHistory'
  BY <1>2 DEF Inv, SavesNeverCollide, AuditIsTheHistory, PolicyAt
<1> QED BY <1>3, <1>4, <1>5, <1>6 DEF Inv

LEMMA ReadAlertInv ==
  ASSUME Inv, NEW s \in Requests, NEW a \in Alerts, NEW c \in Change, ReadAlert(s, a, c)
  PROVE  Inv'
<1> DEFINE t == [pc |-> "editing", alert |-> a, change |-> c]
<1>1. alerts[a] \in AlertRow
  BY DEF Inv, TypeOK, ReadAlert
<1>2. t \in Request /\ t # Failed /\ t.pc = "editing" /\ t.alert = a
  BY <1>1 DEF Request, Editing, Failed
<1>3. /\ tx' = [tx EXCEPT ![s] = t] /\ alerts[a] # None
      /\ UNCHANGED <<policies, trail, alerts, clock, lock>>
  BY DEF ReadAlert, Goto
<1> HIDE DEF t
<1> QED BY <1>2, <1>3, PolicyUntouched DEF Inv, TypeOK

LEMMA WriteAlertInv ==
  ASSUME Inv, NEW s \in Requests, WriteAlert(s)
  PROVE  Inv'
<1> DEFINE a == tx[s].alert
<1>1. tx[s] \in Editing
  BY KindOfRequest DEF Inv, TypeOK, WriteAlert
<1>2. a \in Alerts /\ tx[s].change \in Change
  BY <1>1 DEF Editing
<1>3. alerts[a] \in AlertRow
  BY <1>2 DEF Inv, TypeOK, EditsExist, WriteAlert
<1>4. tx[s].change.status # "null" => Edited(s) \in AlertRow
  <2> DEFINE st == IF tx[s].change.status = "unset" THEN alerts[a].status
                   ELSE tx[s].change.status
             ex == IF tx[s].change.note = "unset" THEN alerts[a].explained
                   ELSE tx[s].change.note = "written"
  <2>1. \A row \in AlertRow, u \in Statuses, x \in BOOLEAN :
          [row EXCEPT !.status = u, !.explained = x] \in AlertRow
    BY DEF AlertRow
  <2>2. tx[s].change.status # "null" => st \in Statuses
    BY <1>2, <1>3 DEF Change, AlertRow
  <2>3. ex \in BOOLEAN
    BY <1>3 DEF AlertRow
  <2>4. Edited(s) = [alerts[a] EXCEPT !.status = st, !.explained = ex]
    BY DEF Edited
  <2> HIDE DEF st, ex, a
  <2>5. tx[s].change.status # "null" => [alerts[a] EXCEPT !.status = st, !.explained = ex] \in AlertRow
    BY <1>3, <2>1, <2>2, <2>3, Zenon
  <2> QED BY <2>4, <2>5
<1>5. None \notin AlertRow
  BY NoneIsNull
<1>6. Idle \in Request /\ Idle # Failed /\ Idle.pc = "idle"
  BY DEF Request, Idle, Failed
<1>7. /\ tx' = [tx EXCEPT ![s] = Idle]
      /\ \/ alerts' = alerts
         \/ tx[s].change.status # "null" /\ alerts' = [alerts EXCEPT ![a] = Edited(s)]
      /\ UNCHANGED <<policies, trail, clock, lock>>
  BY DEF WriteAlert, Goto
<1>8. /\ alerts' \in [Alerts -> AlertRow \cup {None}]
      /\ \A b \in Alerts : alerts[b] # None => alerts'[b] # None
  BY <1>2, <1>4, <1>5, <1>7 DEF Inv, TypeOK
<1> HIDE DEF a
<1> QED BY <1>6, <1>7, <1>8, PolicyUntouched DEF Inv, TypeOK

\* The queue.
LEMMA ReadRulesInv ==
  ASSUME Inv, NEW s \in Requests, NEW f \in Filter, ReadRules(s, f)
  PROVE  Inv'
<1> DEFINE t == [pc |-> "rules", now |-> clock, rules |-> Current, filter |-> f]
<1>1. Current \in Policy /\ clock \in Times
  BY CurrentTyped DEF Inv, TypeOK
<1>2. t \in Request /\ t # Failed /\ t.pc = "rules"
  BY <1>1 DEF Request, Listing, Failed
<1>3. tx' = [tx EXCEPT ![s] = t] /\ UNCHANGED <<policies, trail, alerts, clock, lock>>
  BY DEF ReadRules, Goto
<1> HIDE DEF t
<1> QED BY <1>2, <1>3, PolicyUntouched DEF Inv, TypeOK

LEMMA CountInv ==
  ASSUME Inv, NEW s \in Requests, Count(s)
  PROVE  Inv'
<1> DEFINE t == [tx[s] EXCEPT !.pc = "counted"]
<1>1. tx[s] \in Listing
  BY KindOfRequest DEF Inv, TypeOK, Count
<1>2. t \in Listing /\ t.pc = "counted"
  BY <1>1 DEF Listing
<1>3. t \in Request /\ t # Failed
  BY <1>2 DEF Request, Failed
<1>4. tx' = [tx EXCEPT ![s] = t] /\ UNCHANGED <<policies, trail, alerts, clock, lock>>
  BY DEF Count, Goto
<1> HIDE DEF t
<1> QED BY <1>2, <1>3, <1>4, PolicyUntouched DEF Inv, TypeOK

LEMMA SelectInv ==
  ASSUME Inv, NEW s \in Requests, Select(s)
  PROVE  Inv'
<1> DEFINE t == [pc |-> "listed", items |-> {ItemOf(a, tx[s]) : a \in Matching(s)}]
<1>1. \A a \in Alerts : ItemOf(a, tx[s]) \in Item
  BY DEF ItemOf, Item, AcknowledgementOverdue, ResponseOverdue
<1>2. t.items \subseteq Item
  BY <1>1 DEF Matching
<1>3. t \in Request /\ t # Failed /\ t.pc = "listed"
  BY <1>2 DEF Request, Listed, Failed
<1>4. tx' = [tx EXCEPT ![s] = t] /\ UNCHANGED <<policies, trail, alerts, clock, lock>>
  BY DEF Select, Goto
<1> HIDE DEF t
<1> QED BY <1>3, <1>4, PolicyUntouched DEF Inv, TypeOK

\* A request that ends without a commit.
LEMMA EndInv ==
  ASSUME Inv, NEW s \in Requests, tx' = [tx EXCEPT ![s] = Idle],
         lock' \in {None, lock}, lock \in Requests \ {s} => lock' = lock,
         UNCHANGED <<policies, trail, alerts, clock>>
  PROVE  Inv'
<1>1. Idle \in Request /\ Idle # Failed /\ Idle.pc = "idle"
  BY DEF Request, Idle, Failed
<1>2. lock' \in Requests \cup {None} /\ \A u \in Requests \ {s} : lock = u => lock' = u
  BY DEF Inv, TypeOK
<1> QED BY <1>1, <1>2, PolicyUntouched DEF Inv, TypeOK

LEMMA RequestInv ==
  ASSUME Inv, NEW s \in Requests, Revise(s) \/ Edit(s) \/ List(s) \/ Close(s)
  PROVE  Inv'
<1>1. CASE Revise(s)
  BY <1>1, RequestSaveInv, LockTenantInv, RefuseInv, CheckRevisionInv, SaveInv DEF Revise
<1>2. CASE Edit(s)
  BY <1>2, ReadAlertInv, WriteAlertInv DEF Edit
<1>3. CASE List(s)
  <2>1. CASE RefuseExport(s)
    BY <2>1, EndInv DEF RefuseExport, Goto
  <2> QED BY <1>3, <2>1, ReadRulesInv, CountInv, SelectInv DEF List
<1>4. CASE Close(s)
  BY <1>4, EndInv DEF Close, Goto
<1> QED BY <1>1, <1>2, <1>3, <1>4

LEMMA NextInv == Inv /\ [Next]_vars => Inv'
<1> SUFFICES ASSUME Inv, [Next]_vars PROVE Inv'
  OBVIOUS
<1>1. CASE UNCHANGED vars
  BY <1>1 DEF vars, Inv, TypeOK, HoldsTenant, ReadIsCurrent, EditsExist, SavesNeverCollide,
              AuditIsTheHistory, Current, PolicyAt
<1>2. CASE Tick
  <2>1. clock' \in Times
    BY <1>2, Bounds DEF Tick, Inv, TypeOK, Times
  <2> QED BY <1>2, <2>1 DEF Tick, Inv, TypeOK, HoldsTenant, ReadIsCurrent, EditsExist,
              SavesNeverCollide, AuditIsTheHistory, Current, PolicyAt
<1>3. CASE \E a \in Alerts, v \in Severities, t \in Times : Raise(a, v, t)
  BY <1>3, RaiseInv
<1>4. CASE \E s \in Requests : Revise(s) \/ Edit(s) \/ List(s) \/ Close(s)
  BY <1>4, RequestInv
<1> QED BY <1>1, <1>2, <1>3, <1>4 DEF Next

LEMMA InvAlways == Spec => []Inv
BY InitInv, NextInv, PTL DEF Spec

-----------------------------------------------------------------------------
(* Theorems.                                                               *)

\* Every variable of the incident model keeps its type (app/incidents and
\* app/alert), for any schedules and any number of requests.
THEOREM DeskTypeCorrect == Spec => []TypeOK
BY InvAlways, PTL DEF Inv

\* Every policy revision has its audit event, whose "before" is the revision
\* it replaced (save_policy, record_event).
THEOREM EveryRevisionIsAudited == Spec => []AuditIsTheHistory
BY InvAlways, PTL DEF Inv

\* The tenant row's lock keeps every save off the unique constraint.
THEOREM SavesDoNotFail == Spec => []SavesNeverCollide
BY InvAlways, PTL DEF Inv

LEMMA InitialLog == Init => Promise!Init
BY DEF Init, Promise!Init

LEMMA StepOfLog ==
  ASSUME Inv, [Next]_vars
  PROVE  [Promise!Revise]_policies
<1>1. ASSUME NEW s \in Requests, Save(s)
      PROVE  Promise!Revise
  <2>1. tx[s] \in Inserting
    BY <1>1, SaveEffect
  <2>2. tx[s].deadlines \in Schedules
    BY <2>1 DEF Inserting
  <2> QED BY <1>1, <2>2, SaveEffect DEF Promise!Revise
<1>2. ASSUME NEW s \in Requests, Revise(s), ~Save(s)
      PROVE  UNCHANGED policies
  BY <1>2 DEF Revise, RequestSave, LockTenant, Refuse, CheckRevision
<1>3. ASSUME NEW s \in Requests, Edit(s) \/ List(s) \/ Close(s)
      PROVE  UNCHANGED policies
  BY <1>3 DEF Edit, ReadAlert, WriteAlert, List, ReadRules, Count, RefuseExport, Select, Close
<1>4. ASSUME Tick \/ UNCHANGED vars
             \/ \E a \in Alerts, v \in Severities, t \in Times : Raise(a, v, t)
      PROVE  UNCHANGED policies
  BY <1>4 DEF Tick, vars, Raise
<1> QED BY <1>1, <1>2, <1>3, <1>4 DEF Next

\* save_policy implements the log of informed revisions: no administrator
\* ever replaces a revision that he or she had not seen.
THEOREM PolicyIsALog == Spec => ImplementsPolicyLog
<1>1. Inv /\ [Next]_vars => [Promise!Revise]_policies
  BY StepOfLog
<1> QED BY <1>1, InvAlways, InitialLog, PTL DEF Spec, ImplementsPolicyLog, Promise!Spec
\* What OverdueListIsExact says of one request's step.
ListsExactly(s) ==
  tx[s].pc = "counted" /\ Select(s) /\ tx[s].filter.overdue =>
    {i.alert : i \in {j \in tx'[s].items : j.acknowledgement_overdue \/ j.response_overdue}}
      = {a \in Alerts :
          /\ alerts[a] # None
          /\ tx[s].filter.severity \in {None, alerts[a].severity}
          /\ \/ AcknowledgementOverdue(alerts[a], tx[s].rules, tx[s].now)
             \/ ResponseOverdue(alerts[a], tx[s].rules, tx[s].now)}

LEMMA SelectIsExact ==
  ASSUME Inv, NEW s \in Requests
  PROVE  ListsExactly(s)
<1> SUFFICES ASSUME tx[s].pc = "counted", Select(s), tx[s].filter.overdue
             PROVE  {i.alert : i \in {j \in tx'[s].items : j.acknowledgement_overdue
                                                             \/ j.response_overdue}}
                      = {a \in Alerts :
                          /\ alerts[a] # None
                          /\ tx[s].filter.severity \in {None, alerts[a].severity}
                          /\ \/ AcknowledgementOverdue(alerts[a], tx[s].rules, tx[s].now)
                             \/ ResponseOverdue(alerts[a], tx[s].rules, tx[s].now)}
  BY DEF ListsExactly
<1> DEFINE t == tx[s]
           late(a) == \/ AcknowledgementOverdue(alerts[a], t.rules, t.now)
                      \/ ResponseOverdue(alerts[a], t.rules, t.now)
<1>1. t \in Listing
  BY KindOfRequest DEF Inv, TypeOK
<1>2. t.rules \in Policy /\ t.now \in Times
  BY <1>1 DEF Listing
<1>3. ASSUME NEW a \in Alerts, alerts[a] # None
      PROVE  Breached(alerts[a], t.rules, t.now) <=> late(a)
  <2>1. alerts[a] \in AlertRow
    BY <1>3 DEF Inv, TypeOK
  <2> QED BY <2>1, <1>2, FilterMatchesFlags
<1>4. tx'[s].items = {ItemOf(a, t) : a \in Matching(s)}
  <2>1. tx'[s] = [pc |-> "listed", items |-> {ItemOf(a, tx[s]) : a \in Matching(s)}]
    BY DEF Select, Goto, Inv, TypeOK
  <2> QED BY <2>1
<1>5. \A a \in Alerts : /\ ItemOf(a, t).alert = a
                        /\ ItemOf(a, t).acknowledgement_overdue \/ ItemOf(a, t).response_overdue
                             <=> late(a)
  BY DEF ItemOf
<1>6. \A a \in Alerts : a \in Matching(s) <=>
        /\ alerts[a] # None
        /\ t.filter.severity \in {None, alerts[a].severity}
        /\ late(a)
  BY <1>3 DEF Matching, Matches
<1>7. Matching(s) \subseteq Alerts
  BY DEF Matching
<1> HIDE DEF late, t
<1>8. {i.alert : i \in {j \in tx'[s].items : j.acknowledgement_overdue \/ j.response_overdue}}
        = Matching(s)
  BY <1>4, <1>5, <1>6, <1>7
<1>9. Matching(s) = {a \in Alerts : /\ alerts[a] # None
                                    /\ t.filter.severity \in {None, alerts[a].severity}
                                    /\ late(a)}
  BY <1>6, <1>7
<1> QED BY <1>8, <1>9 DEF late, t

\* The overdue list is exact: the filter of the statement and the flags of the
\* answer agree, for any deadlines and whatever the other requests do.
THEOREM OverdueListNeverLies == Spec => OverdueListIsExact
<1>1. Inv => \A s \in Requests : ListsExactly(s)
  BY SelectIsExact
<1>2. Inv /\ [Next]_vars => [\A s \in Requests : ListsExactly(s)]_vars
  BY <1>1
<1>3. Spec => [][\A s \in Requests : ListsExactly(s)]_vars
  BY <1>2, InvAlways, PTL DEF Spec
<1> QED BY <1>3, PTL DEF OverdueListIsExact, ListsExactly
=============================================================================
