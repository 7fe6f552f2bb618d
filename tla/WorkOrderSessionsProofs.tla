---------------------- MODULE WorkOrderSessionsProofs ----------------------
(***************************************************************************)
(* Theorems about WorkOrderSessions, for every set of orders, users,       *)
(* sessions and payload values and without the bound MaxEvents mattering.  *)
(***************************************************************************)
EXTENDS WorkOrderSessions, TLAPS

-----------------------------------------------------------------------------
(* What the row operators return.                                          *)

LEMMA NoRowTyped == NoRow \in Row
BY DEF NoRow, Row, Never, Statuses

LEMMA SnapshotTyped == ASSUME NEW r \in Row PROVE Snapshot(r) \in Evidence
BY DEF Snapshot, Row, Evidence

LEMMA NewRowTyped ==
  ASSUME NEW owner \in Staff \cup {None} PROVE NewRow(owner) \in Row
BY NoRowTyped DEF NewRow, Row, Statuses

LEMMA FollowUpRowTyped == ASSUME NEW o \in Orders PROVE FollowUpRow(o) \in Row
BY NoRowTyped DEF FollowUpRow, Row, Statuses

\* One column at a time: the provers do not see through larger EXCEPTs.
LEMMA ColumnTyped ==
  ASSUME NEW r \in Row
  PROVE  /\ \A x \in Statuses \cup {"absent"} : [r EXCEPT !.status = x] \in Row
         /\ \A x \in Staff \cup {None} : [r EXCEPT !.assigned_to = x] \in Row
         /\ \A x \in Nat : [r EXCEPT !.closed_at = x] \in Row
         /\ \A x \in BOOLEAN : [r EXCEPT !.follow_up_required = x] \in Row
         /\ \A x \in Nat : [r EXCEPT !.verified_at = x] \in Row
         /\ \A x \in Users \cup {None} : [r EXCEPT !.verified_by = x] \in Row
         /\ \A x \in Results \cup {None} : [r EXCEPT !.verification_result = x] \in Row
<1>1. \A x \in Statuses \cup {"absent"} : [r EXCEPT !.status = x] \in Row
  BY DEF Row
<1>2. \A x \in Staff \cup {None} : [r EXCEPT !.assigned_to = x] \in Row
  BY DEF Row
<1>3. \A x \in Nat : [r EXCEPT !.closed_at = x] \in Row
  BY DEF Row
<1>4. \A x \in BOOLEAN : [r EXCEPT !.follow_up_required = x] \in Row
  BY DEF Row
<1>5. \A x \in Nat : [r EXCEPT !.verified_at = x] \in Row
  BY DEF Row
<1>6. \A x \in Users \cup {None} : [r EXCEPT !.verified_by = x] \in Row
  BY DEF Row
<1>7. \A x \in Results \cup {None} : [r EXCEPT !.verification_result = x] \in Row
  BY DEF Row
<1>8. QED
  BY <1>1, <1>2, <1>3, <1>4, <1>5, <1>6, <1>7

LEMMA UpdatedRowTyped ==
  ASSUME NEW r \in Row, NEW p \in UpdatePayloads, NEW now \in Nat,
         UpdateAllowed(r, p)
  PROVE  UpdatedRow(r, p, now) \in Row
<1> DEFINE status == Unless(p.status, r.status)
           owner == Unless(p.assigned_to, r.assigned_to)
           closed == IF p.status = "cancelled" /\ r.closed_at = Never THEN now
                     ELSE IF p.status \in Active THEN Never ELSE r.closed_at
<1>1. status \in Statuses \cup {"absent"}
  BY DEF UpdateAllowed, UpdatePayloads, Unless, Row
<1>2. owner \in Staff \cup {None}
  BY DEF UpdatePayloads, Unless, Row
<1>3. closed \in Nat
  BY DEF Never, Row
<1>4. UpdatedRow(r, p, now) =
        [r EXCEPT !.status = status, !.assigned_to = owner, !.closed_at = closed]
  BY DEF UpdatedRow
<1> HIDE DEF status, owner, closed
<1>5. [r EXCEPT !.status = status] \in Row
  BY <1>1, ColumnTyped
<1>6. [r EXCEPT !.status = status, !.assigned_to = owner] \in Row
  BY <1>2, <1>5, ColumnTyped
<1>7. QED
  BY <1>3, <1>4, <1>6, ColumnTyped

LEMMA CompletedRowTyped ==
  ASSUME NEW r \in Row, NEW u \in Users, NEW p \in OutcomePayloads, NEW now \in Nat
  PROVE  CompletedRow(r, u, p, now) \in Row
BY DEF CompletedRow, Completed, OutcomePayloads, Row, Never, Statuses

LEMMA VerifiedRowTyped ==
  ASSUME NEW r \in Row, NEW u \in Users, NEW v \in VerificationPayloads, NEW now \in Nat
  PROVE  VerifiedRow(r, u, v, now) \in Row
<1> DEFINE rework == r.follow_up_required \/ v.result = "failed"
<1>1. v.result \in Results /\ rework \in BOOLEAN
  BY DEF VerificationPayloads
<1>2. VerifiedRow(r, u, v, now) =
        [r EXCEPT !.verified_at = now, !.verified_by = u,
                  !.verification_result = v.result, !.follow_up_required = rework]
  BY DEF VerifiedRow
<1> HIDE DEF rework
<1>3. [r EXCEPT !.verified_at = now] \in Row
  BY ColumnTyped
<1>4. [r EXCEPT !.verified_at = now, !.verified_by = u] \in Row
  BY <1>3, ColumnTyped
<1>5. [r EXCEPT !.verified_at = now, !.verified_by = u,
                !.verification_result = v.result] \in Row
  BY <1>1, <1>4, ColumnTyped
<1>6. QED
  BY <1>1, <1>2, <1>5, ColumnTyped

LEMMA PlainEventTyped ==
  ASSUME NEW a \in {"created", "updated", "follow_up_created"}
  PROVE  PlainEvent(a) \in Event
BY NoRowTyped, SnapshotTyped DEF PlainEvent, Event

LEMMA EvidenceEventTyped ==
  ASSUME NEW a \in EvidenceActions, NEW u \in Users, NEW r1 \in Row, NEW r2 \in Row,
         NEW reason \in BOOLEAN
  PROVE  EvidenceEvent(a, u, r1, r2, reason) \in Event
BY SnapshotTyped DEF EvidenceEvent, Event

LEMMA StoreTyped ==
  ASSUME TableTypeOK, NEW o \in Orders, NEW r \in Row, NEW e \in Event, Store(o, r, e)
  PROVE  TableTypeOK'
BY DEF TableTypeOK, Store

LEMMA NowTyped == ASSUME TableTypeOK, NEW o \in Orders PROVE Now(o) \in Nat
BY DEF TableTypeOK, Now

\* Ending a transaction keeps the session variables typed.
LEMMA EndTyped ==
  ASSUME TypeOK, NEW s \in Sessions, tx[s].pc \in Holding, End(s)
  PROVE  /\ tx' \in [Sessions -> Transaction]
         /\ \A t \in Sessions : tx'[t].pc # "idle" => tx'[t].order \in Orders
         /\ lock' \in [Orders -> Sessions \cup {None}]
         /\ assignable' \subseteq Staff
<1>1. Idle \in Transaction /\ Idle.pc = "idle"
  BY NoRowTyped DEF Idle, Transaction
<1>2. tx' = [tx EXCEPT ![s] = Idle]
  BY DEF End
<1>3. tx' \in [Sessions -> Transaction]
  BY <1>1, <1>2 DEF TypeOK
<1>4. \A t \in Sessions : tx'[t].pc # "idle" => tx'[t].order \in Orders
  BY <1>1, <1>2 DEF TypeOK
<1>5. lock' \in [Orders -> Sessions \cup {None}] /\ assignable' \subseteq Staff
  BY DEF TypeOK, End, Unlocked
<1>6. QED
  BY <1>3, <1>4, <1>5

LEMMA CommitTyped ==
  ASSUME TypeOK, NEW s \in Sessions, tx[s].pc \in Holding,
         NEW r \in Row, NEW e \in Event, Commit(s, r, e)
  PROVE  TypeOK'
<1>1. tx[s].order \in Orders
  BY DEF TypeOK, Holding
<1>2. Store(tx[s].order, r, e) /\ End(s)
  BY DEF Commit
<1>3. TableTypeOK'
  BY <1>1, <1>2, StoreTyped DEF TypeOK
<1>4. QED
  BY <1>2, <1>3, EndTyped DEF TypeOK

\* What a session past its select holds is typed.
LEMMA HeldTyped ==
  ASSUME TypeOK, NEW s \in Sessions, tx[s].pc \in Holding
  PROVE  tx[s].order \in Orders /\ tx[s].row \in Row /\ Now(tx[s].order) \in Nat
BY NowTyped DEF TypeOK, Holding, Transaction

LEMMA TypeInit == Init => TypeOK
<1> SUFFICES ASSUME Init PROVE TypeOK
  OBVIOUS
<1>1. Idle \in Transaction /\ Idle.pc = "idle"
  BY NoRowTyped DEF Idle, Transaction
<1>2. TableTypeOK
  BY NoRowTyped DEF Init, TableInit, TableTypeOK
<1>3. QED
  BY <1>1, <1>2 DEF Init, TypeOK

LEMMA TypeStep == TypeOK /\ [Next]_vars => TypeOK'
<1> SUFFICES ASSUME TypeOK, [Next]_vars PROVE TypeOK'
  OBVIOUS
<1>1. ASSUME NEW o \in Orders, Create(o) PROVE TypeOK'
  <2>1. PICK owner \in Staff \cup {None} :
          Store(o, NewRow(owner), PlainEvent("created"))
    BY <1>1 DEF Create
  <2>2. TableTypeOK'
    BY <2>1, NewRowTyped, PlainEventTyped, StoreTyped DEF TypeOK
  <2>3. QED
    BY <1>1, <2>2 DEF Create, TypeOK
<1>2. ASSUME NEW s \in Sessions, NEW o \in Orders, Submit(s, o) PROVE TypeOK'
  <2>1. [tx[s] EXCEPT !.pc = "waiting", !.order = o] \in Transaction
    BY DEF TypeOK, Transaction
  <2>2. tx' = [tx EXCEPT ![s] = [tx[s] EXCEPT !.pc = "waiting", !.order = o]]
    BY <1>2 DEF Submit, TypeOK
  <2>3. [tx[s] EXCEPT !.pc = "waiting", !.order = o].order = o
    BY DEF TypeOK, Transaction
  <2>4. tx' \in [Sessions -> Transaction]
    BY <2>1, <2>2 DEF TypeOK
  <2>5. \A t \in Sessions : tx'[t].pc # "idle" => tx'[t].order \in Orders
    BY <2>2, <2>3 DEF TypeOK
  <2>6. QED
    BY <1>2, <2>4, <2>5 DEF Submit, TypeOK, TableTypeOK
<1>3. ASSUME NEW s \in Sessions, Acquire(s) PROVE TypeOK'
  <2>1. tx[s].order \in Orders
    BY <1>3 DEF Acquire, TypeOK
  <2>2. [tx[s] EXCEPT !.pc = "locked", !.row = wo[tx[s].order]] \in Transaction
    BY <2>1 DEF TypeOK, Transaction, TableTypeOK
  <2>3. tx' = [tx EXCEPT ![s] = [tx[s] EXCEPT !.pc = "locked", !.row = wo[tx[s].order]]]
    BY <1>3 DEF Acquire, TypeOK
  <2>4. [tx[s] EXCEPT !.pc = "locked", !.row = wo[tx[s].order]].order = tx[s].order
    BY DEF TypeOK, Transaction
  <2>5. tx' \in [Sessions -> Transaction]
    BY <2>2, <2>3 DEF TypeOK
  <2>6. \A t \in Sessions : tx'[t].pc # "idle" => tx'[t].order \in Orders
    BY <2>1, <2>3, <2>4 DEF TypeOK
  <2>7. lock' \in [Orders -> Sessions \cup {None}]
    BY <1>3, <2>1 DEF Acquire, TypeOK
  <2>8. QED
    BY <1>3, <2>5, <2>6, <2>7 DEF Acquire, TypeOK, TableTypeOK
<1>4. ASSUME NEW s \in Sessions, NotFound(s) PROVE TypeOK'
  <2>1. Idle \in Transaction /\ Idle.pc = "idle"
    BY NoRowTyped DEF Idle, Transaction
  <2>2. tx' = [tx EXCEPT ![s] = Idle]
    BY <1>4 DEF NotFound
  <2>3. QED
    BY <1>4, <2>1, <2>2 DEF NotFound, TypeOK, TableTypeOK
<1>5. ASSUME NEW s \in Sessions, CheckOwner(s) PROVE TypeOK'
  <2>1. PICK owner \in assignable :
          tx' = [tx EXCEPT ![s].pc = "owner_checked", ![s].owner = owner]
    BY <1>5 DEF CheckOwner
  <2>2. [tx[s] EXCEPT !.pc = "owner_checked", !.owner = owner] \in Transaction
    BY <2>1 DEF TypeOK, Transaction
  <2>3. tx' = [tx EXCEPT ![s] = [tx[s] EXCEPT !.pc = "owner_checked", !.owner = owner]]
    BY <2>1 DEF TypeOK
  <2>4. [tx[s] EXCEPT !.pc = "owner_checked", !.owner = owner].order = tx[s].order
    BY DEF TypeOK, Transaction
  <2>5. tx' \in [Sessions -> Transaction]
    BY <2>2, <2>3 DEF TypeOK
  <2>6. \A t \in Sessions : tx'[t].pc # "idle" => tx'[t].order \in Orders
    BY <1>5, <2>3, <2>4 DEF TypeOK, CheckOwner
  <2>7. QED
    BY <1>5, <2>5, <2>6 DEF CheckOwner, TypeOK, TableTypeOK
<1>6. ASSUME NEW s \in Sessions, Update(s) PROVE TypeOK'
  <2>1. PICK p \in UpdatePayloads :
          /\ tx[s].pc \in Holding
          /\ UpdateAllowed(tx[s].row, p)
          /\ Commit(s, UpdatedRow(tx[s].row, p, Now(tx[s].order)), PlainEvent("updated"))
    BY <1>6 DEF Update, Holding
  <2>2. QED
    BY <2>1, HeldTyped, UpdatedRowTyped, PlainEventTyped, CommitTyped
<1>7. ASSUME NEW s \in Sessions, RecordOutcome(s) PROVE TypeOK'
  <2> DEFINE new(u, p) == CompletedRow(tx[s].row, u, p, Now(tx[s].order))
  <2>1. PICK u \in Users, p \in OutcomePayloads :
          Commit(s, new(u, p), EvidenceEvent("outcome_recorded", u, tx[s].row, new(u, p), p.reason))
    BY <1>7 DEF RecordOutcome
  <2>2. tx[s].pc \in Holding
    BY <1>7 DEF RecordOutcome, Holding
  <2>3. new(u, p) \in Row
    BY <2>2, HeldTyped, CompletedRowTyped
  <2>4. EvidenceEvent("outcome_recorded", u, tx[s].row, new(u, p), p.reason) \in Event
    <3>1. p.reason \in BOOLEAN /\ "outcome_recorded" \in EvidenceActions
      BY DEF OutcomePayloads, EvidenceActions
    <3> HIDE DEF new
    <3>2. QED
      BY <2>2, <2>3, <3>1, HeldTyped, EvidenceEventTyped
  <2> HIDE DEF new
  <2>5. QED
    BY <2>1, <2>2, <2>3, <2>4, CommitTyped
<1>8. ASSUME NEW s \in Sessions, Verify(s) PROVE TypeOK'
  <2> DEFINE new(u, v) == VerifiedRow(tx[s].row, u, v, Now(tx[s].order))
  <2>1. PICK u \in Users, v \in VerificationPayloads :
          Commit(s, new(u, v), EvidenceEvent("repair_verified", u, tx[s].row, new(u, v), v.reason))
    BY <1>8 DEF Verify
  <2>2. tx[s].pc \in Holding
    BY <1>8 DEF Verify, Holding
  <2>3. new(u, v) \in Row
    BY <2>2, HeldTyped, VerifiedRowTyped
  <2>4. EvidenceEvent("repair_verified", u, tx[s].row, new(u, v), v.reason) \in Event
    <3>1. v.reason \in BOOLEAN /\ "repair_verified" \in EvidenceActions
      BY DEF VerificationPayloads, EvidenceActions
    <3> HIDE DEF new
    <3>2. QED
      BY <2>2, <2>3, <3>1, HeldTyped, EvidenceEventTyped
  <2> HIDE DEF new
  <2>5. QED
    BY <2>1, <2>2, <2>3, <2>4, CommitTyped
<1>9. ASSUME NEW s \in Sessions, FindNoOpenFollowUp(s) PROVE TypeOK'
  <2>1. [tx[s] EXCEPT !.pc = "no_open_child"] \in Transaction
    BY DEF TypeOK, Transaction
  <2>2. tx' = [tx EXCEPT ![s] = [tx[s] EXCEPT !.pc = "no_open_child"]]
    BY <1>9 DEF FindNoOpenFollowUp, TypeOK
  <2>3. [tx[s] EXCEPT !.pc = "no_open_child"].order = tx[s].order
    BY DEF TypeOK, Transaction
  <2>4. tx' \in [Sessions -> Transaction]
    BY <2>1, <2>2 DEF TypeOK
  <2>5. \A t \in Sessions : tx'[t].pc # "idle" => tx'[t].order \in Orders
    BY <1>9, <2>2, <2>3 DEF TypeOK, FindNoOpenFollowUp
  <2>6. QED
    BY <1>9, <2>4, <2>5 DEF FindNoOpenFollowUp, TypeOK, TableTypeOK
<1>10. ASSUME NEW s \in Sessions, CreateFollowUp(s) PROVE TypeOK'
  <2>1. tx[s].pc \in Holding /\ End(s)
    BY <1>10 DEF CreateFollowUp, Holding
  <2>2. PICK c \in Orders :
          Store(c, FollowUpRow(tx[s].order), PlainEvent("follow_up_created"))
    BY <1>10 DEF CreateFollowUp
  <2>3. TableTypeOK'
    BY <2>1, <2>2, HeldTyped, FollowUpRowTyped, PlainEventTyped, StoreTyped DEF TypeOK
  <2>4. QED
    BY <2>1, <2>3, EndTyped DEF TypeOK
<1>11. ASSUME NEW s \in Sessions, Rollback(s) PROVE TypeOK'
  <2>1. TableTypeOK'
    BY <1>11 DEF Rollback, TypeOK, TableTypeOK
  <2>2. QED
    BY <1>11, <2>1, EndTyped DEF Rollback, TypeOK
<1>12. ASSUME NEW u \in Staff, ChangeUser(u) PROVE TypeOK'
  BY <1>12 DEF ChangeUser, TypeOK, TableTypeOK
<1>13. CASE UNCHANGED vars
  BY <1>13 DEF vars, TypeOK, TableTypeOK
<1>14. QED
  BY <1>1, <1>2, <1>3, <1>4, <1>5, <1>6, <1>7, <1>8, <1>9, <1>10, <1>11, <1>12, <1>13
  DEF Next, Proceed

\* The rows, the trail, the sessions and the locks hold values of their types
\* whatever the requests are and however they interleave.
THEOREM TypeCorrect == Spec => []TypeOK
BY TypeInit, TypeStep, PTL DEF Spec

-----------------------------------------------------------------------------
(* What a request has read stays true until it commits.                    *)

\* The columns that the operations leave or set, one fact per operation.
LEMMA UpdatedRowColumns ==
  ASSUME NEW r \in Row, NEW p \in UpdatePayloads, NEW now \in Nat,
         UpdateAllowed(r, p)
  PROVE  LET w == UpdatedRow(r, p, now) IN
         /\ w.status \in Active \cup {"cancelled"}
         /\ w.status = Unless(p.status, r.status) /\ w.parent = r.parent
         /\ w.closed_at = IF p.status = "cancelled" /\ r.closed_at = Never THEN now
                          ELSE IF p.status \in Active THEN Never ELSE r.closed_at
         /\ w.completed_by = r.completed_by /\ w.outcome = r.outcome
         /\ w.condition = r.condition /\ w.follow_up_required = r.follow_up_required
         /\ w.verified_at = r.verified_at
         /\ w.verification_result = r.verification_result
<1> DEFINE w == UpdatedRow(r, p, now)
<1>1. /\ w.status = Unless(p.status, r.status) /\ w.parent = r.parent
      /\ w.closed_at = IF p.status = "cancelled" /\ r.closed_at = Never THEN now
                       ELSE IF p.status \in Active THEN Never ELSE r.closed_at
      /\ w.completed_by = r.completed_by /\ w.outcome = r.outcome
  BY Zenon DEF UpdatedRow, Row
<1>2. /\ w.condition = r.condition /\ w.follow_up_required = r.follow_up_required
      /\ w.verified_at = r.verified_at
      /\ w.verification_result = r.verification_result
  BY Zenon DEF UpdatedRow, Row
<1>3. Unless(p.status, r.status) \in Active \cup {"cancelled"}
  BY DEF UpdateAllowed, UpdatePayloads, Unless, Active, Statuses
<1> HIDE DEF w
<1>4. QED
  BY <1>1, <1>2, <1>3 DEF w

LEMMA CompletedRowColumns ==
  ASSUME NEW r \in Row, NEW u \in Users, NEW p \in OutcomePayloads, NEW now \in Nat
  PROVE  LET w == CompletedRow(r, u, p, now) IN
         /\ w.status = "completed" /\ w.parent = r.parent
         /\ w.closed_at = IF r.status = "completed" THEN r.closed_at ELSE now
         /\ w.completed_by = IF r.status = "completed" THEN r.completed_by ELSE u
         /\ w.outcome = p.outcome /\ w.outcome # None
         /\ w.verified_at = Never /\ w.verification_result = None
BY NullsAreDistinct DEF CompletedRow, Completed, OutcomePayloads

LEMMA VerifiedRowColumns ==
  ASSUME NEW r \in Row, NEW u \in Users, NEW v \in VerificationPayloads, NEW now \in Nat
  PROVE  LET w == VerifiedRow(r, u, v, now) IN
         /\ w.status = r.status /\ w.parent = r.parent /\ w.closed_at = r.closed_at
         /\ w.completed_by = r.completed_by /\ w.outcome = r.outcome
         /\ w.condition = r.condition /\ w.verified_at = now
         /\ w.verification_result = v.result
         /\ w.follow_up_required = (r.follow_up_required \/ v.result = "failed")
<1> DEFINE w == VerifiedRow(r, u, v, now)
<1>1. /\ w.status = r.status /\ w.parent = r.parent /\ w.closed_at = r.closed_at
      /\ w.completed_by = r.completed_by /\ w.outcome = r.outcome
  BY Zenon DEF VerifiedRow, Row
<1>2. /\ w.condition = r.condition /\ w.verified_at = now
      /\ w.verification_result = v.result
      /\ w.follow_up_required = (r.follow_up_required \/ v.result = "failed")
  BY Zenon DEF VerifiedRow, Row
<1> HIDE DEF w
<1>3. QED
  BY <1>1, <1>2 DEF w

LEMMA FreshRowColumns ==
  ASSUME NEW owner \in Staff \cup {None}, NEW o \in Orders
  PROVE  /\ NewRow(owner).status = "open" /\ NewRow(owner).parent = None
         /\ FollowUpRow(o).status = "open" /\ FollowUpRow(o).parent = o
BY DEF NewRow, FollowUpRow, NoRow

\* A transaction that ends, having written its own row or a fresh one and
\* having opened no follow-up but its own, disturbs no other session.
LEMMA OthersUndisturbed ==
  ASSUME TypeOK, ReadsStayValid,
         NEW s \in Sessions, tx[s].pc \in Holding, End(s),
         NEW o \in Orders, NEW r \in Row, NEW e, Store(o, r, e),
         o = tx[s].order \/ wo[o].status = "absent",
         r.status \in Active /\ r.parent # None =>
           \/ r.parent = tx[s].order
           \/ wo[o].status \in Active /\ wo[o].parent = r.parent
  PROVE  ReadsStayValid'
<1> SUFFICES ASSUME NEW t \in Sessions, tx'[t].pc \in Holding
             PROVE  /\ lock'[tx'[t].order] = t
                    /\ tx'[t].row = wo'[tx'[t].order] /\ tx'[t].row.status # "absent"
                    /\ tx'[t].pc = "no_open_child" =>
                         /\ FollowUpAllowed(tx'[t].row)
                         /\ \A c \in Orders :
                           ~(wo'[c].parent = tx'[t].order /\ wo'[c].status \in Active)
  BY DEF ReadsStayValid, OpenFollowUps
<1> DEFINE q == tx[t].order
<1>1. tx' = [tx EXCEPT ![s] = Idle] /\ lock' = [lock EXCEPT ![tx[s].order] = None]
  BY DEF End, Unlocked
<1>2. t # s /\ tx'[t] = tx[t]
  BY <1>1 DEF Idle, Holding, TypeOK
<1>3. q \in Orders /\ tx[s].order \in Orders
  BY <1>2, HeldTyped
<1>4. lock[q] = t /\ lock[tx[s].order] = s
  BY <1>2 DEF ReadsStayValid
<1>5. q # tx[s].order /\ lock'[q] = t
  BY <1>1, <1>2, <1>3, <1>4 DEF TypeOK
<1>6. tx[t].row = wo[q] /\ tx[t].row.status # "absent"
  BY <1>2 DEF ReadsStayValid
<1>7. q # o
  BY <1>5, <1>6
<1>8. wo' = [wo EXCEPT ![o] = r]
  BY DEF Store
<1>9. wo'[q] = wo[q]
  BY <1>3, <1>7, <1>8 DEF TypeOK, TableTypeOK
<1>10. ASSUME tx[t].pc = "no_open_child",
              NEW c \in Orders, wo'[c].parent = q, wo'[c].status \in Active
       PROVE  FALSE
  <2>1. \A d \in Orders : ~(wo[d].parent = q /\ wo[d].status \in Active)
    BY <1>2, <1>10 DEF ReadsStayValid, OpenFollowUps
  <2>2. CASE c # o
    BY <2>1, <2>2, <1>10, <1>8 DEF TypeOK, TableTypeOK
  <2>3. CASE c = o
    <3>1. wo'[c] = r
      BY <2>3, <1>8 DEF TypeOK, TableTypeOK
    <3>2. r.parent = q /\ r.status \in Active /\ q # None
      BY <1>10, <3>1, <1>3, NullsAreDistinct
    <3>3. wo[o].status \in Active /\ wo[o].parent = q
      BY <3>2, <1>5
    <3>4. QED
      BY <3>3, <2>1
  <2>4. QED
    BY <2>2, <2>3
<1>11. tx[t].pc = "no_open_child" => FollowUpAllowed(tx[t].row)
  BY <1>2 DEF ReadsStayValid
<1>12. QED
  BY <1>2, <1>5, <1>6, <1>9, <1>10, <1>11

LEMMA ReadsInit == Init => ReadsStayValid
BY DEF Init, ReadsStayValid, Idle, Holding

LEMMA ReadsStep == TypeOK /\ ReadsStayValid /\ [Next]_vars => ReadsStayValid'
<1> SUFFICES ASSUME TypeOK, ReadsStayValid, [Next]_vars PROVE ReadsStayValid'
  OBVIOUS
<1>1. ASSUME NEW o \in Orders, Create(o) PROVE ReadsStayValid'
  <2>1. PICK owner \in Staff \cup {None} :
          /\ wo' = [wo EXCEPT ![o] = NewRow(owner)]
          /\ wo[o].status = "absent" /\ UNCHANGED <<tx, lock>>
    BY <1>1 DEF Create, Store
  <2>2. NewRow(owner).parent = None
    BY FreshRowColumns, <1>1
  <2>3. SUFFICES ASSUME NEW t \in Sessions, tx[t].pc \in Holding
                 PROVE  /\ wo'[tx[t].order] = wo[tx[t].order]
                        /\ \A c \in Orders : wo'[c].parent = tx[t].order => wo'[c] = wo[c]
    BY <2>1 DEF ReadsStayValid, OpenFollowUps
  <2>4. tx[t].order \in Orders /\ wo[tx[t].order].status # "absent"
    BY <2>3, HeldTyped DEF ReadsStayValid
  <2>5. \A c \in Orders : wo'[c].parent = tx[t].order => wo'[c] = wo[c]
    BY <2>1, <2>2, <2>4, NullsAreDistinct DEF TypeOK, TableTypeOK
  <2>6. QED
    BY <2>1, <2>4, <2>5 DEF TypeOK, TableTypeOK
<1>2. ASSUME NEW s \in Sessions, NEW o \in Orders, Submit(s, o) PROVE ReadsStayValid'
  <2>1. /\ \A t \in Sessions \ {s} : tx'[t] = tx[t]
        /\ tx'[s].pc = "waiting" /\ UNCHANGED <<wo, lock>>
    BY <1>2 DEF Submit, TypeOK, Transaction
  <2>2. QED
    BY <2>1 DEF ReadsStayValid, OpenFollowUps, Holding
<1>3. ASSUME NEW s \in Sessions, Acquire(s) PROVE ReadsStayValid'
  <2>1. /\ \A t \in Sessions \ {s} : tx'[t] = tx[t]
        /\ tx'[s].pc = "locked" /\ tx'[s].order = tx[s].order
        /\ tx'[s].row = wo[tx[s].order]
        /\ wo' = wo /\ wo[tx[s].order].status # "absent"
    BY <1>3 DEF Acquire, TypeOK, Transaction
  <2>2. tx[s].order \in Orders
    BY <1>3 DEF Acquire, TypeOK
  <2>3. /\ lock[tx[s].order] = None /\ lock'[tx[s].order] = s
        /\ \A o \in Orders \ {tx[s].order} : lock'[o] = lock[o]
    BY <1>3, <2>2 DEF Acquire, LockIsFree, TypeOK
  <2>4. \A t \in Sessions \ {s} : tx[t].pc \in Holding =>
          /\ tx[t].order \in Orders /\ tx[t].order # tx[s].order
          /\ lock'[tx[t].order] = lock[tx[t].order]
    BY <2>3, HeldTyped, SessionsAreNotNull DEF ReadsStayValid
  <2>5. QED
    BY <2>1, <2>3, <2>4 DEF ReadsStayValid, OpenFollowUps
<1>4. ASSUME NEW s \in Sessions, NotFound(s) PROVE ReadsStayValid'
  BY <1>4 DEF NotFound, ReadsStayValid, OpenFollowUps, Idle, Holding, TypeOK
<1>5. ASSUME NEW s \in Sessions, CheckOwner(s) PROVE ReadsStayValid'
  <2>1. PICK owner \in assignable :
          tx' = [tx EXCEPT ![s].pc = "owner_checked", ![s].owner = owner]
    BY <1>5 DEF CheckOwner
  <2>2. /\ \A t \in Sessions : tx'[t].order = tx[t].order /\ tx'[t].row = tx[t].row
        /\ \A t \in Sessions : tx'[t].pc \in Holding => tx[t].pc \in Holding
        /\ \A t \in Sessions : tx'[t].pc = "no_open_child" => tx[t].pc = "no_open_child"
        /\ UNCHANGED <<wo, lock>>
    BY <1>5, <2>1 DEF CheckOwner, TypeOK, Transaction, Holding
  <2>3. QED
    BY <2>2 DEF ReadsStayValid, OpenFollowUps
<1>6. ASSUME NEW s \in Sessions, Update(s) PROVE ReadsStayValid'
  <2>1. PICK p \in UpdatePayloads :
          /\ tx[s].pc \in Holding
          /\ UpdateAllowed(tx[s].row, p)
          /\ Commit(s, UpdatedRow(tx[s].row, p, Now(tx[s].order)), PlainEvent("updated"))
    BY <1>6 DEF Update, Holding
  <2> DEFINE r == UpdatedRow(tx[s].row, p, Now(tx[s].order))
  <2>2. r \in Row /\ r.parent = tx[s].row.parent /\ tx[s].row.status \in Active
    BY <2>1, HeldTyped, UpdatedRowTyped, UpdatedRowColumns DEF UpdateAllowed
  <2>3. tx[s].row = wo[tx[s].order] /\ tx[s].order \in Orders
    BY <2>1, HeldTyped DEF ReadsStayValid
  <2> HIDE DEF r
  <2>4. QED
    BY <2>1, <2>2, <2>3, OthersUndisturbed DEF Commit, r
<1>7. ASSUME NEW s \in Sessions, RecordOutcome(s) PROVE ReadsStayValid'
  <2> DEFINE new(u, p) == CompletedRow(tx[s].row, u, p, Now(tx[s].order))
  <2>1. PICK u \in Users, p \in OutcomePayloads :
          Commit(s, new(u, p), EvidenceEvent("outcome_recorded", u, tx[s].row, new(u, p), p.reason))
    BY <1>7 DEF RecordOutcome
  <2>2. tx[s].pc \in Holding
    BY <1>7 DEF RecordOutcome, Holding
  <2>3. new(u, p) \in Row /\ new(u, p).status \notin Active
    BY <2>2, HeldTyped, CompletedRowTyped, CompletedRowColumns DEF Active
  <2>4. tx[s].order \in Orders
    BY <2>2, HeldTyped
  <2> HIDE DEF new
  <2>5. QED
    BY <2>1, <2>2, <2>3, <2>4, OthersUndisturbed DEF Commit
<1>8. ASSUME NEW s \in Sessions, Verify(s) PROVE ReadsStayValid'
  <2> DEFINE new(u, v) == VerifiedRow(tx[s].row, u, v, Now(tx[s].order))
  <2>1. PICK u \in Users, v \in VerificationPayloads :
          /\ VerifyAllowed(tx[s].row, u, v)
          /\ Commit(s, new(u, v), EvidenceEvent("repair_verified", u, tx[s].row, new(u, v), v.reason))
    BY <1>8 DEF Verify
  <2>2. tx[s].pc \in Holding
    BY <1>8 DEF Verify, Holding
  <2>3. new(u, v) \in Row /\ new(u, v).status \notin Active
    BY <2>1, <2>2, HeldTyped, VerifiedRowTyped, VerifiedRowColumns DEF Active, VerifyAllowed
  <2>4. tx[s].order \in Orders
    BY <2>2, HeldTyped
  <2> HIDE DEF new
  <2>5. QED
    BY <2>1, <2>2, <2>3, <2>4, OthersUndisturbed DEF Commit
<1>9. ASSUME NEW s \in Sessions, FindNoOpenFollowUp(s) PROVE ReadsStayValid'
  <2>1. /\ \A t \in Sessions \ {s} : tx'[t] = tx[t]
        /\ tx'[s].order = tx[s].order /\ tx'[s].row = tx[s].row
        /\ tx[s].pc \in Holding /\ FollowUpAllowed(tx[s].row) /\ OpenFollowUps(tx[s].order) = {}
        /\ UNCHANGED <<wo, lock>>
    BY <1>9 DEF FindNoOpenFollowUp, TypeOK, Transaction, Holding
  <2>2. QED
    BY <2>1 DEF ReadsStayValid, OpenFollowUps
<1>10. ASSUME NEW s \in Sessions, CreateFollowUp(s) PROVE ReadsStayValid'
  <2>1. tx[s].pc \in Holding /\ End(s) /\ tx[s].order \in Orders
    BY <1>10, HeldTyped DEF CreateFollowUp, Holding
  <2>2. PICK c \in Orders :
          /\ wo[c].status = "absent"
          /\ Store(c, FollowUpRow(tx[s].order), PlainEvent("follow_up_created"))
    BY <1>10 DEF CreateFollowUp
  <2>3. FollowUpRow(tx[s].order) \in Row /\ FollowUpRow(tx[s].order).parent = tx[s].order
    BY <2>1, FollowUpRowTyped, FreshRowColumns
  <2>4. QED
    BY <2>1, <2>2, <2>3, OthersUndisturbed
<1>11. ASSUME NEW s \in Sessions, Rollback(s) PROVE ReadsStayValid'
  <2>1. /\ tx[s].pc \in Holding /\ tx[s].order \in Orders /\ wo' = wo
        /\ tx' = [tx EXCEPT ![s] = Idle] /\ lock' = [lock EXCEPT ![tx[s].order] = None]
    BY <1>11, HeldTyped DEF Rollback, End, Unlocked
  <2>2. lock[tx[s].order] = s
    BY <2>1 DEF ReadsStayValid
  <2>3. \A t \in Sessions : tx'[t].pc \in Holding =>
          /\ t # s /\ tx'[t] = tx[t] /\ tx[t].order \in Orders /\ lock[tx[t].order] = t
    BY <2>1, HeldTyped DEF ReadsStayValid, TypeOK, Idle, Holding
  <2>4. \A t \in Sessions : tx'[t].pc \in Holding => lock'[tx[t].order] = t
    BY <2>1, <2>2, <2>3 DEF TypeOK
  <2>5. QED
    BY <2>1, <2>3, <2>4 DEF ReadsStayValid, OpenFollowUps
<1>12. ASSUME NEW u \in Staff, ChangeUser(u) PROVE ReadsStayValid'
  BY <1>12 DEF ChangeUser, ReadsStayValid, OpenFollowUps
<1>13. CASE UNCHANGED vars
  BY <1>13 DEF vars, ReadsStayValid, OpenFollowUps
<1>14. QED
  BY <1>1, <1>2, <1>3, <1>4, <1>5, <1>6, <1>7, <1>8, <1>9, <1>10, <1>11, <1>12, <1>13
  DEF Next, Proceed

\* A session past its select is alone on its row, its copy is the row, and a
\* follow-up it did not find still is not there: decisions made on earlier
\* reads are as good as decisions made at the commit.
THEOREM ReadsAreValid == Spec => []ReadsStayValid
BY TypeInit, TypeStep, ReadsInit, ReadsStep, PTL DEF Spec

-----------------------------------------------------------------------------
(* Concurrent transactions implement the one-at-a-time board.              *)

\* The instance has operators of its own; they are the ones of this module.
LEMMA SamePayloads ==
  /\ Serial!UpdatePayloads = UpdatePayloads
  /\ Serial!OutcomePayloads = OutcomePayloads
  /\ Serial!VerificationPayloads = VerificationPayloads
BY DEF Serial!UpdatePayloads, UpdatePayloads, Serial!OutcomePayloads, OutcomePayloads,
       Serial!VerificationPayloads, VerificationPayloads,
       Serial!Statuses, Statuses, Serial!Results, Results

LEMMA SameChecks ==
  ASSUME NEW r, NEW u, NEW p
  PROVE  /\ Serial!UpdateAllowed(r, p) <=> UpdateAllowed(r, p)
         /\ Serial!OutcomeAllowed(r, u, p) <=> OutcomeAllowed(r, u, p)
         /\ Serial!VerifyAllowed(r, u, p) <=> VerifyAllowed(r, u, p)
         /\ Serial!FollowUpAllowed(r) <=> FollowUpAllowed(r)
         /\ Serial!OpenFollowUps(r) = OpenFollowUps(r)
BY DEF Serial!UpdateAllowed, UpdateAllowed, Serial!OutcomeAllowed, OutcomeAllowed,
       Serial!VerifyAllowed, VerifyAllowed, Serial!FollowUpAllowed, FollowUpAllowed,
       Serial!CorrectionAllowed, CorrectionAllowed, Serial!Active, Active,
       Serial!Never, Never, Serial!OpenFollowUps, OpenFollowUps

LEMMA SameRows ==
  ASSUME NEW r, NEW u, NEW p, NEW now
  PROVE  /\ Serial!NewRow(u) = NewRow(u)
         /\ Serial!FollowUpRow(u) = FollowUpRow(u)
         /\ Serial!UpdatedRow(r, p, now) = UpdatedRow(r, p, now)
         /\ Serial!CompletedRow(r, u, p, now) = CompletedRow(r, u, p, now)
         /\ Serial!VerifiedRow(r, u, p, now) = VerifiedRow(r, u, p, now)
<1>1. /\ Serial!NewRow(u) = NewRow(u)
      /\ Serial!FollowUpRow(u) = FollowUpRow(u)
  BY DEF Serial!NewRow, NewRow, Serial!FollowUpRow, FollowUpRow,
         Serial!NoRow, NoRow, Serial!Never, Never
<1>2. Serial!UpdatedRow(r, p, now) = UpdatedRow(r, p, now)
  BY DEF Serial!UpdatedRow, UpdatedRow, Serial!Unless, Unless,
         Serial!Never, Never, Serial!Active, Active
<1>3. Serial!CompletedRow(r, u, p, now) = CompletedRow(r, u, p, now)
  BY DEF Serial!CompletedRow, CompletedRow, Serial!Completed, Completed,
         Serial!Never, Never
<1>4. Serial!VerifiedRow(r, u, p, now) = VerifiedRow(r, u, p, now)
  BY DEF Serial!VerifiedRow, VerifiedRow
<1>5. QED
  BY <1>1, <1>2, <1>3, <1>4

LEMMA SameStores ==
  ASSUME NEW o, NEW r, NEW e, NEW a, NEW u, NEW r1, NEW r2, NEW reason
  PROVE  /\ Serial!Store(o, r, e) <=> Store(o, r, e)
         /\ Serial!Now(o) = Now(o)
         /\ Serial!PlainEvent(a) = PlainEvent(a)
         /\ Serial!EvidenceEvent(a, u, r1, r2, reason) = EvidenceEvent(a, u, r1, r2, reason)
BY DEF Serial!Store, Store, Serial!Now, Now, Serial!PlainEvent, PlainEvent,
       Serial!EvidenceEvent, EvidenceEvent, Serial!Snapshot, Snapshot,
       Serial!NoRow, NoRow, Serial!Never, Never

LEMMA InitRefines == Init => Serial!Init
BY DEF Init, TableInit, NoRow, Never,
       Serial!Init, Serial!TableInit, Serial!NoRow, Serial!Never

LEMMA StepRefines ==
  TypeOK /\ ReadsStayValid /\ [Next]_vars => [Serial!Next]_(Serial!vars)
<1> SUFFICES ASSUME TypeOK, ReadsStayValid, [Next]_vars
             PROVE  Serial!Next \/ UNCHANGED <<wo, audit>>
  BY DEF Serial!vars
\* A held row is the committed row.
<1>0. \A s \in Sessions : tx[s].pc \in Holding =>
        tx[s].order \in Orders /\ tx[s].row = wo[tx[s].order]
  BY HeldTyped DEF ReadsStayValid
<1>1. ASSUME NEW o \in Orders, Create(o) PROVE Serial!Next
  BY <1>1, SameRows, SameStores DEF Create, Serial!Next, Serial!Create
<1>2. ASSUME NEW s \in Sessions, Update(s) PROVE Serial!Next
  <2>1. tx[s].pc \in Holding
    BY <1>2 DEF Update, Holding
  <2>2. Serial!Update(tx[s].order)
    BY <1>0, <1>2, <2>1, SamePayloads, SameChecks, SameRows, SameStores
    DEF Update, Commit, Serial!Update
  <2>3. QED
    BY <1>0, <2>1, <2>2 DEF Serial!Next
<1>3. ASSUME NEW s \in Sessions, RecordOutcome(s) PROVE Serial!Next
  <2>1. tx[s].pc \in Holding
    BY <1>3 DEF RecordOutcome, Holding
  <2>2. Serial!RecordOutcome(tx[s].order)
    BY <1>0, <1>3, <2>1, SamePayloads, SameChecks, SameRows, SameStores
    DEF RecordOutcome, Commit, Serial!RecordOutcome
  <2>3. QED
    BY <1>0, <2>1, <2>2 DEF Serial!Next
<1>4. ASSUME NEW s \in Sessions, Verify(s) PROVE Serial!Next
  <2>1. tx[s].pc \in Holding
    BY <1>4 DEF Verify, Holding
  <2>2. Serial!Verify(tx[s].order)
    BY <1>0, <1>4, <2>1, SamePayloads, SameChecks, SameRows, SameStores
    DEF Verify, Commit, Serial!Verify
  <2>3. QED
    BY <1>0, <2>1, <2>2 DEF Serial!Next
<1>5. ASSUME NEW s \in Sessions, CreateFollowUp(s) PROVE Serial!Next
  <2>1. tx[s].pc \in Holding /\ tx[s].pc = "no_open_child"
    BY <1>5 DEF CreateFollowUp, Holding
  <2>2. FollowUpAllowed(wo[tx[s].order]) /\ OpenFollowUps(tx[s].order) = {}
    BY <1>0, <2>1 DEF ReadsStayValid
  <2>3. PICK c \in Orders :
          /\ wo[c].status = "absent"
          /\ Store(c, FollowUpRow(tx[s].order), PlainEvent("follow_up_created"))
    BY <1>5 DEF CreateFollowUp
  <2>4. Serial!FollowUp(tx[s].order, c)
    BY <2>2, <2>3, SameChecks, SameRows, SameStores DEF Serial!FollowUp
  <2>5. QED
    BY <1>0, <2>1, <2>4 DEF Serial!Next
<1>6. ASSUME NEW s \in Sessions,
             \/ \E o \in Orders : Submit(s, o)
             \/ Acquire(s) \/ NotFound(s) \/ CheckOwner(s)
             \/ FindNoOpenFollowUp(s) \/ Rollback(s)
      PROVE  UNCHANGED <<wo, audit>>
  BY <1>6 DEF Submit, Acquire, NotFound, CheckOwner, FindNoOpenFollowUp, Rollback
<1>7. ASSUME NEW u \in Staff, ChangeUser(u) PROVE UNCHANGED <<wo, audit>>
  BY <1>7 DEF ChangeUser
<1>8. CASE UNCHANGED vars
  BY <1>8 DEF vars
<1>9. QED
  BY <1>1, <1>2, <1>3, <1>4, <1>5, <1>6, <1>7, <1>8 DEF Next, Proceed

\* The locking transactions implement WorkOrderBoard.
THEOREM Refinement == Spec => ImplementsBoard
BY TypeInit, TypeStep, ReadsInit, ReadsStep, InitRefines, StepRefines, PTL
DEF Spec, ImplementsBoard, Serial!Spec

-----------------------------------------------------------------------------
(* What one committed operation does to the table.                         *)

Creates(r, e) ==
  \E owner \in Staff \cup {None} : r = NewRow(owner) /\ e = PlainEvent("created")

FollowsUp(r, e) ==
  \E q \in Orders : /\ FollowUpAllowed(wo[q]) /\ OpenFollowUps(q) = {}
                    /\ r = FollowUpRow(q) /\ e = PlainEvent("follow_up_created")

Updates(o, r, e) ==
  \E p \in UpdatePayloads : /\ UpdateAllowed(wo[o], p)
                            /\ r = UpdatedRow(wo[o], p, Now(o))
                            /\ e = PlainEvent("updated")

Completes(o, r, e) ==
  \E u \in Users, p \in OutcomePayloads :
    /\ OutcomeAllowed(wo[o], u, p)
    /\ r = CompletedRow(wo[o], u, p, Now(o))
    /\ e = EvidenceEvent("outcome_recorded", u, wo[o], r, p.reason)

Verifies(o, r, e) ==
  \E u \in Users, v \in VerificationPayloads :
    /\ VerifyAllowed(wo[o], u, v)
    /\ r = VerifiedRow(wo[o], u, v, Now(o))
    /\ e = EvidenceEvent("repair_verified", u, wo[o], r, v.reason)

Commits(o, r, e) ==
  /\ Store(o, r, e)
  /\ \/ wo[o].status = "absent" /\ (Creates(r, e) \/ FollowsUp(r, e))
     \/ Updates(o, r, e) \/ Completes(o, r, e) \/ Verifies(o, r, e)

LEMMA BoardCommits ==
  ASSUME Serial!Next PROVE \E o \in Orders : \E r, e : Commits(o, r, e)
<1>1. ASSUME NEW o \in Orders, Serial!Create(o) PROVE \E r, e : Commits(o, r, e)
  BY <1>1, SameRows, SameStores DEF Serial!Create, Commits, Creates
<1>2. ASSUME NEW o \in Orders, Serial!Update(o) PROVE \E r, e : Commits(o, r, e)
  BY <1>2, SamePayloads, SameChecks, SameRows, SameStores
  DEF Serial!Update, Commits, Updates
<1>3. ASSUME NEW o \in Orders, Serial!RecordOutcome(o) PROVE \E r, e : Commits(o, r, e)
  BY <1>3, SamePayloads, SameChecks, SameRows, SameStores
  DEF Serial!RecordOutcome, Commits, Completes
<1>4. ASSUME NEW o \in Orders, Serial!Verify(o) PROVE \E r, e : Commits(o, r, e)
  BY <1>4, SamePayloads, SameChecks, SameRows, SameStores
  DEF Serial!Verify, Commits, Verifies
<1>5. ASSUME NEW o \in Orders, NEW c \in Orders, Serial!FollowUp(o, c)
      PROVE  \E r, e : Commits(c, r, e)
  BY <1>5, SameChecks, SameRows, SameStores DEF Serial!FollowUp, Commits, FollowsUp
<1>6. QED
  BY <1>1, <1>2, <1>3, <1>4, <1>5 DEF Serial!Next

-----------------------------------------------------------------------------
(* Invariants of the rows.                                                 *)

LEMMA RowAfter ==
  ASSUME TableTypeOK, NEW o \in Orders, NEW r, NEW e, Store(o, r, e)
  PROVE  /\ wo'[o] = r
         /\ \A c \in Orders \ {o} : wo'[c] = wo[c]
BY DEF Store, TableTypeOK

LEMMA OneOpenFollowUpStep ==
  ASSUME TableTypeOK, OneOpenFollowUp, NEW o \in Orders, NEW r, NEW e, Commits(o, r, e)
  PROVE  OneOpenFollowUp'
<1>1. wo'[o] = r /\ \A c \in Orders \ {o} : wo'[c] = wo[c]
  BY RowAfter DEF Commits
<1>2. wo[o] \in Row /\ Now(o) \in Nat
  BY NowTyped DEF TableTypeOK
<1>3. CASE Creates(r, e)
  BY <1>1, <1>3, FreshRowColumns DEF Creates, OneOpenFollowUp
<1>4. CASE FollowsUp(r, e)
  <2>1. PICK q \in Orders : OpenFollowUps(q) = {} /\ r = FollowUpRow(q)
    BY <1>4 DEF FollowsUp
  <2>2. r.parent = q
    BY <2>1, FreshRowColumns
  <2>3. \A c \in Orders : ~(wo[c].parent = q /\ wo[c].status \in Active)
    BY <2>1 DEF OpenFollowUps
  <2>4. QED
    BY <1>1, <2>2, <2>3 DEF OneOpenFollowUp
<1>5. CASE Updates(o, r, e)
  <2>1. r.parent = wo[o].parent /\ wo[o].status \in Active
    BY <1>2, <1>5, UpdatedRowColumns DEF Updates, UpdateAllowed
  <2>2. QED
    BY <1>1, <2>1 DEF OneOpenFollowUp
<1>6. CASE Completes(o, r, e) \/ Verifies(o, r, e)
  <2>1. r.status \notin Active
    BY <1>2, <1>6, CompletedRowColumns, VerifiedRowColumns
    DEF Completes, Verifies, VerifyAllowed, Active
  <2>2. QED
    BY <1>1, <2>1 DEF OneOpenFollowUp
<1>7. QED
  BY <1>3, <1>4, <1>5, <1>6 DEF Commits

LEMMA FollowUpParentStep ==
  ASSUME TableTypeOK, FollowUpHasCompletedParent,
         NEW o \in Orders, NEW r, NEW e, Commits(o, r, e)
  PROVE  FollowUpHasCompletedParent'
<1>1. wo'[o] = r /\ \A c \in Orders \ {o} : wo'[c] = wo[c]
  BY RowAfter DEF Commits
<1>2. wo[o] \in Row /\ Now(o) \in Nat
  BY NowTyped DEF TableTypeOK
\* A completed row stays completed, ...
<1>3. wo[o].status = "completed" => r.status = "completed"
  <2>1. CASE Updates(o, r, e)
    BY <2>1 DEF Updates, UpdateAllowed, Active
  <2>2. CASE Completes(o, r, e) \/ Verifies(o, r, e)
    BY <1>2, <2>2, CompletedRowColumns, VerifiedRowColumns DEF Completes, Verifies
  <2>3. QED
    BY <2>1, <2>2 DEF Commits
\* ... and a row only gets a completed parent.
<1>4. r.parent # None =>
        \/ r.parent = wo[o].parent
        \/ r.parent \in Orders /\ wo[r.parent].status = "completed"
  <2>1. CASE Creates(r, e)
    BY <2>1, FreshRowColumns DEF Creates
  <2>2. CASE FollowsUp(r, e)
    BY <2>2, FreshRowColumns DEF FollowsUp, FollowUpAllowed
  <2>3. Updates(o, r, e) => r.parent = wo[o].parent
    BY <1>2, UpdatedRowColumns DEF Updates
  <2>4. Completes(o, r, e) => r.parent = wo[o].parent
    BY <1>2, CompletedRowColumns DEF Completes
  <2>5. Verifies(o, r, e) => r.parent = wo[o].parent
    BY <1>2, VerifiedRowColumns DEF Verifies
  <2>6. QED
    BY <2>1, <2>2, <2>3, <2>4, <2>5 DEF Commits
<1>5. \A c \in Orders : wo[c].parent \in Orders \cup {None}
  BY DEF TableTypeOK, Row
<1>6. \A c \in Orders : wo[c].status = "completed" => wo'[c].status = "completed"
  BY <1>1, <1>3
<1>7. QED
  BY <1>1, <1>4, <1>5, <1>6 DEF FollowUpHasCompletedParent

LEMMA ClosureStep ==
  ASSUME TableTypeOK, ClosureIsConsistent,
         NEW o \in Orders, NEW r, NEW e, Commits(o, r, e)
  PROVE  ClosureIsConsistent'
<1>1. wo'[o] = r /\ \A c \in Orders \ {o} : wo'[c] = wo[c]
  BY RowAfter DEF Commits
<1>2. wo[o] \in Row /\ Now(o) \in Nat /\ Now(o) # Never
  BY NowTyped DEF TableTypeOK, Now, Never
<1>3. SUFFICES /\ r.status \in Terminal <=> r.closed_at # Never
               /\ r.status = "completed" <=> r.outcome # None
               /\ r.status = "completed" <=> r.completed_by # None
  BY <1>1 DEF ClosureIsConsistent, Settled
<1>4. /\ wo[o].status \in Terminal <=> wo[o].closed_at # Never
      /\ wo[o].status = "completed" <=> wo[o].outcome # None
      /\ wo[o].status = "completed" <=> wo[o].completed_by # None
  BY DEF ClosureIsConsistent, Settled
<1>5. CASE Creates(r, e) \/ FollowsUp(r, e)
  BY <1>5 DEF Creates, FollowsUp, NewRow, FollowUpRow, NoRow, Terminal
<1>6. CASE Updates(o, r, e)
  <2>1. PICK p \in UpdatePayloads :
          UpdateAllowed(wo[o], p) /\ r = UpdatedRow(wo[o], p, Now(o))
    BY <1>6 DEF Updates
  <2>2. wo[o].closed_at = Never /\ wo[o].outcome = None /\ wo[o].completed_by = None
    BY <1>4, <2>1 DEF UpdateAllowed, Active, Terminal
  <2>3. /\ r.status = Unless(p.status, wo[o].status)
        /\ r.closed_at = IF p.status = "cancelled" /\ wo[o].closed_at = Never THEN Now(o)
                         ELSE IF p.status \in Active THEN Never ELSE wo[o].closed_at
        /\ r.outcome = None /\ r.completed_by = None
    BY <1>2, <2>1, <2>2, UpdatedRowColumns
  <2>4. r.status # "completed"
    BY <2>1, <2>3 DEF UpdateAllowed, Unless, Active
  <2>5. r.status = "cancelled" <=> p.status = "cancelled"
    BY <2>1, <2>3, NullsAreDistinct DEF UpdateAllowed, Unless, Active, Statuses
  <2>6. r.closed_at # Never <=> p.status = "cancelled"
    BY <1>2, <2>2, <2>3
  <2>7. QED
    BY <2>3, <2>4, <2>5, <2>6 DEF Terminal
<1>7. CASE Completes(o, r, e)
  BY <1>2, <1>4, <1>7, CompletedRowColumns, NullsAreDistinct DEF Completes, Terminal
<1>8. CASE Verifies(o, r, e)
  BY <1>2, <1>4, <1>8, VerifiedRowColumns DEF Verifies, Terminal
<1>9. QED
  BY <1>5, <1>6, <1>7, <1>8 DEF Commits

LEMMA VerdictStep ==
  ASSUME TableTypeOK, VerdictFitsRecord,
         NEW o \in Orders, NEW r, NEW e, Commits(o, r, e)
  PROVE  VerdictFitsRecord'
<1>1. wo'[o] = r /\ \A c \in Orders \ {o} : wo'[c] = wo[c]
  BY RowAfter DEF Commits
<1>2. wo[o] \in Row /\ Now(o) \in Nat
  BY NowTyped DEF TableTypeOK
<1>3. SUFFICES /\ r.verification_result = "passed" => r.condition = "serviceable"
               /\ r.verification_result = "failed" => r.follow_up_required
  BY <1>1 DEF VerdictFitsRecord
<1>4. None # "passed" /\ None # "failed"
  BY NullsAreDistinct DEF Results
<1>5. CASE Creates(r, e) \/ FollowsUp(r, e)
  BY <1>4, <1>5 DEF Creates, FollowsUp, NewRow, FollowUpRow, NoRow
<1>6. CASE Updates(o, r, e)
  <2>1. PICK p \in UpdatePayloads :
          UpdateAllowed(wo[o], p) /\ r = UpdatedRow(wo[o], p, Now(o))
    BY <1>6 DEF Updates
  <2>2. /\ r.verification_result = wo[o].verification_result
        /\ r.condition = wo[o].condition
        /\ r.follow_up_required = wo[o].follow_up_required
    BY <1>2, <2>1, UpdatedRowColumns
  <2>3. QED
    BY <2>2 DEF VerdictFitsRecord
<1>7. CASE Completes(o, r, e)
  BY <1>2, <1>4, <1>7, CompletedRowColumns DEF Completes
<1>8. CASE Verifies(o, r, e)
  <2>1. PICK u \in Users, v \in VerificationPayloads :
          VerifyAllowed(wo[o], u, v) /\ r = VerifiedRow(wo[o], u, v, Now(o))
    BY <1>8 DEF Verifies
  <2>2. /\ r.verification_result = v.result /\ r.condition = wo[o].condition
        /\ r.follow_up_required = (wo[o].follow_up_required \/ v.result = "failed")
    BY <1>2, <2>1, VerifiedRowColumns
  <2>3. v.result = "passed" => wo[o].condition = "serviceable"
    BY <2>1 DEF VerifyAllowed
  <2>4. QED
    BY <2>2, <2>3
<1>9. QED
  BY <1>5, <1>6, <1>7, <1>8 DEF Commits

-----------------------------------------------------------------------------
(* The row invariants as theorems of the concurrent specification.         *)

RowInv == /\ OneOpenFollowUp /\ FollowUpHasCompletedParent
          /\ ClosureIsConsistent /\ VerdictFitsRecord

LEMMA RowInvInit == Init => RowInv
BY NullsAreDistinct
DEF Init, TableInit, NoRow, RowInv, OneOpenFollowUp, FollowUpHasCompletedParent,
    ClosureIsConsistent, VerdictFitsRecord, Settled, Terminal, Active, Results

LEMMA RowInvStep ==
  TypeOK /\ ReadsStayValid /\ RowInv /\ [Next]_vars => RowInv'
<1> SUFFICES ASSUME TypeOK, ReadsStayValid, RowInv, [Next]_vars PROVE RowInv'
  OBVIOUS
<1>1. CASE UNCHANGED <<wo, audit>>
  BY <1>1 DEF RowInv, OneOpenFollowUp, FollowUpHasCompletedParent,
              ClosureIsConsistent, VerdictFitsRecord, Settled
<1>2. CASE Serial!Next
  <2>1. PICK o \in Orders : \E r, e : Commits(o, r, e)
    BY <1>2, BoardCommits
  <2>2. PICK r, e : Commits(o, r, e)
    BY <2>1
  <2>3. QED
    BY <2>2, OneOpenFollowUpStep, FollowUpParentStep, ClosureStep, VerdictStep
    DEF RowInv, TypeOK
<1>3. QED
  BY <1>1, <1>2, StepRefines DEF Serial!vars

LEMMA RowInvariant == Spec => []RowInv
BY TypeInit, TypeStep, ReadsInit, ReadsStep, RowInvInit, RowInvStep, PTL DEF Spec

\* No interleaving of requests gives a parent two open follow-ups.
THEOREM AtMostOneFollowUp == Spec => []OneOpenFollowUp
BY RowInvariant, PTL DEF RowInv

\* A follow-up never outlives the completion of its parent.
THEOREM FollowUpsOfCompletedWork == Spec => []FollowUpHasCompletedParent
BY RowInvariant, PTL DEF RowInv

\* Status, closed_at, outcome and completed_by never disagree.
THEOREM ConsistentClosure == Spec => []ClosureIsConsistent
BY RowInvariant, PTL DEF RowInv

\* A standing verdict always fits the recorded condition and follow-up.
THEOREM FittingVerdict == Spec => []VerdictFitsRecord
BY RowInvariant, PTL DEF RowInv

-----------------------------------------------------------------------------
(* The audit trail.                                                        *)

\* What the end of a trail says of the row: a row with an evidence event last
\* is completed, and one with a verification last has it standing.
TrailEnds ==
  \A o \in Orders : audit[o] # <<>> =>
    /\ IsEvidence(Last(audit[o])) => wo[o].status = "completed"
    /\ Last(audit[o]).action = "repair_verified" => wo[o].verified_at # Never

LEMMA AuditAfter ==
  ASSUME TableTypeOK, NEW o \in Orders, NEW r, NEW e, Store(o, r, e)
  PROVE  /\ \A c \in Orders \ {o} : audit'[c] = audit[c]
         /\ Len(audit[o]) \in Nat /\ Len(audit'[o]) = Len(audit[o]) + 1
         /\ \A i \in 1 .. Len(audit[o]) : audit'[o][i] = audit[o][i]
         /\ audit'[o][Len(audit[o]) + 1] = e
         /\ Last(audit'[o]) = e /\ audit'[o] # <<>>
<1>1. audit[o] \in Seq(Event) /\ audit' = [audit EXCEPT ![o] = Append(audit[o], e)]
  BY DEF TableTypeOK, Store
<1>2. audit'[o] = Append(audit[o], e) /\ \A c \in Orders \ {o} : audit'[c] = audit[c]
  BY <1>1 DEF TableTypeOK
<1>3. QED
  BY <1>1, <1>2 DEF Last

\* Every commit either leaves the evidence alone, on a row that is not
\* completed, or records an outcome, or records a verification.
Leaves(o, r, e) ==
  /\ wo[o].status # "completed" /\ r.status # "completed"
  /\ ~IsEvidence(e) /\ r.verified_at \in {Never, wo[o].verified_at}

Records(o, r, e) ==
  /\ e.action = "outcome_recorded" /\ r.status = "completed" /\ r.verified_at = Never
  /\ e.before = Snapshot(wo[o]) /\ e.after = Snapshot(r)
  /\ wo[o].outcome # None => Accountable(e)

Certifies(o, r, e) ==
  /\ e.action = "repair_verified" /\ wo[o].status = "completed" /\ r.status = "completed"
  /\ r.verified_at = Now(o)
  /\ e.before = Snapshot(wo[o]) /\ e.after = Snapshot(r)
  /\ wo[o].verified_at # Never => Accountable(e)

LEMMA CommitOnTrail ==
  ASSUME TableTypeOK, NEW o \in Orders, NEW r, NEW e, Commits(o, r, e)
  PROVE  Leaves(o, r, e) \/ Records(o, r, e) \/ Certifies(o, r, e)
<1>1. wo[o] \in Row /\ Now(o) \in Nat
  BY NowTyped DEF TableTypeOK
<1>2. \A a \in {"created", "updated", "follow_up_created"} : ~IsEvidence(PlainEvent(a))
  BY DEF PlainEvent, IsEvidence, EvidenceActions
<1>3. ASSUME wo[o].status = "absent", Creates(r, e) \/ FollowsUp(r, e)
      PROVE  Leaves(o, r, e)
  <2>1. r.status = "open" /\ r.verified_at = Never
    BY <1>3 DEF Creates, FollowsUp, NewRow, FollowUpRow, NoRow
  <2>2. QED
    BY <1>2, <1>3, <2>1 DEF Leaves, Creates, FollowsUp
<1>4. CASE Updates(o, r, e)
  <2>1. wo[o].status # "completed" /\ r.status # "completed"
    BY <1>1, <1>4, UpdatedRowColumns DEF Updates, UpdateAllowed, Active
  <2>2. r.verified_at = wo[o].verified_at
    BY <1>1, <1>4, UpdatedRowColumns DEF Updates
  <2>3. QED
    BY <1>2, <1>4, <2>1, <2>2 DEF Updates, Leaves
<1>5. CASE Completes(o, r, e)
  <2>1. PICK u \in Users, p \in OutcomePayloads :
          /\ OutcomeAllowed(wo[o], u, p) /\ r = CompletedRow(wo[o], u, p, Now(o))
          /\ e = EvidenceEvent("outcome_recorded", u, wo[o], r, p.reason)
    BY <1>5 DEF Completes
  <2>2. r.status = "completed" /\ r.verified_at = Never
    BY <1>1, <2>1, CompletedRowColumns
  <2>3. /\ e.action = "outcome_recorded" /\ e.actor = u /\ e.reason = p.reason
        /\ e.before = Snapshot(wo[o]) /\ e.after = Snapshot(r)
    BY <2>1 DEF EvidenceEvent
  <2>4. wo[o].outcome # None => Accountable(e)
    BY <2>1, <2>3 DEF OutcomeAllowed, CorrectionAllowed, Accountable
  <2>5. QED
    BY <2>2, <2>3, <2>4 DEF Records
<1>6. CASE Verifies(o, r, e)
  <2>1. PICK u \in Users, v \in VerificationPayloads :
          /\ VerifyAllowed(wo[o], u, v) /\ r = VerifiedRow(wo[o], u, v, Now(o))
          /\ e = EvidenceEvent("repair_verified", u, wo[o], r, v.reason)
    BY <1>6 DEF Verifies
  <2>2. wo[o].status = "completed" /\ r.status = "completed" /\ r.verified_at = Now(o)
    BY <1>1, <2>1, VerifiedRowColumns DEF VerifyAllowed
  <2>3. /\ e.action = "repair_verified" /\ e.actor = u /\ e.reason = v.reason
        /\ e.before = Snapshot(wo[o]) /\ e.after = Snapshot(r)
    BY <2>1 DEF EvidenceEvent
  <2>4. wo[o].verified_at # Never => Accountable(e)
    BY <2>1, <2>3 DEF VerifyAllowed, CorrectionAllowed, Accountable
  <2>5. QED
    BY <2>2, <2>3, <2>4 DEF Certifies
<1>7. QED
  BY <1>3, <1>4, <1>5, <1>6 DEF Commits

LEMMA TrailEndsStep ==
  ASSUME TableTypeOK, NEW o \in Orders, NEW r, NEW e, Commits(o, r, e), TrailEnds
  PROVE  TrailEnds'
<1>1. wo'[o] = r /\ \A c \in Orders \ {o} : wo'[c] = wo[c]
  BY RowAfter DEF Commits
<1>2. Last(audit'[o]) = e /\ \A c \in Orders \ {o} : audit'[c] = audit[c]
  BY AuditAfter DEF Commits
<1>3. IsEvidence(e) => r.status = "completed"
  BY CommitOnTrail DEF Leaves, Records, Certifies
<1>4. e.action = "repair_verified" => r.verified_at # Never
  <2>1. Now(o) # Never
    BY AuditAfter DEF Now, Never, Commits
  <2>2. QED
    BY <2>1, CommitOnTrail DEF Leaves, Records, Certifies, IsEvidence, EvidenceActions
<1>5. QED
  BY <1>1, <1>2, <1>3, <1>4 DEF TrailEnds, Last, IsEvidence

LEMMA EvidenceChainStep ==
  ASSUME TableTypeOK, NEW o \in Orders, NEW r, NEW e, Commits(o, r, e),
         TrailEnds, EvidenceChain
  PROVE  EvidenceChain'
<1> DEFINE n == Len(audit[o])
<1>1. wo'[o] = r /\ \A c \in Orders \ {o} : wo'[c] = wo[c]
  BY RowAfter DEF Commits
<1>2. /\ \A c \in Orders \ {o} : audit'[c] = audit[c]
      /\ n \in Nat /\ Len(audit'[o]) = n + 1
      /\ \A i \in 1 .. n : audit'[o][i] = audit[o][i]
      /\ audit'[o][n + 1] = e /\ Last(audit'[o]) = e /\ audit'[o] # <<>>
  BY AuditAfter DEF Commits
<1>3. r.status = "completed" => IsEvidence(e) /\ e.after = Snapshot(r)
  BY CommitOnTrail DEF Leaves, Records, Certifies, IsEvidence, EvidenceActions
<1>4. ASSUME n >= 1, IsEvidence(audit[o][n])
      PROVE  IsEvidence(e) /\ e.before = audit[o][n].after
  <2>1. audit[o] # <<>> /\ Last(audit[o]) = audit[o][n]
    BY <1>4, <1>2 DEF Last
  <2>2. wo[o].status = "completed"
    BY <1>4, <2>1 DEF TrailEnds
  <2>3. audit[o][n].after = Snapshot(wo[o])
    BY <2>1, <2>2 DEF EvidenceChain
  <2>4. QED
    BY <2>2, <2>3, CommitOnTrail DEF Leaves, Records, Certifies, IsEvidence, EvidenceActions
<1>5. ASSUME NEW i \in 2 .. n + 1, IsEvidence(audit'[o][i - 1])
      PROVE  IsEvidence(audit'[o][i]) /\ audit'[o][i].before = audit'[o][i - 1].after
  <2>1. CASE i = n + 1
    <3>1. i - 1 = n /\ n >= 1 /\ audit'[o][n] = audit[o][n]
      BY <1>2, <2>1
    <3>2. QED
      BY <1>2, <1>4, <1>5, <2>1, <3>1
  <2>2. CASE i # n + 1
    <3>1. i \in 2 .. n /\ audit'[o][i] = audit[o][i] /\ audit'[o][i - 1] = audit[o][i - 1]
      BY <1>2, <2>2
    <3>2. QED
      BY <1>5, <3>1 DEF EvidenceChain
  <2>3. QED
    BY <2>1, <2>2
<1> HIDE DEF n
<1>6. ASSUME NEW c \in Orders \ {o} PROVE LET log == audit'[c] IN
        /\ \A i \in 2 .. Len(log) :
             IsEvidence(log[i - 1]) =>
               IsEvidence(log[i]) /\ log[i].before = log[i - 1].after
        /\ wo'[c].status = "completed" =>
             log # <<>> /\ IsEvidence(Last(log)) /\ Last(log).after = Snapshot(wo'[c])
  <2>1. wo'[c] = wo[c] /\ audit'[c] = audit[c]
    BY <1>1, <1>2
  <2>2. QED
    BY <2>1 DEF EvidenceChain
<1>7. LET log == audit'[o] IN
        /\ \A i \in 2 .. Len(log) :
             IsEvidence(log[i - 1]) =>
               IsEvidence(log[i]) /\ log[i].before = log[i - 1].after
        /\ wo'[o].status = "completed" =>
             log # <<>> /\ IsEvidence(Last(log)) /\ Last(log).after = Snapshot(wo'[o])
  BY <1>1, <1>2, <1>3, <1>5
<1>8. QED
  BY <1>6, <1>7 DEF EvidenceChain, Last, IsEvidence, Snapshot

LEMMA VerificationStep ==
  ASSUME TableTypeOK, NEW o \in Orders, NEW r, NEW e, Commits(o, r, e),
         VerificationIsCurrent, TrailEnds
  PROVE  VerificationIsCurrent'
<1>1. wo'[o] = r /\ \A c \in Orders \ {o} : wo'[c] = wo[c]
  BY RowAfter DEF Commits
<1>2. /\ \A c \in Orders \ {o} : audit'[c] = audit[c]
      /\ Len(audit[o]) \in Nat /\ Len(audit'[o]) = Len(audit[o]) + 1
      /\ Last(audit'[o]) = e
  BY AuditAfter DEF Commits
\* Only a completed row carries a verification.
<1>3. wo[o].verified_at # Never => wo[o].status = "completed"
  <2> SUFFICES ASSUME wo[o].verified_at # Never PROVE wo[o].status = "completed"
    OBVIOUS
  <2>1. wo[o].verified_at = Len(audit[o]) /\ Last(audit[o]).action = "repair_verified"
    BY DEF VerificationIsCurrent
  <2>2. audit[o] # <<>>
    BY <2>1 DEF Never
  <2>3. QED
    BY <2>1, <2>2 DEF TrailEnds, IsEvidence, EvidenceActions
<1>4. r.verified_at # Never => Certifies(o, r, e)
  BY <1>3, CommitOnTrail DEF Leaves, Records
<1>5. Certifies(o, r, e) =>
        /\ r.verified_at = Len(audit[o]) + 1 /\ e.action = "repair_verified"
        /\ e.after.verification_result = r.verification_result
  BY DEF Certifies, Now, Snapshot
<1>6. QED
  BY <1>1, <1>2, <1>4, <1>5 DEF VerificationIsCurrent, Last

LEMMA AccountableStep ==
  ASSUME TableTypeOK, NEW o \in Orders, NEW r, NEW e, Commits(o, r, e),
         TrailEnds, ClosureIsConsistent, CorrectionsAreAccountable
  PROVE  CorrectionsAreAccountable'
<1> DEFINE n == Len(audit[o])
           Corrects(x, y) == \/ y.action = "outcome_recorded" /\ IsEvidence(x)
                             \/ y.action = "repair_verified" /\ x.action = "repair_verified"
<1>1. /\ \A c \in Orders \ {o} : audit'[c] = audit[c]
      /\ n \in Nat /\ Len(audit'[o]) = n + 1
      /\ \A i \in 1 .. n : audit'[o][i] = audit[o][i]
      /\ audit'[o][n + 1] = e
  BY AuditAfter DEF Commits
<1>2. \A c \in Orders : \A i \in 2 .. Len(audit[c]) :
        Corrects(audit[c][i - 1], audit[c][i]) => Accountable(audit[c][i])
  BY DEF CorrectionsAreAccountable
<1>3. ASSUME n >= 1, Corrects(audit[o][n], e) PROVE Accountable(e)
  <2>1. audit[o] # <<>> /\ Last(audit[o]) = audit[o][n]
    BY <1>1, <1>3 DEF Last
  <2>2. CASE e.action = "outcome_recorded" /\ IsEvidence(audit[o][n])
    <3>1. wo[o].outcome # None
      BY <2>1, <2>2 DEF TrailEnds, ClosureIsConsistent
    <3>2. QED
      BY <2>2, <3>1, CommitOnTrail
      DEF Leaves, Records, Certifies, IsEvidence, EvidenceActions
  <2>3. CASE e.action = "repair_verified" /\ audit[o][n].action = "repair_verified"
    <3>1. wo[o].verified_at # Never
      BY <2>1, <2>3 DEF TrailEnds
    <3>2. QED
      BY <2>3, <3>1, CommitOnTrail
      DEF Leaves, Records, Certifies, IsEvidence, EvidenceActions
  <2>4. QED
    BY <1>3, <2>2, <2>3
<1> HIDE DEF Corrects
<1>4. ASSUME NEW i \in 2 .. n + 1, Corrects(audit'[o][i - 1], audit'[o][i])
      PROVE  Accountable(audit'[o][i])
  <2>1. CASE i = n + 1
    <3>1. i - 1 = n /\ n >= 1 /\ audit'[o][n] = audit[o][n]
      BY <1>1, <2>1
    <3>2. QED
      BY <1>1, <1>3, <1>4, <2>1, <3>1
  <2>2. CASE i # n + 1
    <3>1. i \in 2 .. n /\ i \in 1 .. n /\ i - 1 \in 1 .. n
      BY <1>1, <2>2
    <3>2. audit'[o][i] = audit[o][i] /\ audit'[o][i - 1] = audit[o][i - 1]
      BY <1>1, <3>1
    <3>3. QED
      BY <1>2, <1>4, <3>1, <3>2
  <2>3. QED
    BY <2>1, <2>2
<1> HIDE DEF n
<1>5. \A c \in Orders : \A i \in 2 .. Len(audit'[c]) :
        Corrects(audit'[c][i - 1], audit'[c][i]) => Accountable(audit'[c][i])
  BY <1>1, <1>2, <1>4
<1>6. QED
  BY <1>5 DEF CorrectionsAreAccountable, Corrects, Accountable, IsEvidence

TrailInv == /\ TrailEnds /\ EvidenceChain
            /\ VerificationIsCurrent /\ CorrectionsAreAccountable

LEMMA TrailInvInit == Init => TrailInv
BY NullsAreDistinct
DEF Init, TableInit, NoRow, TrailInv, TrailEnds, EvidenceChain,
    VerificationIsCurrent, CorrectionsAreAccountable

LEMMA TrailInvStep ==
  TypeOK /\ ReadsStayValid /\ RowInv /\ TrailInv /\ [Next]_vars => TrailInv'
<1> SUFFICES ASSUME TypeOK, ReadsStayValid, RowInv, TrailInv, [Next]_vars
             PROVE  TrailInv'
  OBVIOUS
<1>1. CASE UNCHANGED <<wo, audit>>
  BY <1>1
  DEF TrailInv, TrailEnds, EvidenceChain, VerificationIsCurrent,
      CorrectionsAreAccountable, Last, IsEvidence, Snapshot, Accountable
<1>2. CASE Serial!Next
  <2>1. PICK o \in Orders : \E r, e : Commits(o, r, e)
    BY <1>2, BoardCommits
  <2>2. PICK r, e : Commits(o, r, e)
    BY <2>1
  <2>3. QED
    BY <2>2, TrailEndsStep, EvidenceChainStep, VerificationStep, AccountableStep
    DEF TrailInv, RowInv, TypeOK
<1>3. QED
  BY <1>1, <1>2, StepRefines DEF Serial!vars

LEMMA TrailInvariant == Spec => []TrailInv
BY TypeInit, TypeStep, ReadsInit, ReadsStep, RowInvInit, RowInvStep,
   TrailInvInit, TrailInvStep, PTL DEF Spec

\* The evidence columns of every order can be replayed from its trail: no
\* interleaving loses an update or records a snapshot that was never held.
THEOREM ReplayableEvidence == Spec => []EvidenceChain
BY TrailInvariant, PTL DEF TrailInv

\* A standing verification is the last thing that happened to its order.
THEOREM CurrentVerification == Spec => []VerificationIsCurrent
BY TrailInvariant, PTL DEF TrailInv

\* Only planners and administrators who give a reason replace recorded
\* evidence or a standing verification.
THEOREM AccountableCorrections == Spec => []CorrectionsAreAccountable
BY TrailInvariant, PTL DEF TrailInv

-----------------------------------------------------------------------------
(* Closed orders.                                                          *)

LEMMA ClosureKept ==
  ASSUME TableTypeOK, FollowUpHasCompletedParent,
         NEW o \in Orders, NEW r, NEW e, Commits(o, r, e)
  PROVE  /\ wo[o].status # "absent" => r.parent = wo[o].parent
         /\ Settled(o) => /\ r.status = wo[o].status
                          /\ r.closed_at = wo[o].closed_at
                          /\ r.completed_by = wo[o].completed_by
<1>1. wo[o] \in Row /\ Now(o) \in Nat
  BY NowTyped DEF TableTypeOK
<1>2. CASE wo[o].status = "absent" /\ (Creates(r, e) \/ FollowsUp(r, e))
  BY <1>2 DEF Settled, Terminal
<1>3. CASE Updates(o, r, e)
  <2>1. PICK p \in UpdatePayloads :
          UpdateAllowed(wo[o], p) /\ r = UpdatedRow(wo[o], p, Now(o))
    BY <1>3 DEF Updates
  <2>2. r.parent = wo[o].parent
    BY <1>1, <2>1, UpdatedRowColumns
  <2>3. QED
    BY <2>1, <2>2 DEF UpdateAllowed, Settled, Active, Terminal
<1>4. CASE Completes(o, r, e)
  <2>1. PICK u \in Users, p \in OutcomePayloads :
          OutcomeAllowed(wo[o], u, p) /\ r = CompletedRow(wo[o], u, p, Now(o))
    BY <1>4 DEF Completes
  <2>2. Settled(o) => wo[o].status = "completed"
    BY <2>1 DEF OutcomeAllowed, Settled, Active, Terminal
  <2>3. QED
    BY <1>1, <2>1, <2>2, CompletedRowColumns
<1>5. CASE Verifies(o, r, e)
  BY <1>1, <1>5, VerifiedRowColumns DEF Verifies
<1>6. QED
  BY <1>2, <1>3, <1>4, <1>5 DEF Commits

\* An identifier no row carries has no parent.
AbsentHasNoParent ==
  \A o \in Orders : wo[o].status = "absent" => wo[o].parent = None

LEMMA AbsentStep ==
  ASSUME TableTypeOK, AbsentHasNoParent, NEW o \in Orders, NEW r, NEW e, Commits(o, r, e)
  PROVE  AbsentHasNoParent'
<1>1. wo'[o] = r /\ \A c \in Orders \ {o} : wo'[c] = wo[c]
  BY RowAfter DEF Commits
<1>2. wo[o] \in Row /\ Now(o) \in Nat
  BY NowTyped DEF TableTypeOK
<1>3. r.status # "absent"
  <2>1. Creates(r, e) \/ FollowsUp(r, e) => r.status = "open"
    BY FreshRowColumns DEF Creates, FollowsUp
  <2>2. Updates(o, r, e) => r.status \in Active \cup {"cancelled"}
    BY <1>2, UpdatedRowColumns DEF Updates
  <2>3. Completes(o, r, e) => r.status = "completed"
    BY <1>2, CompletedRowColumns DEF Completes
  <2>4. Verifies(o, r, e) => r.status = "completed"
    BY <1>2, VerifiedRowColumns DEF Verifies, VerifyAllowed
  <2>5. QED
    BY <2>1, <2>2, <2>3, <2>4 DEF Commits, Active
<1>4. QED
  BY <1>1, <1>3 DEF AbsentHasNoParent

LEMMA AbsentInit == Init => AbsentHasNoParent
BY DEF Init, TableInit, NoRow, AbsentHasNoParent

LEMMA AbsentNext ==
  TypeOK /\ ReadsStayValid /\ AbsentHasNoParent /\ [Next]_vars => AbsentHasNoParent'
<1> SUFFICES ASSUME TypeOK, ReadsStayValid, AbsentHasNoParent, [Next]_vars
             PROVE  AbsentHasNoParent'
  OBVIOUS
<1>1. CASE UNCHANGED <<wo, audit>>
  BY <1>1 DEF AbsentHasNoParent
<1>2. CASE Serial!Next
  <2>1. PICK o \in Orders : \E r, e : Commits(o, r, e)
    BY <1>2, BoardCommits
  <2>2. QED
    BY <2>1, AbsentStep DEF TypeOK
<1>3. QED
  BY <1>1, <1>2, StepRefines DEF Serial!vars

LEMMA ClosureFinalStep ==
  TypeOK /\ ReadsStayValid /\ RowInv /\ AbsentHasNoParent /\ [Next]_vars =>
    [\A o \in Orders :
       /\ wo[o].parent # None => wo'[o].parent = wo[o].parent
       /\ Settled(o) => /\ wo'[o].status = wo[o].status
                        /\ wo'[o].closed_at = wo[o].closed_at
                        /\ wo'[o].completed_by = wo[o].completed_by]_<<wo, audit>>
<1> SUFFICES ASSUME TypeOK, ReadsStayValid, RowInv, AbsentHasNoParent, Serial!Next,
                    NEW c \in Orders
             PROVE  /\ wo[c].parent # None => wo'[c].parent = wo[c].parent
                    /\ Settled(c) => /\ wo'[c].status = wo[c].status
                                     /\ wo'[c].closed_at = wo[c].closed_at
                                     /\ wo'[c].completed_by = wo[c].completed_by
  BY StepRefines DEF Serial!vars
<1>1. PICK o \in Orders : \E r, e : Commits(o, r, e)
  BY BoardCommits
<1>2. PICK r, e : Commits(o, r, e)
  BY <1>1
<1>3. wo'[o] = r /\ \A d \in Orders \ {o} : wo'[d] = wo[d]
  BY <1>2, RowAfter DEF Commits, TypeOK
<1>4. CASE c = o
  BY <1>2, <1>3, <1>4, ClosureKept DEF RowInv, TypeOK, AbsentHasNoParent
<1>5. CASE c # o
  BY <1>3, <1>5
<1>6. QED
  BY <1>4, <1>5

\* No request, whatever it raced with, reopens a closed order, moves the
\* instant it was closed or who completed it, or detaches a follow-up.
THEOREM FinalClosure == Spec => ClosureIsFinal
BY TypeInit, TypeStep, ReadsInit, ReadsStep, RowInvInit, RowInvStep,
   AbsentInit, AbsentNext, ClosureFinalStep, PTL DEF Spec, ClosureIsFinal
=============================================================================
