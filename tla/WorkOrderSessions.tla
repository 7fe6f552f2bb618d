------------------------- MODULE WorkOrderSessions -------------------------
(***************************************************************************)
(* The work-order handlers as the web workers run them: each request owns  *)
(* a session (core/db.get_db), its first statement is SELECT ... FOR       *)
(* UPDATE on the row it is about, it decides on the copy that statement    *)
(* returned, reads other rows without locking them, and commits at the     *)
(* end.  READ COMMITTED: a plain SELECT sees what is committed when it     *)
(* runs, and nothing keeps it true afterwards.                             *)
(*                                                                         *)
(* Which of the four locking handlers a session runs shows only once its   *)
(* lock is granted, because up to there they execute the same statement.   *)
(***************************************************************************)
EXTENDS WorkOrders

CONSTANTS
  Sessions,   \* concurrent requests
  MaxEvents   \* bound: audit events recorded in one behaviour

VARIABLES
  tx,         \* tx[s]: what the request in session s has read so far
  lock,       \* lock[o]: the session whose transaction holds row o, or None
  assignable  \* staff whose user row is active with a maintenance role

vars == <<wo, audit, tx, lock, assignable>>

ASSUME SessionsAreNotNull == None \notin Sessions
ASSUME MaxEventsIsNatural == MaxEvents \in Nat

Idle == [pc |-> "idle", order |-> None, row |-> NoRow, owner |-> None]

Transaction ==
  [pc : {"idle", "waiting", "locked", "owner_checked", "no_open_child"},
   order : Orders \cup {None}, row : Row, owner : Staff \cup {None}]

Holding == {"locked", "owner_checked", "no_open_child"}

\* Bound MaxEvents on the length of all histories together.
Recorded == {e \in Orders \X (1 .. MaxEvents) : e[2] <= Len(audit[e[1]])}
HasRoom == Cardinality(Recorded) < MaxEvents

Init ==
  /\ TableInit
  /\ tx = [s \in Sessions |-> Idle]
  /\ lock = [o \in Orders |-> None]
  /\ assignable = Staff

-----------------------------------------------------------------------------
(* The statements of a request.                                            *)

\* create_work_order: insert, flush, audit and commit touch no existing row.
Create(o) ==
  /\ HasRoom
  /\ wo[o].status = "absent"
  /\ \E owner \in Staff \cup {None} :
       Store(o, NewRow(owner), PlainEvent("created"))
  /\ UNCHANGED <<tx, lock, assignable>>

\* A request about o reaches its SELECT ... FOR UPDATE.
Submit(s, o) ==
  /\ tx[s].pc = "idle"
  /\ tx' = [tx EXCEPT ![s].pc = "waiting", ![s].order = o]
  /\ UNCHANGED <<wo, audit, lock, assignable>>

\* Mutant: the select without FOR UPDATE.
NoRowLock(o) == TRUE

LockIsFree(o) == lock[o] = None

\* The select returns the row and the transaction holds it.
Acquire(s) ==
  LET o == tx[s].order IN
  /\ tx[s].pc = "waiting"
  /\ wo[o].status # "absent"
  /\ LockIsFree(o)
  /\ lock' = [lock EXCEPT ![o] = s]
  /\ tx' = [tx EXCEPT ![s].pc = "locked", ![s].row = wo[o]]
  /\ UNCHANGED <<wo, audit, assignable>>

\* The select returns no row: 404, nothing is held.
NotFound(s) ==
  /\ tx[s].pc = "waiting"
  /\ wo[tx[s].order].status = "absent"
  /\ tx' = [tx EXCEPT ![s] = Idle]
  /\ UNCHANGED <<wo, audit, lock, assignable>>

\* Mutant: the session is never closed.
LockKept(s) == lock

Unlocked(s) == [lock EXCEPT ![tx[s].order] = None]

\* The transaction ends and its locks go with it.
End(s) ==
  /\ tx' = [tx EXCEPT ![s] = Idle]
  /\ lock' = Unlocked(s)
  /\ UNCHANGED assignable

\* Commit the session's row with its audit event.
Commit(s, r, e) == HasRoom /\ Store(tx[s].order, r, e) /\ End(s)

\* update_work_order reads the new owner's user row, without locking it.
CheckOwner(s) ==
  /\ tx[s].pc = "locked"
  /\ tx[s].row.status \in Active
  /\ \E owner \in assignable :
       tx' = [tx EXCEPT ![s].pc = "owner_checked", ![s].owner = owner]
  /\ UNCHANGED <<wo, audit, lock, assignable>>

\* The rest of update_work_order; a payload naming an owner was checked.
Update(s) ==
  \E p \in UpdatePayloads :
    /\ \/ tx[s].pc = "locked" /\ p.assigned_to \in {None, Keep}
       \/ tx[s].pc = "owner_checked" /\ p.assigned_to = tx[s].owner
    /\ UpdateAllowed(tx[s].row, p)
    /\ Commit(s, UpdatedRow(tx[s].row, p, Now(tx[s].order)), PlainEvent("updated"))

RecordOutcome(s) ==
  /\ tx[s].pc = "locked"
  /\ \E u \in Users, p \in OutcomePayloads :
       LET old == tx[s].row
           new == CompletedRow(old, u, p, Now(tx[s].order)) IN
       /\ OutcomeAllowed(old, u, p)
       /\ Commit(s, new, EvidenceEvent("outcome_recorded", u, old, new, p.reason))

Verify(s) ==
  /\ tx[s].pc = "locked"
  /\ \E u \in Users, v \in VerificationPayloads :
       LET old == tx[s].row
           new == VerifiedRow(old, u, v, Now(tx[s].order)) IN
       /\ VerifyAllowed(old, u, v)
       /\ Commit(s, new, EvidenceEvent("repair_verified", u, old, new, v.reason))

\* follow_up looks for an open child, without locking it.  If there is one
\* it is returned and the session closes (Rollback); otherwise:
FindNoOpenFollowUp(s) ==
  /\ tx[s].pc = "locked"
  /\ FollowUpAllowed(tx[s].row)
  /\ OpenFollowUps(tx[s].order) = {}
  /\ tx' = [tx EXCEPT ![s].pc = "no_open_child"]
  /\ UNCHANGED <<wo, audit, lock, assignable>>

\* ... the child is inserted with its audit event and committed.
CreateFollowUp(s) ==
  /\ tx[s].pc = "no_open_child"
  /\ HasRoom
  /\ \E c \in Orders :
       /\ wo[c].status = "absent"
       /\ Store(c, FollowUpRow(tx[s].order), PlainEvent("follow_up_created"))
  /\ End(s)

\* Every way out without a commit: 403, 409 and 422 raised after the lock,
\* the existing follow-up returned, a lost connection, a killed worker.
Rollback(s) ==
  /\ tx[s].pc \in Holding
  /\ End(s)
  /\ UNCHANGED <<wo, audit>>

\* user.services.update_user changes is_active or role of a user.
ChangeUser(u) ==
  /\ assignable' = IF u \in assignable THEN assignable \ {u}
                   ELSE assignable \cup {u}
  /\ UNCHANGED <<wo, audit, tx, lock>>

Proceed(s) ==
  \/ CheckOwner(s) \/ Update(s) \/ RecordOutcome(s) \/ Verify(s)
  \/ FindNoOpenFollowUp(s) \/ CreateFollowUp(s) \/ Rollback(s)

Next ==
  \/ \E o \in Orders : Create(o)
  \/ \E s \in Sessions, o \in Orders : Submit(s, o)
  \/ \E s \in Sessions : Acquire(s) \/ NotFound(s) \/ Proceed(s)
  \/ \E u \in Staff : ChangeUser(u)

Spec == Init /\ [][Next]_vars

\* PostgreSQL queues the waiters of a row lock, and a handler that was
\* granted its lock runs to a return or a raise, after which get_db closes
\* the session.  Clients owe nothing: Submit and Create are not fair.
Fairness ==
  \A s \in Sessions :
    SF_vars(Acquire(s)) /\ WF_vars(NotFound(s)) /\ WF_vars(Proceed(s))

FairSpec == Spec /\ Fairness

-----------------------------------------------------------------------------
(* Properties.                                                             *)

\* Type invariant.
TypeOK ==
  /\ TableTypeOK
  /\ tx \in [Sessions -> Transaction]
  /\ \A s \in Sessions : tx[s].pc # "idle" => tx[s].order \in Orders
  /\ lock \in [Orders -> Sessions \cup {None}]
  /\ assignable \subseteq Staff

\* What a request holds between its statements: a session past the select is
\* the only holder of its row, decides on a copy that is still the committed
\* row, and, when it found no open follow-up, there still is none.
ReadsStayValid ==
  \A s \in Sessions :
    tx[s].pc \in Holding =>
      /\ lock[tx[s].order] = s
      /\ tx[s].row = wo[tx[s].order] /\ tx[s].row.status # "absent"
      /\ tx[s].pc = "no_open_child" =>
           FollowUpAllowed(tx[s].row) /\ OpenFollowUps(tx[s].order) = {}

\* Concurrent sessions are indistinguishable from one request at a time.
Serial == INSTANCE WorkOrderBoard
ImplementsBoard == Serial!Spec

\* "Choose an active maintenance user in this organisation" (services.py:83):
\* whoever an update makes the owner is one when the update commits.  The
\* code checks an unlocked user row in an earlier statement.
UpdateAssignsActiveUser ==
  [][\A o \in Orders :
       /\ wo[o].status # "absent"
       /\ wo'[o].assigned_to \notin {None, wo[o].assigned_to}
       => wo'[o].assigned_to \in assignable]_vars

\* Every request that was submitted is answered and leaves no lock behind.
EveryRequestEnds ==
  \A s \in Sessions : tx[s].pc # "idle" ~> tx[s].pc = "idle"
=============================================================================
