----------------------------- MODULE WorkOrders -----------------------------
(***************************************************************************)
(* The work_order table, its audit trail, and what each maintenance        *)
(* operation does to one row: app/work_order/{models,schemas,services,     *)
(* outcomes}.py and app/audit/services.py.                                 *)
(*                                                                         *)
(* This module has no behaviour of its own.  WorkOrderBoard performs each  *)
(* operation in one step; WorkOrderSessions performs it the way the web    *)
(* workers do, as a database transaction of several statements.            *)
(*                                                                         *)
(* Time: datetime.now() is the number of the audit event that the same     *)
(* transaction writes for that row, so "later" is "recorded later in the   *)
(* row's own history".  Free text (title, notes, root cause, ...),         *)
(* priority, the order's own due date and its links to pump, station,      *)
(* alert and prediction are data no property distinguishes.                *)
(***************************************************************************)
EXTENDS Naturals, Sequences, FiniteSets

CONSTANTS
  Orders,        \* identifiers a work order may get
  Users,         \* users of the tenant whose token passes MANAGE_WORK_ORDERS
  Staff,         \* users that payloads name as owner of a work order
  TokenRole,     \* the role claim of each user's access token
  DueDates,      \* follow-up due dates a payload may carry
  OutcomeLabels, \* OutcomeLabel of schemas.py
  Conditions,    \* Condition of schemas.py; contains "serviceable"
  None,          \* SQL NULL
  Keep           \* a field the PATCH body leaves unset (exclude_unset)

VARIABLES
  wo,            \* wo[o]: the committed row of work order o
  audit          \* audit[o]: the committed audit events of o, oldest first

Statuses == {"open", "in_progress", "completed", "cancelled"}
Active == {"open", "in_progress"}
Terminal == {"completed", "cancelled"}
Results == {"passed", "failed", "inconclusive"}
EvidenceActions == {"outcome_recorded", "repair_verified"}

\* Roles of core/permissions.py that hold MANAGE_WORK_ORDERS.
MaintenanceRoles == {"technician", "planner", "admin"}

ASSUME NullsAreDistinct ==
  /\ None \notin Users \cup Staff \cup Orders
  /\ None \notin DueDates \cup OutcomeLabels \cup Conditions
  /\ Keep \notin Staff \cup Statuses
  /\ None # Keep
  /\ None \notin Statuses \cup Results
ASSUME TokensCarryMaintenanceRoles == TokenRole \in [Users -> MaintenanceRoles]

Never == 0

Row == [status : Statuses \cup {"absent"},
        assigned_to : Staff \cup {None},
        parent : Orders \cup {None},
        closed_at : Nat,
        completed_by : Users \cup {None},
        outcome : OutcomeLabels \cup {None},
        condition : Conditions \cup {None},
        follow_up_required : BOOLEAN,
        follow_up_due_at : DueDates \cup {None},
        verified_at : Nat,
        verified_by : Users \cup {None},
        verification_result : Results \cup {None}]

\* An identifier no row carries yet.
NoRow == [status |-> "absent", assigned_to |-> None, parent |-> None,
          closed_at |-> Never, completed_by |-> None,
          outcome |-> None, condition |-> None,
          follow_up_required |-> FALSE, follow_up_due_at |-> None,
          verified_at |-> Never, verified_by |-> None,
          verification_result |-> None]

\* outcomes.snapshot: the EVIDENCE columns as the audit event stores them.
Snapshot(r) ==
  [closed_at |-> r.closed_at, completed_by |-> r.completed_by,
   outcome |-> r.outcome, condition |-> r.condition,
   follow_up_required |-> r.follow_up_required,
   follow_up_due_at |-> r.follow_up_due_at,
   verified_at |-> r.verified_at, verified_by |-> r.verified_by,
   verification_result |-> r.verification_result]

Evidence == [closed_at : Nat, completed_by : Users \cup {None},
             outcome : OutcomeLabels \cup {None},
             condition : Conditions \cup {None},
             follow_up_required : BOOLEAN,
             follow_up_due_at : DueDates \cup {None},
             verified_at : Nat, verified_by : Users \cup {None},
             verification_result : Results \cup {None}]

\* Actor, evidence and reason are kept for the two evidence actions; of the
\* other events no property reads more than the action.
Event == [action : EvidenceActions \cup {"created", "updated", "follow_up_created"},
          actor : Users \cup {None},
          before : Evidence, after : Evidence, reason : BOOLEAN]

PlainEvent(action) ==
  [action |-> action, actor |-> None, before |-> Snapshot(NoRow),
   after |-> Snapshot(NoRow), reason |-> FALSE]

EvidenceEvent(action, u, old, new, reason) ==
  [action |-> action, actor |-> u, before |-> Snapshot(old),
   after |-> Snapshot(new), reason |-> reason]

-----------------------------------------------------------------------------
(* Request bodies that pass the pydantic schemas.                          *)

UpdatePayloads == [status : Statuses \cup {None, Keep},
                   assigned_to : Staff \cup {None, Keep}]

\* The follow_up validator: a due date exactly when follow-up is required.
OutcomePayloads ==
  {p \in [outcome : OutcomeLabels, condition : Conditions,
          follow_up_required : BOOLEAN,
          follow_up_due_at : DueDates \cup {None}, reason : BOOLEAN] :
     p.follow_up_required <=> p.follow_up_due_at # None}

VerificationPayloads == [result : Results, reason : BOOLEAN]

-----------------------------------------------------------------------------
(* What the handlers check and what they write.                            *)

Unless(p, old) == IF p = Keep THEN old ELSE p

NewRow(owner) == [NoRow EXCEPT !.status = "open", !.assigned_to = owner]

\* Mutant: the check for completed and cancelled rows is gone.
UpdateAnyRow(r, p) == r.status # "absent" /\ p.status \notin {"completed", None}

UpdateAllowed(r, p) ==
  /\ r.status \in Active
  /\ p.status \notin {"completed", None}

\* closed_at is stamped on cancellation and cleared by an active status.
UpdatedRow(r, p, now) ==
  [r EXCEPT !.status = Unless(p.status, @),
            !.assigned_to = Unless(p.assigned_to, @),
            !.closed_at = IF p.status = "cancelled" /\ @ = Never THEN now
                          ELSE IF p.status \in Active THEN Never ELSE @]

\* Mutant: "and" for "or" in the test that refuses.
RoleOrReason(u, reason, already_recorded) ==
  already_recorded => TokenRole[u] \in {"admin", "planner"} \/ reason

CorrectionAllowed(u, reason, already_recorded) ==
  already_recorded => TokenRole[u] \in {"admin", "planner"} /\ reason

OutcomeAllowed(r, u, p) ==
  /\ r.status \in Active \cup {"completed"}
  /\ CorrectionAllowed(u, p.reason, r.outcome # None)

\* A correction keeps who completed the work and when, and withdraws the
\* verification of the evidence it replaces.
Completed(r, p, closed_at, completed_by) ==
  [status |-> "completed", assigned_to |-> r.assigned_to, parent |-> r.parent,
   closed_at |-> closed_at, completed_by |-> completed_by,
   outcome |-> p.outcome, condition |-> p.condition,
   follow_up_required |-> p.follow_up_required,
   follow_up_due_at |-> p.follow_up_due_at,
   verified_at |-> Never, verified_by |-> None, verification_result |-> None]

\* Mutant: a correction leaves the verification standing.
KeepVerification(r, u, p, now) ==
  LET done == r.status = "completed" IN
  [Completed(r, p, IF done THEN r.closed_at ELSE now,
             IF done THEN r.completed_by ELSE u) EXCEPT
     !.verified_at = r.verified_at, !.verified_by = r.verified_by,
     !.verification_result = r.verification_result]

\* Mutant: closed_at and completed_by are stamped by corrections too.
RestampClosure(r, u, p, now) == Completed(r, p, now, u)

CompletedRow(r, u, p, now) ==
  IF r.status = "completed"
  THEN Completed(r, p, r.closed_at, r.completed_by)
  ELSE Completed(r, p, now, u)

VerifyAllowed(r, u, v) ==
  /\ r.status = "completed" /\ r.outcome # None
  /\ CorrectionAllowed(u, v.reason, r.verified_at # Never)
  /\ v.result = "passed" => r.condition = "serviceable"

\* Mutant: a failed verification does not ask for a follow-up.
FailedNeedsNothing(r, u, v, now) ==
  [r EXCEPT !.verified_at = now, !.verified_by = u,
            !.verification_result = v.result]

VerifiedRow(r, u, v, now) ==
  [r EXCEPT !.verified_at = now, !.verified_by = u,
            !.verification_result = v.result,
            !.follow_up_required = @ \/ v.result = "failed"]

FollowUpAllowed(r) == r.status = "completed" /\ r.follow_up_required

FollowUpRow(o) == [NoRow EXCEPT !.status = "open", !.parent = o]

OpenFollowUps(o) == {c \in Orders : wo[c].parent = o /\ wo[c].status \in Active}

\* The number of the event a transaction on o is about to record.
Now(o) == Len(audit[o]) + 1

\* Replace the row of o and append the event, as one commit.
Store(o, r, e) ==
  /\ wo' = [wo EXCEPT ![o] = r]
  /\ audit' = [audit EXCEPT ![o] = Append(@, e)]

TableInit == /\ wo = [o \in Orders |-> NoRow]
             /\ audit = [o \in Orders |-> <<>>]

-----------------------------------------------------------------------------
(* Properties of the committed rows and their histories.                   *)

\* Type invariant of the work_order table and the audit trail.
TableTypeOK == /\ wo \in [Orders -> Row]
               /\ audit \in [Orders -> Seq(Event)]

Settled(o) == wo[o].status \in Terminal

Last(log) == log[Len(log)]

IsEvidence(e) == e.action \in EvidenceActions

\* A parent never has two follow-ups that are still to be done, although
\* follow_up checks for one and inserts another in separate statements and
\* any other request may open, close or re-plan orders in between.
OneOpenFollowUp ==
  \A c, d \in Orders :
    /\ wo[c].status \in Active /\ wo[d].status \in Active
    /\ wo[c].parent = wo[d].parent /\ wo[c].parent # None
    => c = d

\* "Follow-up work requires a due date" (schemas.py:53).  The code lets a
\* failed verification require follow-up work without one.
FollowUpHasDueDate ==
  \A o \in Orders : wo[o].follow_up_required => wo[o].follow_up_due_at # None

\* The columns that tell a closed order agree: closed_at is set exactly on
\* completed and cancelled rows, and a row is completed exactly when it
\* carries an outcome and the user who completed it.
ClosureIsConsistent ==
  \A o \in Orders :
    /\ Settled(o) <=> wo[o].closed_at # Never
    /\ wo[o].status = "completed" <=> wo[o].outcome # None
    /\ wo[o].status = "completed" <=> wo[o].completed_by # None

\* The evidence columns can be replayed from the trail: each evidence event
\* starts from what the previous one left, and the last one left what the
\* row holds now.  A lost update or a snapshot taken too late breaks it.
EvidenceChain ==
  \A o \in Orders : LET log == audit[o] IN
    /\ \A i \in 2 .. Len(log) :
         IsEvidence(log[i - 1]) =>
           IsEvidence(log[i]) /\ log[i].before = log[i - 1].after
    /\ wo[o].status = "completed" =>
         /\ log # <<>> /\ IsEvidence(Last(log))
         /\ Last(log).after = Snapshot(wo[o])

\* "Editing the evidence invalidates previous verification without erasing
\* its audit event" (outcomes.py:46): a standing verification is the last
\* thing that happened to its order, whoever corrected what meanwhile.
VerificationIsCurrent ==
  \A o \in Orders :
    wo[o].verified_at # Never =>
      /\ wo[o].verified_at = Len(audit[o])
      /\ Last(audit[o]).action = "repair_verified"
      /\ Last(audit[o]).after.verification_result = wo[o].verification_result

\* A standing verdict fits the record it is about, after any number of
\* corrections: passed needs a serviceable condition, failed needs rework.
VerdictFitsRecord ==
  \A o \in Orders :
    /\ wo[o].verification_result = "passed" => wo[o].condition = "serviceable"
    /\ wo[o].verification_result = "failed" => wo[o].follow_up_required

Accountable(e) == TokenRole[e.actor] \in {"admin", "planner"} /\ e.reason

\* Whoever replaces recorded evidence or a standing verification is a planner
\* or an administrator and gave a reason: read off the trail, where the first
\* outcome and a verification that follows an outcome need neither.
CorrectionsAreAccountable ==
  \A o \in Orders : \A i \in 2 .. Len(audit[o]) :
    LET log == audit[o] IN
    \/ log[i].action = "outcome_recorded" /\ IsEvidence(log[i - 1])
    \/ log[i].action = "repair_verified" /\ log[i - 1].action = "repair_verified"
    => Accountable(log[i])

\* A follow-up only exists under completed work, for as long as it exists.
FollowUpHasCompletedParent ==
  \A c \in Orders :
    wo[c].parent # None => wo[wo[c].parent].status = "completed"

\* No step takes an order out of a terminal status, moves the instant it was
\* closed or who completed it, or detaches a follow-up from its parent.
ClosureIsFinal ==
  [][\A o \in Orders :
       /\ wo[o].parent # None => wo'[o].parent = wo[o].parent
       /\ Settled(o) => /\ wo'[o].status = wo[o].status
                        /\ wo'[o].closed_at = wo[o].closed_at
                        /\ wo'[o].completed_by = wo[o].completed_by]_<<wo, audit>>
=============================================================================
