--------------------------- MODULE WorkOrderBoard ---------------------------
(***************************************************************************)
(* What the work-order API promises: every call behaves as if it ran       *)
(* alone.  Each operation that changes anything is one step that checks    *)
(* its conditions against the current rows and commits its row together    *)
(* with its audit event.  WorkOrderSessions implements this module with    *)
(* concurrent database transactions.                                       *)
(***************************************************************************)
EXTENDS WorkOrders

vars == <<wo, audit>>

Init == TableInit

\* POST /work-orders, and the auto-generated order (no actor).
Create(o) ==
  /\ wo[o].status = "absent"
  /\ \E owner \in Staff \cup {None} :
       Store(o, NewRow(owner), PlainEvent("created"))

\* PATCH /work-orders/{o}.
Update(o) ==
  \E p \in UpdatePayloads :
    /\ UpdateAllowed(wo[o], p)
    /\ Store(o, UpdatedRow(wo[o], p, Now(o)), PlainEvent("updated"))

\* POST /work-orders/{o}/outcome.
RecordOutcome(o) ==
  \E u \in Users, p \in OutcomePayloads :
    LET r == CompletedRow(wo[o], u, p, Now(o)) IN
    /\ OutcomeAllowed(wo[o], u, p)
    /\ Store(o, r, EvidenceEvent("outcome_recorded", u, wo[o], r, p.reason))

\* POST /work-orders/{o}/verification.
Verify(o) ==
  \E u \in Users, v \in VerificationPayloads :
    LET r == VerifiedRow(wo[o], u, v, Now(o)) IN
    /\ VerifyAllowed(wo[o], u, v)
    /\ Store(o, r, EvidenceEvent("repair_verified", u, wo[o], r, v.reason))

\* POST /work-orders/{o}/follow-up, when it creates the child c.
FollowUp(o, c) ==
  /\ FollowUpAllowed(wo[o])
  /\ OpenFollowUps(o) = {}
  /\ wo[c].status = "absent"
  /\ Store(c, FollowUpRow(o), PlainEvent("follow_up_created"))

Next ==
  \E o \in Orders :
    \/ Create(o) \/ Update(o) \/ RecordOutcome(o) \/ Verify(o)
    \/ \E c \in Orders : FollowUp(o, c)

Spec == Init /\ [][Next]_vars
=============================================================================
