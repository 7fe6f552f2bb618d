---------------------------- MODULE MCWorkOrders ----------------------------
(* Small instances of WorkOrderSessions for TLC.                           *)
EXTENDS WorkOrderSessions, TLC

CONSTANTS tech, planner

\* One user who may only work, one who may also correct.
MCTokenRole == (tech :> "technician") @@ (planner :> "planner")

MCConditions == {"serviceable", "restricted"}

\* Requests are interchangeable and so are unused identifiers.
MCSymmetry == Permutations(Sessions) \cup Permutations(Orders)
=============================================================================
