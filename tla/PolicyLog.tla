----------------------------- MODULE PolicyLog -----------------------------
(***************************************************************************)
(* What save_policy of app/incidents/services.py promises: the response    *)
(* deadlines of an organisation are a log of revisions, and each revision  *)
(* replaces exactly the one that its author had seen.                      *)
(***************************************************************************)
EXTENDS Naturals, Sequences

CONSTANT Schedules

VARIABLE log   \* revision r is log[r]

Revision == [deadlines : Schedules, expected : Nat]

Init == log = <<>>

Revise ==
  \E d \in Schedules : log' = Append(log, [deadlines |-> d, expected |-> Len(log)])

Spec == Init /\ [][Revise]_log
=============================================================================
