--------------------------- MODULE MCIncidentDesk ---------------------------
(* Small instances of IncidentDesk for TLC.                                *)
EXTENDS IncidentDesk, TLC

\* Minutes: the defaults, and a stricter choice whose deadlines coincide.
MCDefaults == [v \in Severities |-> [acknowledge |-> 1, response |-> 2]]
MCStrict == [v \in Severities |-> [acknowledge |-> 1, response |-> 1]]
MCSchedules == {MCDefaults, MCStrict}

MCSymmetry == Permutations(Requests) \cup Permutations(Alerts)
=============================================================================
