------------------------ MODULE MCMedallionPipeline ------------------------
(* Small instances of MedallionPipeline for TLC.                           *)
EXTENDS MedallionPipeline

\* A healthy reading and one on the far side of each bound of the gate.
Healthy == [current |-> 1, temperature |-> 200]
Idling == [current |-> 0, temperature |-> 0]
Overheated == [current |-> 1, temperature |-> 201]

MCMeasurements == {Healthy, Idling, Overheated}
MCCleanOnly == {Healthy}
\* On and beyond the upper bound of the weather gate.
MCTemperatures == {60, 61}
MCMild == {60}
=============================================================================
