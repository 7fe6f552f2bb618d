------------------------- MODULE MCTelemetryIngest -------------------------
(* A small instance of IngestAlone for TLC; cfg gives every constant.      *)
EXTENDS IngestAlone, TLC
=============================================================================
