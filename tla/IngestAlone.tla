---------------------------- MODULE IngestAlone ----------------------------
(***************************************************************************)
(* TelemetryIngest with a history variable: were two requests ever under   *)
(* way together?  The counters of a connector are read without a lock      *)
(* (ingest, app/telemetry/services.py), so they are exact, and deliveries  *)
(* never conflict, only as long as none were.                              *)
(***************************************************************************)
EXTENDS TelemetryIngest

VARIABLE overlap   \* history: two requests have been under way together

trackedVars == <<vars, overlap>>

Together == \E s, t \in Sessions : s # t /\ tx[s].pc # "idle" /\ tx[t].pc # "idle"

TrackedInit == Init /\ overlap = FALSE

TrackedNext == Next /\ overlap' = (overlap \/ Together')

TrackedSpec == TrackedInit /\ [][TrackedNext]_trackedVars /\ Fairness

-----------------------------------------------------------------------------
(* Properties.                                                             *)

\* Requests that come one at a time, crashes and retries included, leave exact
\* counters: nothing is counted twice or forgotten.
CountersExactAlone == ~overlap => CountersAreExact

\* Requests that come one at a time never conflict: neither a retry of a whole
\* batch nor an event repeated inside one runs into the unique constraint or
\* into a counter that is None.  An envelope whose two times cannot be compared
\* still fails its batch, and every retry of it.
RedeliveryNeverConflictsAlone == ~overlap => RedeliveryNeverConflicts
=============================================================================
