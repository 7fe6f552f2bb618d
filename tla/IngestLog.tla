----------------------------- MODULE IngestLog -----------------------------
(***************************************************************************)
(* What telemetry ingestion promises its callers, whatever the batches,    *)
(* retries and concurrent requests are (app/telemetry/services.py,         *)
(* ingest): a log per connector to which a batch adds all of its new       *)
(* events at once, under the verdict of the first delivery that was        *)
(* committed.  Nothing in the log ever changes.                            *)
(***************************************************************************)
CONSTANTS Connectors, Events, Verdicts

VARIABLE log   \* log[c]: the records [event, verdict] of connector c

Entry == [event : Events, verdict : Verdicts]

Ids(R) == {r.event : r \in R}

OncePerEvent(R) == \A a, b \in R : a.event = b.event => a = b

Init == log = [c \in Connectors |-> {}]

StoreBatch(c) ==
  \E batch \in SUBSET Entry :
    /\ batch # {} /\ OncePerEvent(batch)
    /\ Ids(batch) \cap Ids(log[c]) = {}
    /\ log' = [log EXCEPT ![c] = @ \cup batch]

Next == \E c \in Connectors : StoreBatch(c)

Spec == Init /\ [][Next]_log
=============================================================================
