-------------------------- MODULE TelemetryIngest --------------------------
(***************************************************************************)
(* Telemetry ingestion, app/telemetry/services.py: create_connector and    *)
(* ingest, with enable_connector of routes.py.                             *)
(*                                                                         *)
(* One ingest request is one transaction that loops over a batch of        *)
(* envelopes.  It reads the connector's checkpoint row without a lock,     *)
(* looks each event up, and flushes new records one by one.  A flush first *)
(* writes the checkpoint if it is new or has changed since the last one,   *)
(* then inserts the record (autoflush is off, and the unit of work orders  *)
(* the classes by name); the commit writes connector, then checkpoint.     *)
(* Written rows and index entries stay locked until the transaction ends.  *)
(*                                                                         *)
(* Envelopes are chosen when the loop reaches them: nothing depends on a   *)
(* later one.  Timestamps, units and the remembered payload are left out.  *)
(***************************************************************************)
EXTENDS Naturals, FiniteSets

CONSTANTS
  Connectors, Events,
  Sessions,       \* concurrent ingest requests
  None,           \* no session, no checkpoint row
  MaxBatch,       \* bound: envelopes in one request
  MaxDuplicates   \* bound: duplicates counted before the last batch with envelopes

VARIABLES
  status,         \* status[c]: the connector row
  stored,         \* stored[c]: committed telemetry records of c
  checkpoint,     \* checkpoint[c]: committed counters, or None
  tx,             \* tx[s]: the transaction of request s
  checkpointLock, \* session that wrote c's checkpoint and has not ended, or None
  connectorLock,  \* session that wrote c's connector row, or None
  acknowledged    \* history: <<c, e>> of every envelope answered with 200

vars == <<status, stored, checkpoint, tx, checkpointLock, connectorLock, acknowledged>>

Verdicts == {"accepted", "rejected", "quarantined"}
Statuses == {"absent", "disabled", "healthy"}
Record == [event : Events, verdict : Verdicts]
Counters == [processed : Nat, accepted : Nat, rejected : Nat, duplicates : Nat]

ASSUME NoneIsNull == None \notin Sessions \cup Events \cup Counters
ASSUME Bounds == MaxBatch \in Nat /\ MaxDuplicates \in Nat

Ids(R) == {r.event : r \in R}

Idle == [pc |-> "idle", connector |-> None, read |-> None, left |-> 0,
         event |-> None, verdict |-> "accepted", mine |-> {}, dups |-> 0, seen |-> {}]

\* read: the checkpoint as the request read it; mine: records inserted and
\* not committed; seen: events of the envelopes handled so far.
Transaction ==
  [pc : {"idle", "loop", "flush", "insert", "closing"},
   connector : Connectors \cup {None}, read : Counters \cup {None}, left : Nat,
   event : Events \cup {None}, verdict : Verdicts,
   mine : SUBSET Record, dups : Nat, seen : SUBSET Events]

Init ==
  /\ status = [c \in Connectors |-> "absent"]
  /\ stored = [c \in Connectors |-> {}]
  /\ checkpoint = [c \in Connectors |-> None]
  /\ tx = [s \in Sessions |-> Idle]
  /\ checkpointLock = [c \in Connectors |-> None]
  /\ connectorLock = [c \in Connectors |-> None]
  /\ acknowledged = {}

-----------------------------------------------------------------------------
(* Connectors.                                                             *)

CreateConnector(c) ==
  /\ status[c] = "absent"
  /\ status' = [status EXCEPT ![c] = "disabled"]
  /\ UNCHANGED <<stored, checkpoint, tx, checkpointLock, connectorLock, acknowledged>>

EnableConnector(c) ==
  /\ status[c] # "absent" /\ connectorLock[c] = None
  /\ status' = [status EXCEPT ![c] = "healthy"]
  /\ UNCHANGED <<stored, checkpoint, tx, checkpointLock, connectorLock, acknowledged>>

-----------------------------------------------------------------------------
(* One envelope.                                                           *)

\* mixed: one of observed_at and the receive time names a zone, the other none.
Envelope == [value : BOOLEAN, mixed : BOOLEAN, ahead : BOOLEAN, known : BOOLEAN]

\* Comparing such a pair raises a TypeError, before the event is looked up.
Comparable(p) == ~p.value \/ ~p.mixed

\* The first test that fails decides: no value, observed more than five
\* minutes after it was received, a measurement nobody supports.
Verdict(p) ==
  CASE ~p.value -> "rejected"
    [] p.value /\ p.ahead -> "quarantined"
    [] p.value /\ ~p.ahead /\ ~p.known -> "rejected"
    [] OTHER -> "accepted"

\* Mutant: the lookup ignores rows that are flushed but not yet committed.
CommittedOnly(s) == stored[tx[s].connector]

\* Mutant: the lookup reads uncommitted rows of other transactions.
DirtyRead(s) ==
  stored[tx[s].connector] \cup UNION {tx[t].mine : t \in Sessions}

\* What the duplicate lookup of request s can see.
Visible(s) == stored[tx[s].connector] \cup tx[s].mine

Accepted(R) == {r \in R : r.verdict = "accepted"}

\* Mutant: quarantined records are not counted.
RejectedOnly(R) == {r \in R : r.verdict = "rejected"}

\* Quarantined records are counted as rejected.
Rejected(R) == {r \in R : r.verdict \in {"rejected", "quarantined"}}

\* Mutant: a disabled connector is served.
AnyConnector(c) == status[c] # "absent"

Serves(c) == status[c] \notin {"absent", "disabled"}

\* The request finds its connector enabled and reads the checkpoint.  Bound:
\* once many repetitions are counted, batches are empty.
Begin(s, c) ==
  /\ tx[s].pc = "idle"
  /\ Serves(c)
  /\ \E n \in 0 .. MaxBatch :
       /\ checkpoint[c] # None /\ checkpoint[c].duplicates > MaxDuplicates => n = 0
       /\ tx' = [tx EXCEPT ![s] = [Idle EXCEPT !.pc = "loop", !.connector = c,
                                               !.read = checkpoint[c], !.left = n]]
  /\ UNCHANGED <<status, stored, checkpoint, checkpointLock, connectorLock, acknowledged>>

\* The counters of a checkpoint that was added and never flushed are None.
Countable(s) == tx[s].read # None \/ checkpointLock[tx[s].connector] = s

\* The next envelope is one that can be judged, and repeats an event.
Duplicate(s) ==
  /\ tx[s].pc = "loop" /\ tx[s].left > 0
  /\ Countable(s)
  /\ \E e \in Ids(Visible(s)) :
       tx' = [tx EXCEPT ![s] = [tx[s] EXCEPT !.left = tx[s].left - 1,
                                             !.dups = tx[s].dups + 1,
                                             !.seen = tx[s].seen \cup {e}]]
  /\ UNCHANGED <<status, stored, checkpoint, checkpointLock, connectorLock, acknowledged>>

\* The next envelope is new: its record is added and the flush starts.
NewEvent(s) ==
  /\ tx[s].pc = "loop" /\ tx[s].left > 0
  /\ \E e \in Events \ Ids(Visible(s)), p \in {q \in Envelope : Comparable(q)} :
       tx' = [tx EXCEPT ![s] = [tx[s] EXCEPT !.pc = "flush", !.event = e,
                                             !.verdict = Verdict(p)]]
  /\ UNCHANGED <<status, stored, checkpoint, checkpointLock, connectorLock, acknowledged>>

-----------------------------------------------------------------------------
(* Flushes, commit and the ways a request fails.                           *)

\* The checkpoint is new, or has counted something: the next flush writes it.
CheckpointIsDirty(s) ==
  (tx[s].read = None /\ checkpointLock[tx[s].connector] # s)
    \/ tx[s].mine # {} \/ tx[s].dups > 0

\* Writing it waits for another writer, and fails if both are the first.
MayWriteCheckpoint(s) ==
  LET c == tx[s].connector IN
  CheckpointIsDirty(s) =>
    \/ checkpointLock[c] = s
    \/ checkpointLock[c] = None /\ (tx[s].read = None => checkpoint[c] = None)

\* db.flush(), first statement.
FlushCheckpoint(s) ==
  LET c == tx[s].connector IN
  /\ tx[s].pc = "flush"
  /\ MayWriteCheckpoint(s)
  /\ checkpointLock' = IF CheckpointIsDirty(s) THEN [checkpointLock EXCEPT ![c] = s]
                       ELSE checkpointLock
  /\ tx' = [tx EXCEPT ![s] = [tx[s] EXCEPT !.pc = "insert"]]
  /\ UNCHANGED <<status, stored, checkpoint, connectorLock, acknowledged>>

\* Other transactions that inserted the event s is inserting.
Rivals(s) ==
  {t \in Sessions \ {s} : /\ tx[t].connector = tx[s].connector
                         /\ tx[s].event \in Ids(tx[t].mine)}

\* The table has the event s is inserting, committed or from s itself.
Clashes(s) ==
  tx[s].event \in Ids(stored[tx[s].connector]) \cup Ids(tx[s].mine)

\* Mutant: no unique constraint on (tenant, connector, event).
NoConstraint(s) == TRUE

\* The unique constraint lets the insert through.
MayInsert(s) == Rivals(s) = {} /\ ~Clashes(s)

\* The record that request s is inserting.
Flushed(s) == [event |-> tx[s].event, verdict |-> tx[s].verdict]

\* db.flush(), second statement, and the counting after it.
InsertRecord(s) ==
  /\ tx[s].pc = "insert"
  /\ MayInsert(s)
  /\ tx' = [tx EXCEPT ![s] = [tx[s] EXCEPT !.pc = "loop",
                                           !.left = tx[s].left - 1,
                                           !.seen = tx[s].seen \cup {tx[s].event},
                                           !.mine = tx[s].mine \cup {Flushed(s)}]]
  /\ UNCHANGED <<status, stored, checkpoint, checkpointLock, connectorLock, acknowledged>>

\* The commit flushes the connector row first.
WriteConnector(s) ==
  LET c == tx[s].connector IN
  /\ tx[s].pc = "loop" /\ tx[s].left = 0
  /\ connectorLock[c] = None
  /\ connectorLock' = [connectorLock EXCEPT ![c] = s]
  /\ tx' = [tx EXCEPT ![s] = [tx[s] EXCEPT !.pc = "closing"]]
  /\ UNCHANGED <<status, stored, checkpoint, checkpointLock, acknowledged>>

\* Mutant: duplicates are counted as processed.
ProcessedAll(s) == Cardinality(tx[s].mine) + tx[s].dups

Processed(s) == Cardinality(tx[s].mine)

\* A counter the request changed is overwritten with what it read plus what
\* it counted; the UPDATE leaves the others alone.
Counted(now, read, n) == IF n = 0 THEN now ELSE read + n

CheckpointOf(s) ==
  LET zero == [processed |-> 0, accepted |-> 0, rejected |-> 0, duplicates |-> 0]
      read == IF tx[s].read = None THEN zero ELSE tx[s].read
      now  == IF tx[s].read = None THEN zero ELSE checkpoint[tx[s].connector] IN
  [processed  |-> Counted(now.processed, read.processed, Processed(s)),
   accepted   |-> Counted(now.accepted, read.accepted, Cardinality(Accepted(tx[s].mine))),
   rejected   |-> Counted(now.rejected, read.rejected, Cardinality(Rejected(tx[s].mine))),
   duplicates |-> Counted(now.duplicates, read.duplicates, tx[s].dups)]

\* The transaction ends, committed or not, and its locks go with it.
End(s) ==
  LET Without(lock) == [c \in Connectors |-> IF lock[c] = s THEN None ELSE lock[c]] IN
  /\ tx' = [tx EXCEPT ![s] = Idle]
  /\ checkpointLock' = Without(checkpointLock)
  /\ connectorLock' = Without(connectorLock)

\* The checkpoint is written, the transaction commits, 200.
Commit(s) ==
  LET c == tx[s].connector IN
  /\ tx[s].pc = "closing"
  /\ MayWriteCheckpoint(s)
  /\ stored' = [stored EXCEPT ![c] = @ \cup tx[s].mine]
  /\ checkpoint' = [checkpoint EXCEPT ![c] = CheckpointOf(s)]
  /\ status' = [status EXCEPT ![c] = "healthy"]
  /\ acknowledged' = acknowledged \cup ({c} \X tx[s].seen)
  /\ End(s)

\* IntegrityError on the checkpoint or the record, or a counter that is None.
Conflicts(s) ==
  LET c == tx[s].connector IN
  \/ /\ tx[s].pc \in {"flush", "closing"}
     /\ tx[s].read = None /\ checkpointLock[c] # s /\ checkpoint[c] # None
  \/ tx[s].pc = "insert" /\ Rivals(s) = {} /\ Clashes(s)
  \/ /\ tx[s].pc = "loop" /\ tx[s].left > 0
     /\ ~Countable(s) /\ Ids(Visible(s)) # {}

\* The next envelope cannot be judged.
Unjudged(s) ==
  /\ tx[s].pc = "loop" /\ tx[s].left > 0
  /\ \E p \in Envelope : ~Comparable(p)

\* Mutant: the session of a handler that raised is not closed.
NeverClosed(s) ==
  /\ Conflicts(s) \/ Unjudged(s)
  /\ tx' = [tx EXCEPT ![s] = Idle]
  /\ UNCHANGED <<status, stored, checkpoint, checkpointLock, connectorLock, acknowledged>>

\* The handler raises, 500, and get_db closes the session: nothing is committed.
Fail(s) ==
  /\ Conflicts(s) \/ Unjudged(s)
  /\ End(s)
  /\ UNCHANGED <<status, stored, checkpoint, acknowledged>>

\* A worker dies or its connection is lost.
Crash(s) ==
  /\ tx[s].pc # "idle"
  /\ End(s)
  /\ UNCHANGED <<status, stored, checkpoint, acknowledged>>

\* s cannot go on before t has ended.
WaitsFor(s, t) ==
  LET c == tx[s].connector IN
  \/ /\ tx[s].pc \in {"flush", "closing"} /\ CheckpointIsDirty(s)
     /\ checkpointLock[c] = t /\ t # s
     /\ tx[s].read = None => checkpoint[c] = None
  \/ tx[s].pc = "insert" /\ t \in Rivals(s)
  \/ tx[s].pc = "loop" /\ tx[s].left = 0 /\ connectorLock[c] = t

\* Sessions that all wait for one another.
Deadlocked(S) ==
  /\ S # {}
  /\ \A s \in S : \E t, u \in S : WaitsFor(s, t) /\ WaitsFor(u, s)

\* PostgreSQL's deadlock_timeout aborts one of them.
Victim(s) == \E S \in SUBSET Sessions : s \in S /\ Deadlocked(S)

BreakDeadlock(s) ==
  /\ Victim(s)
  /\ End(s)
  /\ UNCHANGED <<status, stored, checkpoint, acknowledged>>

Locking(s) == FlushCheckpoint(s) \/ InsertRecord(s) \/ WriteConnector(s) \/ Commit(s)

Next ==
  \/ \E c \in Connectors : CreateConnector(c) \/ EnableConnector(c)
  \/ \E s \in Sessions, c \in Connectors : Begin(s, c)
  \/ \E s \in Sessions :
       \/ Duplicate(s) \/ NewEvent(s) \/ Locking(s)
       \/ Fail(s) \/ Crash(s) \/ BreakDeadlock(s)

Spec == Init /\ [][Next]_vars

\* A granted lock wakes its waiter (PostgreSQL queues them), a request that
\* waits for nobody runs on to its return or raise, deadlocks are broken.
Fairness ==
  \A s \in Sessions :
    /\ SF_vars(Locking(s)) /\ WF_vars(BreakDeadlock(s))
    /\ WF_vars(Duplicate(s) \/ NewEvent(s) \/ Fail(s))

FairSpec == Spec /\ Fairness

-----------------------------------------------------------------------------
(* Properties.                                                             *)

\* Type invariant.
TypeOK ==
  /\ status \in [Connectors -> Statuses]
  /\ stored \in [Connectors -> SUBSET Record]
  /\ checkpoint \in [Connectors -> Counters \cup {None}]
  /\ tx \in [Sessions -> Transaction]
  /\ \A s \in Sessions : tx[s].pc # "idle" => tx[s].connector \in Connectors
  /\ \A s \in Sessions :
       tx[s].pc \in {"flush", "insert"} => tx[s].event \in Events /\ tx[s].left > 0
  /\ checkpointLock \in [Connectors -> Sessions \cup {None}]
  /\ connectorLock \in [Connectors -> Sessions \cup {None}]
  /\ acknowledged \subseteq Connectors \X Events

\* Every event that a 200 answered for, as new or as a duplicate, is in the
\* committed table and stays there: what was acknowledged is never lost, even
\* when the request that stored it is not the one that was answered.
AcknowledgedIsStored ==
  \A a \in acknowledged : a[2] \in Ids(stored[a[1]])

\* A batch is committed whole and once: concurrent requests, retries and
\* crashes leave a log in which the first committed delivery of an event stands.
Log == INSTANCE IngestLog WITH log <- stored
ImplementsLog == Log!Spec

\* Counters n claim no more than the records R.
Within(n, R) ==
  /\ n.processed <= Cardinality(R)
  /\ n.accepted <= Cardinality(Accepted(R))
  /\ n.rejected <= Cardinality(Rejected(R))

\* The counters never claim more than the table holds, although concurrent
\* requests overwrite each other's counts.
CountersNeverOverstate ==
  \A c \in Connectors : checkpoint[c] # None => Within(checkpoint[c], stored[c])

\* With one request at a time the counters are exact and add up.
CountersAreExact ==
  \A c \in Connectors :
    LET n == checkpoint[c] IN
    IF n = None THEN stored[c] = {}
    ELSE /\ n.processed = Cardinality(stored[c])
         /\ n.accepted = Cardinality(Accepted(stored[c]))
         /\ n.processed = n.accepted + n.rejected

\* No delivery runs into the unique constraint or into a counter that is None:
\* neither a retry of a whole batch nor an event repeated inside one.
RedeliveryNeverConflicts == \A s \in Sessions : ~Conflicts(s)

\* Only an administrator enables a connector: a commit, which itself writes
\* the status "healthy", adds records or counts only where it already stood,
\* and nothing takes a connector back.
OnlyEnabledConnectorsIngest ==
  [][\A c \in Connectors :
       /\ stored'[c] # stored[c] \/ checkpoint'[c] # checkpoint[c]
            => status[c] = "healthy"
       /\ status[c] = "healthy" => status'[c] = "healthy"]_vars

\* Every request ends, though requests wait for each other's rows and index
\* entries in an order the batches decide.
EveryIngestEnds == \A s \in Sessions : tx[s].pc # "idle" ~> tx[s].pc = "idle"
=============================================================================
