----------------------- MODULE TelemetryIngestProofs -----------------------
(***************************************************************************)
(* Proofs about TelemetryIngest, for any connectors, events and requests:  *)
(* its type invariant, that acknowledged events are stored, that it        *)
(* implements IngestLog, and what its counters mean.                       *)
(*                                                                         *)
(* They rest on Fresh and Apart: what a request has inserted and not       *)
(* committed clashes with nothing another request inserted or anybody      *)
(* committed.  The unique constraint establishes it when a record is       *)
(* inserted, and locks that last until the end of the transaction keep it. *)
(* OneAtATime is what more is true while no two requests overlap.          *)
(***************************************************************************)
EXTENDS IngestAlone, FiniteSetTheorems, TLAPS

-----------------------------------------------------------------------------
(* Types.                                                                  *)

LEMMA VerdictTyped == \A p \in Envelope : Verdict(p) \in Verdicts
BY DEF Envelope, Verdict, Verdicts

LEMMA IdleTyped ==
  /\ Idle \in Transaction
  /\ Idle.pc = "idle" /\ Idle.mine = {} /\ Idle.seen = {}
BY DEF Idle, Transaction, Verdicts

\* The ways in which a step changes a transaction.
LEMMA Updates ==
  /\ \A c \in Connectors, r \in Counters \cup {None}, n \in Nat :
       [Idle EXCEPT !.pc = "loop", !.connector = c, !.read = r, !.left = n] \in Transaction
  /\ \A t \in Transaction, n \in Nat, d \in Nat, S \in SUBSET Events :
       [t EXCEPT !.left = n, !.dups = d, !.seen = S] \in Transaction
  /\ \A t \in Transaction, e \in Events, v \in Verdicts :
       [t EXCEPT !.pc = "flush", !.event = e, !.verdict = v] \in Transaction
  /\ \A t \in Transaction :
       /\ [t EXCEPT !.pc = "insert"] \in Transaction
       /\ [t EXCEPT !.pc = "closing"] \in Transaction
  /\ \A t \in Transaction, n \in Nat, S \in SUBSET Events, R \in SUBSET Record :
       [t EXCEPT !.pc = "loop", !.left = n, !.seen = S, !.mine = R] \in Transaction
<1>1. \A t \in Transaction, c \in Connectors, r \in Counters \cup {None}, n \in Nat :
        [t EXCEPT !.pc = "loop", !.connector = c, !.read = r, !.left = n] \in Transaction
  BY DEF Transaction
<1>2. \A t \in Transaction, n \in Nat, d \in Nat, S \in SUBSET Events :
        [t EXCEPT !.left = n, !.dups = d, !.seen = S] \in Transaction
  BY DEF Transaction
<1>3. \A t \in Transaction, e \in Events, v \in Verdicts :
        [t EXCEPT !.pc = "flush", !.event = e, !.verdict = v] \in Transaction
  BY DEF Transaction
<1>4. \A t \in Transaction :
        /\ [t EXCEPT !.pc = "insert"] \in Transaction
        /\ [t EXCEPT !.pc = "closing"] \in Transaction
  BY DEF Transaction
<1>5. \A t \in Transaction, n \in Nat, S \in SUBSET Events, R \in SUBSET Record :
        [t EXCEPT !.pc = "loop", !.left = n, !.seen = S, !.mine = R] \in Transaction
  BY DEF Transaction
<1>6. QED
  BY <1>1, <1>2, <1>3, <1>4, <1>5, IdleTyped

\* Records a request holds are finitely many; Inserted is inductive and lets
\* the counters be numbers.
Inserted == \A s \in Sessions : IsFiniteSet(tx[s].mine)

LEMMA CheckpointTyped ==
  ASSUME TypeOK, Inserted, NEW s \in Sessions, tx[s].connector \in Connectors,
         tx[s].read # None => checkpoint[tx[s].connector] # None
  PROVE  CheckpointOf(s) \in Counters
<1> DEFINE zero == [processed |-> 0, accepted |-> 0, rejected |-> 0, duplicates |-> 0]
           read == IF tx[s].read = None THEN zero ELSE tx[s].read
           now  == IF tx[s].read = None THEN zero ELSE checkpoint[tx[s].connector]
<1>1. tx[s] \in Transaction
  BY DEF TypeOK
<1>2. IsFiniteSet(tx[s].mine)
  BY DEF Inserted
<1>3. IsFiniteSet(Accepted(tx[s].mine)) /\ IsFiniteSet(Rejected(tx[s].mine))
  BY <1>2, FS_Subset DEF Accepted, Rejected
<1>4. /\ Processed(s) \in Nat
      /\ Cardinality(Accepted(tx[s].mine)) \in Nat
      /\ Cardinality(Rejected(tx[s].mine)) \in Nat
      /\ tx[s].dups \in Nat
  BY <1>1, <1>2, <1>3, FS_CardinalityType DEF Processed, Transaction
<1>5. zero \in Counters
  BY DEF Counters
<1>6. read \in Counters
  BY <1>1, <1>5 DEF Transaction
<1>7. now \in Counters
  BY <1>5 DEF TypeOK
<1>8. \A m, r, n \in Nat : Counted(m, r, n) \in Nat
  BY DEF Counted
<1>9. CheckpointOf(s) =
        [processed  |-> Counted(now.processed, read.processed, Processed(s)),
         accepted   |-> Counted(now.accepted, read.accepted,
                                Cardinality(Accepted(tx[s].mine))),
         rejected   |-> Counted(now.rejected, read.rejected,
                                Cardinality(Rejected(tx[s].mine))),
         duplicates |-> Counted(now.duplicates, read.duplicates, tx[s].dups)]
  BY DEF CheckpointOf
<1> HIDE DEF read, now, zero
<1>10. /\ Counted(now.processed, read.processed, Processed(s)) \in Nat
       /\ Counted(now.accepted, read.accepted, Cardinality(Accepted(tx[s].mine))) \in Nat
       /\ Counted(now.rejected, read.rejected, Cardinality(Rejected(tx[s].mine))) \in Nat
       /\ Counted(now.duplicates, read.duplicates, tx[s].dups) \in Nat
  <2>1. /\ now.processed \in Nat /\ now.accepted \in Nat
        /\ now.rejected \in Nat /\ now.duplicates \in Nat
    BY <1>7 DEF Counters
  <2>2. /\ read.processed \in Nat /\ read.accepted \in Nat
        /\ read.rejected \in Nat /\ read.duplicates \in Nat
    BY <1>6 DEF Counters
  <2>3. QED
    BY <1>4, <1>8, <2>1, <2>2
<1>11. QED
  BY <1>9, <1>10 DEF Counters

-----------------------------------------------------------------------------
(* What each action does to the transactions.                              *)

\* No other transaction changes.
OnlyOf(s) == \A t \in Sessions \ {s} : tx'[t] = tx[t]

LEMMA BeginEffect ==
  ASSUME TypeOK, NEW s \in Sessions, NEW c \in Connectors, Begin(s, c)
  PROVE  /\ tx' \in [Sessions -> Transaction] /\ OnlyOf(s)
         /\ tx'[s].pc = "loop" /\ tx'[s].connector = c
         /\ tx'[s].read = checkpoint[c]
         /\ tx'[s].mine = {} /\ tx'[s].seen = {}
<1>1. PICK n \in 0 .. MaxBatch :
        tx' = [tx EXCEPT ![s] = [Idle EXCEPT !.pc = "loop", !.connector = c,
                                             !.read = checkpoint[c], !.left = n]]
  BY DEF Begin
<1>2. n \in Nat /\ checkpoint[c] \in Counters \cup {None}
  BY Bounds DEF TypeOK
<1> DEFINE new == [Idle EXCEPT !.pc = "loop", !.connector = c,
                               !.read = checkpoint[c], !.left = n]
<1>3. new \in Transaction
  BY <1>2, Updates
<1>4. /\ new.pc = "loop" /\ new.connector = c /\ new.read = checkpoint[c]
      /\ new.mine = {} /\ new.seen = {}
  BY DEF Idle
<1> HIDE DEF new
<1>5. tx' = [tx EXCEPT ![s] = new]
  BY <1>1 DEF new
<1>6. QED
  BY <1>3, <1>4, <1>5 DEF TypeOK, OnlyOf

LEMMA DuplicateEffect ==
  ASSUME TypeOK, NEW s \in Sessions, Duplicate(s)
  PROVE  \E e \in Ids(Visible(s)) :
           /\ tx' \in [Sessions -> Transaction] /\ OnlyOf(s)
           /\ tx'[s].pc = "loop" /\ tx'[s].connector = tx[s].connector
           /\ tx'[s].read = tx[s].read
           /\ tx'[s].mine = tx[s].mine /\ tx'[s].seen = tx[s].seen \cup {e}
<1> DEFINE t == tx[s]
           new(e) == [t EXCEPT !.left = t.left - 1, !.dups = t.dups + 1,
                               !.seen = t.seen \cup {e}]
<1>1. PICK e \in Ids(Visible(s)) : tx' = [tx EXCEPT ![s] = new(e)]
  BY DEF Duplicate
<1>2. t \in Transaction /\ t.pc = "loop" /\ t.left > 0
  BY DEF TypeOK, Duplicate
<1>3. t.mine \subseteq Record /\ stored[t.connector] \subseteq Record
  BY <1>2 DEF TypeOK, Transaction
<1>4. e \in Events
  BY <1>3 DEF Ids, Visible, Record
<1>5. /\ t.left - 1 \in Nat /\ t.dups + 1 \in Nat
      /\ t.seen \cup {e} \in SUBSET Events
  BY <1>2, <1>4 DEF Transaction
<1> HIDE DEF t
<1>6. new(e) \in Transaction
  BY <1>2, <1>5, Updates
<1>7. /\ new(e).pc = "loop" /\ new(e).connector = t.connector /\ new(e).read = t.read
      /\ new(e).mine = t.mine /\ new(e).seen = t.seen \cup {e}
  BY <1>2 DEF Transaction
<1> HIDE DEF new
<1>8. QED
  BY <1>1, <1>6, <1>7 DEF TypeOK, OnlyOf, t

LEMMA NewEventEffect ==
  ASSUME TypeOK, NEW s \in Sessions, NewEvent(s)
  PROVE  /\ tx' \in [Sessions -> Transaction] /\ OnlyOf(s)
         /\ tx'[s].pc = "flush" /\ tx'[s].connector = tx[s].connector
         /\ tx'[s].event \in Events \ Ids(Visible(s))
         /\ tx'[s].left > 0
         /\ tx'[s].read = tx[s].read
         /\ tx'[s].mine = tx[s].mine /\ tx'[s].seen = tx[s].seen
<1> DEFINE t == tx[s]
           new(e, v) == [t EXCEPT !.pc = "flush", !.event = e, !.verdict = v]
<1>1. PICK e \in Events \ Ids(Visible(s)), p \in {q \in Envelope : Comparable(q)} :
        tx' = [tx EXCEPT ![s] = new(e, Verdict(p))]
  BY DEF NewEvent
<1>2. t \in Transaction /\ t.left > 0
  BY DEF TypeOK, NewEvent
<1>3. Verdict(p) \in Verdicts
  BY VerdictTyped
<1> HIDE DEF t
<1>4. new(e, Verdict(p)) \in Transaction
  BY <1>2, <1>3, Updates
<1>5. \A v : /\ new(e, v).pc = "flush" /\ new(e, v).connector = t.connector
             /\ new(e, v).event = e /\ new(e, v).left = t.left
             /\ new(e, v).read = t.read /\ new(e, v).mine = t.mine
             /\ new(e, v).seen = t.seen
  BY <1>2 DEF Transaction
<1> HIDE DEF new
<1>6. QED
  BY <1>1, <1>2, <1>4, <1>5 DEF TypeOK, OnlyOf, t

LEMMA FlushEffect ==
  ASSUME TypeOK, NEW s \in Sessions, FlushCheckpoint(s) \/ WriteConnector(s)
  PROVE  /\ tx' \in [Sessions -> Transaction] /\ OnlyOf(s)
         /\ tx'[s].pc = IF FlushCheckpoint(s) THEN "insert" ELSE "closing"
         /\ tx'[s].connector = tx[s].connector
         /\ tx'[s].event = tx[s].event /\ tx'[s].left = tx[s].left
         /\ tx'[s].read = tx[s].read
         /\ tx'[s].mine = tx[s].mine /\ tx'[s].seen = tx[s].seen
<1> DEFINE t == tx[s]
           new(pc) == [t EXCEPT !.pc = pc]
<1>1. PICK pc \in {"insert", "closing"} : /\ tx' = [tx EXCEPT ![s] = new(pc)]
                                          /\ pc = IF FlushCheckpoint(s) THEN "insert"
                                                  ELSE "closing"
  BY DEF FlushCheckpoint, WriteConnector
<1>2. t \in Transaction
  BY DEF TypeOK
<1> HIDE DEF t
<1>3. new(pc) \in Transaction
  BY <1>2, Updates
<1>4. /\ new(pc).pc = pc /\ new(pc).connector = t.connector
      /\ new(pc).event = t.event /\ new(pc).left = t.left /\ new(pc).read = t.read
      /\ new(pc).mine = t.mine /\ new(pc).seen = t.seen
  BY <1>2 DEF Transaction
<1> HIDE DEF new
<1>5. QED
  BY <1>1, <1>3, <1>4 DEF TypeOK, OnlyOf, t

LEMMA InsertEffect ==
  ASSUME TypeOK, NEW s \in Sessions, InsertRecord(s)
  PROVE  /\ tx' \in [Sessions -> Transaction] /\ OnlyOf(s)
         /\ tx'[s].pc = "loop" /\ tx'[s].connector = tx[s].connector
         /\ tx'[s].read = tx[s].read
         /\ tx'[s].mine = tx[s].mine \cup {Flushed(s)}
         /\ tx'[s].seen = tx[s].seen \cup {tx[s].event}
         /\ Flushed(s) \in Record
<1> DEFINE t == tx[s]
           new == [t EXCEPT !.pc = "loop", !.left = t.left - 1,
                            !.seen = t.seen \cup {t.event},
                            !.mine = t.mine \cup {Flushed(s)}]
<1>1. tx' = [tx EXCEPT ![s] = new]
  BY DEF InsertRecord
<1>2. t \in Transaction /\ t.pc = "insert" /\ t.event \in Events /\ t.left > 0
  BY DEF TypeOK, InsertRecord
<1>3. Flushed(s) \in Record
  BY <1>2 DEF Flushed, Record, Transaction
<1>4. t.left - 1 \in Nat
  BY <1>2 DEF Transaction
<1>5. t.seen \cup {t.event} \in SUBSET Events /\ t.mine \cup {Flushed(s)} \in SUBSET Record
  BY <1>2, <1>3 DEF Transaction
<1> HIDE DEF t
<1>6. new \in Transaction
  BY <1>2, <1>4, <1>5, Updates
<1>7. /\ new.pc = "loop" /\ new.connector = t.connector /\ new.read = t.read
      /\ new.mine = t.mine \cup {Flushed(s)} /\ new.seen = t.seen \cup {t.event}
  BY <1>2 DEF Transaction
<1> HIDE DEF new
<1>8. QED
  BY <1>1, <1>3, <1>6, <1>7 DEF TypeOK, OnlyOf, t

LEMMA EndEffect ==
  ASSUME TypeOK, NEW s \in Sessions, End(s)
  PROVE  /\ tx' \in [Sessions -> Transaction] /\ OnlyOf(s)
         /\ tx'[s] = Idle
         /\ checkpointLock' \in [Connectors -> Sessions \cup {None}]
         /\ connectorLock' \in [Connectors -> Sessions \cup {None}]
BY IdleTyped DEF End, TypeOK, OnlyOf

-----------------------------------------------------------------------------
(* The inductive invariant.                                                *)

\* A checkpoint that a request read stays.
ReadsExist ==
  \A s \in Sessions :
    tx[s].pc # "idle" /\ tx[s].read # None => checkpoint[tx[s].connector] # None

\* What a request inserted has each event once and none that is stored.
Fresh ==
  \A s \in Sessions :
    /\ IsFiniteSet(tx[s].mine) /\ Log!OncePerEvent(tx[s].mine)
    /\ tx[s].pc = "idle" => tx[s].mine = {}
    /\ tx[s].pc # "idle" => Ids(tx[s].mine) \cap Ids(stored[tx[s].connector]) = {}
    /\ tx[s].pc \in {"flush", "insert"} => tx[s].event \notin Ids(tx[s].mine)

\* Two requests never hold the same event of one connector.
Apart ==
  \A s, t \in Sessions :
    s # t /\ tx[s].connector = tx[t].connector
      => Ids(tx[s].mine) \cap Ids(tx[t].mine) = {}

\* Whatever a request will acknowledge is stored or its own to store.
Seen ==
  \A s \in Sessions :
    tx[s].pc # "idle"
      => tx[s].seen \subseteq Ids(stored[tx[s].connector]) \cup Ids(tx[s].mine)

Inv == TypeOK /\ ReadsExist /\ Fresh /\ Apart /\ Seen /\ AcknowledgedIsStored

LEMMA InvInit == Init => Inv
<1> SUFFICES ASSUME Init PROVE Inv
  OBVIOUS
<1>1. \A s \in Sessions : tx[s] = Idle
  BY DEF Init
<1>2. TypeOK
  <2>1. tx \in [Sessions -> Transaction]
    BY IdleTyped DEF Init
  <2>2. /\ status \in [Connectors -> Statuses]
        /\ stored \in [Connectors -> SUBSET Record]
        /\ checkpoint \in [Connectors -> Counters \cup {None}]
        /\ checkpointLock \in [Connectors -> Sessions \cup {None}]
        /\ connectorLock \in [Connectors -> Sessions \cup {None}]
        /\ acknowledged \subseteq Connectors \X Events
    BY DEF Init, Statuses
  <2>3. QED
    BY <1>1, <2>1, <2>2, IdleTyped DEF TypeOK
<1>3. ReadsExist /\ Seen
  BY <1>1, IdleTyped DEF ReadsExist, Seen
<1>4. Fresh
  BY <1>1, IdleTyped, FS_EmptySet DEF Fresh, Log!OncePerEvent
<1>5. Apart
  BY <1>1, IdleTyped DEF Apart, Ids
<1>6. AcknowledgedIsStored
  BY DEF Init, AcknowledgedIsStored
<1>7. QED
  BY <1>2, <1>3, <1>4, <1>5, <1>6 DEF Inv

\* A step of s that adds nothing to the records anybody holds or stores.
LEMMA NothingInserted ==
  ASSUME Inv, NEW s \in Sessions,
         tx' \in [Sessions -> Transaction], OnlyOf(s),
         UNCHANGED <<status, stored, checkpoint, acknowledged>>,
         checkpointLock' \in [Connectors -> Sessions \cup {None}],
         connectorLock' \in [Connectors -> Sessions \cup {None}],
         \/ tx'[s].mine = {}
         \/ /\ tx'[s].connector = tx[s].connector /\ tx'[s].mine = tx[s].mine
            /\ tx[s].pc # "idle" /\ tx'[s].pc # "idle",
         tx'[s].pc # "idle" =>
           /\ tx'[s].connector \in Connectors
           /\ tx'[s].read # None => checkpoint[tx'[s].connector] # None
           /\ tx'[s].seen \subseteq Ids(stored[tx'[s].connector]) \cup Ids(tx'[s].mine),
         tx'[s].pc \in {"flush", "insert"} =>
           tx'[s].event \in Events \ Ids(tx'[s].mine) /\ tx'[s].left > 0
  PROVE  Inv'
<1>1. \A u \in Sessions : u # s => tx'[u] = tx[u]
  BY DEF OnlyOf
<1>2. TypeOK'
  BY <1>1 DEF Inv, TypeOK
<1>3. ReadsExist' /\ Seen'
  BY <1>1 DEF Inv, ReadsExist, Seen
<1>4. Fresh'
  <2>1. IsFiniteSet({}) /\ Log!OncePerEvent({}) /\ Ids({}) = {}
    BY FS_EmptySet DEF Log!OncePerEvent, Ids
  <2> SUFFICES ASSUME NEW u \in Sessions
               PROVE /\ IsFiniteSet(tx'[u].mine) /\ Log!OncePerEvent(tx'[u].mine)
                     /\ tx'[u].pc = "idle" => tx'[u].mine = {}
                     /\ tx'[u].pc # "idle" =>
                          Ids(tx'[u].mine) \cap Ids(stored[tx'[u].connector]) = {}
                     /\ tx'[u].pc \in {"flush", "insert"} =>
                          tx'[u].event \notin Ids(tx'[u].mine)
    BY DEF Fresh
  <2>2. CASE u # s
    BY <1>1, <2>2 DEF Inv, Fresh
  <2>3. CASE u = s
    BY <2>1, <2>3 DEF Inv, Fresh
  <2>4. QED
    BY <2>2, <2>3
<1>5. Apart'
  <2>1. Ids({}) = {}
    BY DEF Ids
  <2>2. \A u \in Sessions : \/ tx'[u].mine = {}
                            \/ /\ tx'[u].connector = tx[u].connector
                               /\ tx'[u].mine = tx[u].mine
    BY <1>1
  <2>3. QED
    BY <2>1, <2>2 DEF Inv, Apart
<1>6. AcknowledgedIsStored'
  BY DEF Inv, AcknowledgedIsStored
<1>7. QED
  BY <1>2, <1>3, <1>4, <1>5, <1>6 DEF Inv

-----------------------------------------------------------------------------
(* Every step keeps the invariant.                                         *)

LEMMA IdsOfUnion ==
  ASSUME NEW R, NEW S
  PROVE  /\ Ids(R \cup S) = Ids(R) \cup Ids(S)
         /\ \A r : Ids(R \cup {r}) = Ids(R) \cup {r.event}
<1>1. Ids(R \cup S) = Ids(R) \cup Ids(S)
  BY DEF Ids
<1>2. ASSUME NEW r PROVE Ids(R \cup {r}) = Ids(R) \cup {r.event}
  BY DEF Ids
<1>3. QED
  BY <1>1, <1>2

LEMMA ConnectorSteps ==
  ASSUME Inv, NEW c \in Connectors, CreateConnector(c) \/ EnableConnector(c)
  PROVE  Inv'
<1>1. UNCHANGED <<stored, checkpoint, tx, checkpointLock, connectorLock, acknowledged>>
  BY DEF CreateConnector, EnableConnector
<1>2. status' \in [Connectors -> Statuses]
  BY DEF CreateConnector, EnableConnector, Inv, TypeOK, Statuses
<1>3. TypeOK'
  BY <1>1, <1>2 DEF Inv, TypeOK
<1>4. (ReadsExist /\ Fresh /\ Apart /\ Seen /\ AcknowledgedIsStored)'
  BY <1>1 DEF Inv, ReadsExist, Fresh, Apart, Seen, AcknowledgedIsStored
<1>5. QED
  BY <1>3, <1>4 DEF Inv

LEMMA BeginStep ==
  ASSUME Inv, NEW s \in Sessions, NEW c \in Connectors, Begin(s, c)
  PROVE  Inv'
<1>1. UNCHANGED <<status, stored, checkpoint, checkpointLock, connectorLock, acknowledged>>
  BY DEF Begin
<1>2. QED
  BY <1>1, BeginEffect, NothingInserted DEF Inv, TypeOK

LEMMA DuplicateStep ==
  ASSUME Inv, NEW s \in Sessions, Duplicate(s)
  PROVE  Inv'
<1>1. UNCHANGED <<status, stored, checkpoint, checkpointLock, connectorLock, acknowledged>>
  BY DEF Duplicate
<1>2. TypeOK /\ tx[s].pc = "loop" /\ tx[s].connector \in Connectors
  BY DEF Duplicate, Inv, TypeOK
<1>3. PICK e \in Ids(Visible(s)) :
        /\ tx' \in [Sessions -> Transaction] /\ OnlyOf(s)
        /\ tx'[s].pc = "loop" /\ tx'[s].connector = tx[s].connector
        /\ tx'[s].read = tx[s].read
        /\ tx'[s].mine = tx[s].mine /\ tx'[s].seen = tx[s].seen \cup {e}
  BY <1>2, DuplicateEffect
<1>4. e \in Ids(stored[tx[s].connector]) \cup Ids(tx[s].mine)
  BY DEF Visible, Ids
<1>5. tx'[s].seen \subseteq Ids(stored[tx[s].connector]) \cup Ids(tx[s].mine)
  BY <1>2, <1>3, <1>4 DEF Inv, Seen
<1>6. tx[s].read # None => checkpoint[tx[s].connector] # None
  BY <1>2 DEF Inv, ReadsExist
<1>7. QED
  BY <1>1, <1>2, <1>3, <1>5, <1>6, NothingInserted DEF Inv, TypeOK

LEMMA NewEventStep ==
  ASSUME Inv, NEW s \in Sessions, NewEvent(s)
  PROVE  Inv'
<1>1. UNCHANGED <<status, stored, checkpoint, checkpointLock, connectorLock, acknowledged>>
  BY DEF NewEvent
<1>2. TypeOK /\ tx[s].pc = "loop" /\ tx[s].connector \in Connectors
  BY DEF NewEvent, Inv, TypeOK
<1>3. /\ tx[s].seen \subseteq Ids(stored[tx[s].connector]) \cup Ids(tx[s].mine)
      /\ tx[s].read # None => checkpoint[tx[s].connector] # None
  BY <1>2 DEF Inv, Seen, ReadsExist
<1>4. tx'[s].event \in Events \ Ids(tx'[s].mine)
  BY <1>2, NewEventEffect DEF Visible, Ids
<1>5. QED
  BY <1>1, <1>2, <1>3, <1>4, NewEventEffect, NothingInserted DEF Inv, TypeOK

LEMMA LockStep ==
  ASSUME Inv, NEW s \in Sessions, FlushCheckpoint(s) \/ WriteConnector(s)
  PROVE  Inv'
<1>1. UNCHANGED <<status, stored, checkpoint, acknowledged>>
  BY DEF FlushCheckpoint, WriteConnector
<1>2. /\ TypeOK /\ tx[s].pc # "idle" /\ tx[s].connector \in Connectors
      /\ FlushCheckpoint(s) => tx[s].pc = "flush"
  BY DEF FlushCheckpoint, WriteConnector, Inv, TypeOK
<1>3. /\ checkpointLock' \in [Connectors -> Sessions \cup {None}]
      /\ connectorLock' \in [Connectors -> Sessions \cup {None}]
  BY <1>2 DEF FlushCheckpoint, WriteConnector, TypeOK
<1>4. /\ tx[s].seen \subseteq Ids(stored[tx[s].connector]) \cup Ids(tx[s].mine)
      /\ tx[s].read # None => checkpoint[tx[s].connector] # None
  BY <1>2 DEF Inv, Seen, ReadsExist
<1>5. tx[s].pc = "flush" =>
        tx[s].event \in Events \ Ids(tx[s].mine) /\ tx[s].left > 0
  BY DEF Inv, TypeOK, Fresh
<1>6. tx'[s].pc = "insert" => tx[s].pc = "flush"
  BY <1>2, FlushEffect
<1>7. tx'[s].pc \in {"insert", "closing"}
  BY <1>2, FlushEffect
<1>8. QED
  BY <1>1, <1>2, <1>3, <1>4, <1>5, <1>6, <1>7, FlushEffect, NothingInserted

LEMMA RollbackStep ==
  ASSUME Inv, NEW s \in Sessions, Fail(s) \/ Crash(s) \/ BreakDeadlock(s)
  PROVE  Inv'
<1>1. UNCHANGED <<status, stored, checkpoint, acknowledged>> /\ End(s)
  BY DEF Fail, Crash, BreakDeadlock
<1>2. TypeOK
  BY DEF Inv
<1>3. QED
  BY <1>1, <1>2, EndEffect, IdleTyped, NothingInserted

LEMMA InsertStep ==
  ASSUME Inv, NEW s \in Sessions, InsertRecord(s)
  PROVE  Inv'
<1> DEFINE t == tx[s]
           e == tx[s].event
<1>1. UNCHANGED <<status, stored, checkpoint, checkpointLock, connectorLock, acknowledged>>
  BY DEF InsertRecord
<1>2. TypeOK /\ t.pc = "insert" /\ t.connector \in Connectors /\ e \in Events
  BY DEF InsertRecord, Inv, TypeOK
<1>3. \A u \in Sessions : u # s => tx'[u] = tx[u]
  BY <1>2, InsertEffect DEF OnlyOf
<1>4. /\ tx' \in [Sessions -> Transaction] /\ tx'[s].pc = "loop"
      /\ tx'[s].connector = t.connector /\ tx'[s].read = t.read
      /\ tx'[s].mine = t.mine \cup {Flushed(s)} /\ tx'[s].seen = t.seen \cup {e}
  BY <1>2, InsertEffect
<1>5. Ids(tx'[s].mine) = Ids(t.mine) \cup {e}
  <2>1. Flushed(s).event = e
    BY DEF Flushed
  <2> HIDE DEF t, e
  <2>2. QED
    BY <1>4, <2>1, IdsOfUnion
\* The unique constraint, and what the transaction knows of its own records.
<1>6. /\ e \notin Ids(t.mine) /\ e \notin Ids(stored[t.connector])
      /\ \A u \in Sessions : u # s /\ tx[u].connector = t.connector
                               => e \notin Ids(tx[u].mine)
  BY <1>2 DEF InsertRecord, MayInsert, Clashes, Rivals, Inv, Fresh
<1>7. TypeOK'
  BY <1>1, <1>2, <1>3, <1>4 DEF TypeOK
<1>8. ReadsExist'
  BY <1>1, <1>2, <1>3, <1>4 DEF Inv, ReadsExist
<1>9. Fresh'
  <2>1. IsFiniteSet(tx'[s].mine)
    BY <1>4, FS_AddElement DEF Inv, Fresh
  <2>2. Log!OncePerEvent(tx'[s].mine)
    <3>1. Log!OncePerEvent(t.mine)
      BY DEF Inv, Fresh
    <3>2. \A r \in t.mine : r.event # Flushed(s).event
      BY <1>6 DEF Ids, Flushed
    <3>3. QED
      BY <1>4, <3>1, <3>2 DEF Log!OncePerEvent
  <2>3. Ids(tx'[s].mine) \cap Ids(stored[t.connector]) = {}
    BY <1>2, <1>5, <1>6 DEF Inv, Fresh
  <2>4. QED
    BY <1>1, <1>3, <1>4, <2>1, <2>2, <2>3 DEF Inv, Fresh
<1>10. Apart'
  <2> SUFFICES ASSUME NEW u \in Sessions, NEW v \in Sessions, u # v,
                      tx'[u].connector = tx'[v].connector
               PROVE  Ids(tx'[u].mine) \cap Ids(tx'[v].mine) = {}
    BY DEF Apart
  <2>1. tx[u].connector = tx[v].connector
    BY <1>3, <1>4
  <2>2. Ids(tx[u].mine) \cap Ids(tx[v].mine) = {}
    BY <2>1 DEF Inv, Apart
  <2>3. CASE u = s
    BY <1>3, <1>5, <1>6, <2>1, <2>2, <2>3
  <2>4. CASE v = s
    BY <1>3, <1>5, <1>6, <2>1, <2>2, <2>4
  <2>5. CASE u # s /\ v # s
    BY <1>3, <2>2, <2>5
  <2>6. QED
    BY <2>3, <2>4, <2>5
<1>11. Seen'
  <2>1. t.seen \subseteq Ids(stored[t.connector]) \cup Ids(t.mine)
    BY <1>2 DEF Inv, Seen
  <2>2. tx'[s].seen \subseteq Ids(stored[t.connector]) \cup Ids(tx'[s].mine)
    BY <1>4, <1>5, <2>1
  <2>3. QED
    BY <1>1, <1>3, <1>4, <2>2 DEF Inv, Seen
<1>12. AcknowledgedIsStored'
  BY <1>1 DEF Inv, AcknowledgedIsStored
<1>13. QED
  BY <1>7, <1>8, <1>9, <1>10, <1>11, <1>12 DEF Inv

LEMMA CommitStep ==
  ASSUME Inv, NEW s \in Sessions, Commit(s)
  PROVE  Inv'
<1> DEFINE t == tx[s]
           c == tx[s].connector
<1>1. /\ stored' = [stored EXCEPT ![c] = @ \cup t.mine]
      /\ checkpoint' = [checkpoint EXCEPT ![c] = CheckpointOf(s)]
      /\ status' = [status EXCEPT ![c] = "healthy"]
      /\ acknowledged' = acknowledged \cup ({c} \X t.seen)
      /\ End(s)
  BY DEF Commit
<1>2. TypeOK /\ t \in Transaction /\ t.pc # "idle" /\ c \in Connectors
  BY DEF Commit, Inv, TypeOK
<1>3. \A u \in Sessions : u # s => tx'[u] = tx[u]
  BY <1>1, <1>2, EndEffect DEF OnlyOf
<1>4. tx'[s] = Idle
  BY <1>1, <1>2, EndEffect
<1>5. /\ stored'[c] = stored[c] \cup t.mine
      /\ \A d \in Connectors : d # c => stored'[d] = stored[d]
  BY <1>1, <1>2 DEF TypeOK
<1>6. /\ Ids(stored'[c]) = Ids(stored[c]) \cup Ids(t.mine)
      /\ \A d \in Connectors : Ids(stored[d]) \subseteq Ids(stored'[d])
  <2>1. Ids(stored'[c]) = Ids(stored[c]) \cup Ids(t.mine)
    BY <1>5, IdsOfUnion
  <2>2. QED
    BY <1>5, <2>1
<1>7. CheckpointOf(s) \in Counters
  <2>1. Inserted
    BY DEF Inv, Fresh, Inserted
  <2>2. t.read # None => checkpoint[c] # None
    BY <1>2 DEF Inv, ReadsExist
  <2>3. QED
    BY <1>2, <2>1, <2>2, CheckpointTyped
<1>8. TypeOK'
  <2>1. tx' \in [Sessions -> Transaction]
    BY <1>1, <1>2, EndEffect
  <2>2. stored' \in [Connectors -> SUBSET Record]
    BY <1>1, <1>2 DEF TypeOK, Transaction
  <2>3. /\ checkpoint' \in [Connectors -> Counters \cup {None}]
        /\ status' \in [Connectors -> Statuses]
    BY <1>1, <1>2, <1>7 DEF TypeOK, Statuses
  <2>4. acknowledged' \subseteq Connectors \X Events
    BY <1>1, <1>2 DEF TypeOK, Transaction
  <2>5. /\ checkpointLock' \in [Connectors -> Sessions \cup {None}]
        /\ connectorLock' \in [Connectors -> Sessions \cup {None}]
    BY <1>1, <1>2, EndEffect
  <2>6. /\ \A u \in Sessions : tx'[u].pc # "idle" => tx'[u].connector \in Connectors
        /\ \A u \in Sessions : tx'[u].pc \in {"flush", "insert"}
                                 => tx'[u].event \in Events /\ tx'[u].left > 0
    BY <1>2, <1>3, <1>4, IdleTyped DEF TypeOK
  <2>7. QED
    BY <2>1, <2>2, <2>3, <2>4, <2>5, <2>6 DEF TypeOK
<1>9. ReadsExist'
  <2>1. \A d \in Connectors : checkpoint[d] # None => checkpoint'[d] # None
    BY <1>1, <1>2, <1>7, NoneIsNull DEF TypeOK
  <2>2. QED
    BY <1>2, <1>3, <1>4, <2>1, IdleTyped DEF Inv, ReadsExist, TypeOK
<1>10. Fresh'
  <2> SUFFICES ASSUME NEW u \in Sessions
               PROVE /\ IsFiniteSet(tx'[u].mine) /\ Log!OncePerEvent(tx'[u].mine)
                     /\ tx'[u].pc = "idle" => tx'[u].mine = {}
                     /\ tx'[u].pc # "idle" =>
                          Ids(tx'[u].mine) \cap Ids(stored'[tx'[u].connector]) = {}
                     /\ tx'[u].pc \in {"flush", "insert"} =>
                          tx'[u].event \notin Ids(tx'[u].mine)
    BY DEF Fresh
  <2>1. CASE u = s
    BY <1>4, <2>1, IdleTyped, FS_EmptySet DEF Log!OncePerEvent
  <2>2. CASE u # s
    <3>1. tx'[u] = tx[u]
      BY <1>3, <2>2
    <3>2. /\ IsFiniteSet(tx[u].mine) /\ Log!OncePerEvent(tx[u].mine)
          /\ tx[u].pc = "idle" => tx[u].mine = {}
          /\ tx[u].pc # "idle" => Ids(tx[u].mine) \cap Ids(stored[tx[u].connector]) = {}
          /\ tx[u].pc \in {"flush", "insert"} => tx[u].event \notin Ids(tx[u].mine)
      BY DEF Inv, Fresh
    \* Two requests on one connector hold no event in common.
    <3>3. ASSUME tx[u].pc # "idle"
          PROVE  Ids(tx[u].mine) \cap Ids(stored'[tx[u].connector]) = {}
      <4>1. CASE tx[u].connector = c
        <5>1. Ids(tx[u].mine) \cap Ids(t.mine) = {}
          BY <2>2, <4>1 DEF Inv, Apart
        <5>2. QED
          BY <1>6, <3>2, <3>3, <4>1, <5>1
      <4>2. CASE tx[u].connector # c
        <5>1. tx[u].connector \in Connectors
          BY <1>2, <3>3 DEF TypeOK
        <5>2. QED
          BY <1>5, <3>2, <3>3, <4>2, <5>1
      <4>3. QED
        BY <4>1, <4>2
    <3>4. QED
      BY <3>1, <3>2, <3>3
  <2>3. QED
    BY <2>1, <2>2
<1>11. Apart'
  <2>1. Ids({}) = {}
    BY DEF Ids
  <2>2. QED
    BY <1>3, <1>4, <2>1, IdleTyped DEF Inv, Apart
<1>12. Seen'
  <2> SUFFICES ASSUME NEW u \in Sessions, tx'[u].pc # "idle"
               PROVE  tx'[u].seen \subseteq
                        Ids(stored'[tx'[u].connector]) \cup Ids(tx'[u].mine)
    BY DEF Seen
  <2>1. u # s /\ tx'[u] = tx[u]
    BY <1>3, <1>4, IdleTyped
  <2>2. tx[u].connector \in Connectors
    BY <1>2, <2>1 DEF TypeOK
  <2>3. tx[u].seen \subseteq Ids(stored[tx[u].connector]) \cup Ids(tx[u].mine)
    BY <2>1 DEF Inv, Seen
  <2>4. QED
    BY <1>6, <2>1, <2>2, <2>3
<1>13. AcknowledgedIsStored'
  <2>1. t.seen \subseteq Ids(stored'[c])
    BY <1>2, <1>6 DEF Inv, Seen
  <2>2. \A a \in acknowledged : a[1] \in Connectors /\ a[2] \in Ids(stored[a[1]])
    BY <1>2 DEF TypeOK, Inv, AcknowledgedIsStored
  <2>3. \A a \in acknowledged : a[2] \in Ids(stored'[a[1]])
    BY <1>6, <2>2
  <2>4. \A a \in {c} \X t.seen : a[1] = c /\ a[2] \in t.seen
    OBVIOUS
  <2>5. QED
    BY <1>1, <2>1, <2>3, <2>4 DEF AcknowledgedIsStored
<1>14. QED
  BY <1>8, <1>9, <1>10, <1>11, <1>12, <1>13 DEF Inv

LEMMA InvStep == Inv /\ [Next]_vars => Inv'
<1> SUFFICES ASSUME Inv, [Next]_vars PROVE Inv'
  OBVIOUS
<1>1. CASE \E c \in Connectors : CreateConnector(c) \/ EnableConnector(c)
  BY <1>1, ConnectorSteps
<1>2. CASE \E s \in Sessions, c \in Connectors : Begin(s, c)
  BY <1>2, BeginStep
<1>3. ASSUME NEW s \in Sessions, Duplicate(s) \/ NewEvent(s)
      PROVE  Inv'
  BY <1>3, DuplicateStep, NewEventStep
<1>4. ASSUME NEW s \in Sessions, Locking(s)
      PROVE  Inv'
  BY <1>4, LockStep, InsertStep, CommitStep DEF Locking
<1>5. ASSUME NEW s \in Sessions, Fail(s) \/ Crash(s) \/ BreakDeadlock(s)
      PROVE  Inv'
  BY <1>5, RollbackStep
<1>6. CASE UNCHANGED vars
  <2>1. TypeOK'
    BY <1>6 DEF vars, Inv, TypeOK
  <2>2. (ReadsExist /\ Fresh /\ Apart /\ Seen /\ AcknowledgedIsStored)'
    BY <1>6 DEF vars, Inv, ReadsExist, Fresh, Apart, Seen, AcknowledgedIsStored
  <2>3. QED
    BY <2>1, <2>2 DEF Inv
<1>7. QED
  BY <1>1, <1>2, <1>3, <1>4, <1>5, <1>6 DEF Next

LEMMA InvAlways == Spec => []Inv
BY InvInit, InvStep, PTL DEF Spec

-----------------------------------------------------------------------------
(* The counters.                                                           *)

\* What a request read, and what is committed, is within the table, which
\* only grows; a request works for a connector that stays enabled.
Counts ==
  /\ \A c \in Connectors : IsFiniteSet(stored[c])
  /\ CountersNeverOverstate
  /\ \A s \in Sessions : tx[s].pc # "idle" =>
       /\ status[tx[s].connector] = "healthy"
       /\ tx[s].read # None => Within(tx[s].read, stored[tx[s].connector])
  /\ \A c \in Connectors :
       stored[c] # {} \/ checkpoint[c] # None => status[c] = "healthy"

LEMMA WithinGrows ==
  ASSUME NEW R, NEW S, IsFiniteSet(S), R \subseteq S,
         NEW n \in Counters, Within(n, R)
  PROVE  Within(n, S)
<1>1. /\ IsFiniteSet(R) /\ Cardinality(R) <= Cardinality(S)
      /\ Cardinality(R) \in Nat /\ Cardinality(S) \in Nat
  BY FS_Subset, FS_CardinalityType
<1>2. /\ Accepted(R) \subseteq Accepted(S) /\ Accepted(S) \subseteq S
      /\ Rejected(R) \subseteq Rejected(S) /\ Rejected(S) \subseteq S
  BY DEF Accepted, Rejected
<1>3. IsFiniteSet(Accepted(S)) /\ IsFiniteSet(Rejected(S))
  BY <1>2, FS_Subset
<1>4. /\ IsFiniteSet(Accepted(R)) /\ Cardinality(Accepted(R)) <= Cardinality(Accepted(S))
      /\ IsFiniteSet(Rejected(R)) /\ Cardinality(Rejected(R)) <= Cardinality(Rejected(S))
  BY <1>2, <1>3, FS_Subset
<1>5. /\ Cardinality(Accepted(R)) \in Nat /\ Cardinality(Accepted(S)) \in Nat
      /\ Cardinality(Rejected(R)) \in Nat /\ Cardinality(Rejected(S)) \in Nat
  BY <1>3, <1>4, FS_CardinalityType
<1>6. n.processed \in Nat /\ n.accepted \in Nat /\ n.rejected \in Nat
  BY DEF Counters
<1>7. QED
  BY <1>1, <1>4, <1>5, <1>6 DEF Within

\* Disjoint records count separately.
LEMMA CountsAdd ==
  ASSUME NEW R, IsFiniteSet(R), NEW S, IsFiniteSet(S), R \cap S = {}
  PROVE  /\ Cardinality(R) \in Nat /\ Cardinality(S) \in Nat
         /\ Cardinality(R \cup S) = Cardinality(R) + Cardinality(S)
<1>1. Cardinality(R) \in Nat /\ Cardinality(S) \in Nat
  BY FS_CardinalityType
<1>2. Cardinality(R \cap S) = 0
  BY FS_EmptySet
<1>3. Cardinality(R \cup S) = Cardinality(R) + Cardinality(S) - Cardinality(R \cap S)
  BY FS_Union
<1>4. QED
  BY <1>1, <1>2, <1>3

\* A counter is left alone, or set to what was read plus what was added;
\* neither exceeds what is stored afterwards.
LEMMA CheckpointWithin ==
  ASSUME Inv, Counts, NEW s \in Sessions, tx[s].pc # "idle"
  PROVE  Within(CheckpointOf(s), stored[tx[s].connector] \cup tx[s].mine)
<1> DEFINE zero == [processed |-> 0, accepted |-> 0, rejected |-> 0, duplicates |-> 0]
           R == stored[tx[s].connector]
           M == tx[s].mine
           read == IF tx[s].read = None THEN zero ELSE tx[s].read
           now  == IF tx[s].read = None THEN zero ELSE checkpoint[tx[s].connector]
<1>1. tx[s] \in Transaction /\ tx[s].connector \in Connectors
  BY DEF Inv, TypeOK
<1>2. IsFiniteSet(R) /\ IsFiniteSet(M) /\ Ids(M) \cap Ids(R) = {}
  BY <1>1 DEF Inv, Fresh, Counts
<1>3. R \cap M = {}
  BY <1>2 DEF Ids
<1>4. /\ IsFiniteSet(Accepted(R)) /\ IsFiniteSet(Accepted(M))
      /\ IsFiniteSet(Rejected(R)) /\ IsFiniteSet(Rejected(M))
      /\ Accepted(R) \cap Accepted(M) = {} /\ Rejected(R) \cap Rejected(M) = {}
      /\ Accepted(R \cup M) = Accepted(R) \cup Accepted(M)
      /\ Rejected(R \cup M) = Rejected(R) \cup Rejected(M)
  <2>1. /\ Accepted(R) \subseteq R /\ Accepted(M) \subseteq M
        /\ Rejected(R) \subseteq R /\ Rejected(M) \subseteq M
    BY DEF Accepted, Rejected
  <2>2. /\ IsFiniteSet(Accepted(R)) /\ IsFiniteSet(Accepted(M))
        /\ IsFiniteSet(Rejected(R)) /\ IsFiniteSet(Rejected(M))
    BY <1>2, <2>1, FS_Subset
  <2>3. Accepted(R) \cap Accepted(M) = {} /\ Rejected(R) \cap Rejected(M) = {}
    BY <1>3, <2>1
  <2>4. /\ Accepted(R \cup M) = Accepted(R) \cup Accepted(M)
        /\ Rejected(R \cup M) = Rejected(R) \cup Rejected(M)
    BY DEF Accepted, Rejected
  <2>5. QED
    BY <2>2, <2>3, <2>4
<1>5. read \in Counters /\ now \in Counters
  <2>1. zero \in Counters
    BY DEF Counters
  <2>2. tx[s].read # None => /\ tx[s].read \in Counters
                             /\ checkpoint[tx[s].connector] \in Counters
    BY <1>1 DEF Inv, TypeOK, Transaction, ReadsExist
  <2>3. QED
    BY <2>1, <2>2
<1>6. Within(read, R) /\ Within(now, R)
  <2>1. /\ Cardinality(R) \in Nat /\ Cardinality(Accepted(R)) \in Nat
        /\ Cardinality(Rejected(R)) \in Nat
    BY <1>2, <1>4, FS_CardinalityType
  <2>2. CASE tx[s].read = None
    <3>1. Within(zero, R)
      BY <2>1 DEF Within
    <3>2. QED
      BY <2>2, <3>1
  <2>3. CASE tx[s].read # None
    <3>1. checkpoint[tx[s].connector] # None
      BY <2>3 DEF Inv, ReadsExist
    <3>2. Within(tx[s].read, R) /\ Within(checkpoint[tx[s].connector], R)
      BY <1>1, <2>3, <3>1 DEF Counts, CountersNeverOverstate
    <3>3. QED
      BY <2>3, <3>2
  <2>4. QED
    BY <2>2, <2>3
<1>7. /\ CheckpointOf(s).processed = Counted(now.processed, read.processed, Cardinality(M))
      /\ CheckpointOf(s).accepted = Counted(now.accepted, read.accepted,
                                            Cardinality(Accepted(M)))
      /\ CheckpointOf(s).rejected = Counted(now.rejected, read.rejected,
                                            Cardinality(Rejected(M)))
  BY DEF CheckpointOf, Processed
<1> HIDE DEF read, now, zero, R, M
<1>8. /\ now.processed \in Nat /\ now.accepted \in Nat /\ now.rejected \in Nat
      /\ read.processed \in Nat /\ read.accepted \in Nat /\ read.rejected \in Nat
  BY <1>5 DEF Counters
<1>9. CheckpointOf(s).processed <= Cardinality(R \cup M)
  <2>1. /\ Cardinality(R) \in Nat /\ Cardinality(M) \in Nat
        /\ Cardinality(R \cup M) = Cardinality(R) + Cardinality(M)
    BY <1>2, <1>3, CountsAdd
  <2>2. now.processed <= Cardinality(R) /\ read.processed <= Cardinality(R)
    BY <1>6 DEF Within
  <2>3. QED
    BY <1>7, <1>8, <2>1, <2>2 DEF Counted
<1>10. CheckpointOf(s).accepted <= Cardinality(Accepted(R \cup M))
  <2>1. /\ Cardinality(Accepted(R)) \in Nat /\ Cardinality(Accepted(M)) \in Nat
        /\ Cardinality(Accepted(R \cup M))
             = Cardinality(Accepted(R)) + Cardinality(Accepted(M))
    BY <1>4, CountsAdd
  <2>2. /\ now.accepted <= Cardinality(Accepted(R))
        /\ read.accepted <= Cardinality(Accepted(R))
    BY <1>6 DEF Within
  <2>3. QED
    BY <1>7, <1>8, <2>1, <2>2 DEF Counted
<1>11. CheckpointOf(s).rejected <= Cardinality(Rejected(R \cup M))
  <2>1. /\ Cardinality(Rejected(R)) \in Nat /\ Cardinality(Rejected(M)) \in Nat
        /\ Cardinality(Rejected(R \cup M))
             = Cardinality(Rejected(R)) + Cardinality(Rejected(M))
    BY <1>4, CountsAdd
  <2>2. /\ now.rejected <= Cardinality(Rejected(R))
        /\ read.rejected <= Cardinality(Rejected(R))
    BY <1>6 DEF Within
  <2>3. QED
    BY <1>7, <1>8, <2>1, <2>2 DEF Counted
<1>12. QED
  BY <1>9, <1>10, <1>11 DEF Within, R, M

LEMMA CountsInit == Init => Counts
<1> SUFFICES ASSUME Init PROVE Counts
  OBVIOUS
<1>1. \A s \in Sessions : tx[s].pc = "idle"
  BY IdleTyped DEF Init
<1>2. \A c \in Connectors : stored[c] = {} /\ checkpoint[c] = None
  BY DEF Init
<1>3. QED
  BY <1>1, <1>2, FS_EmptySet DEF Counts, CountersNeverOverstate

\* A step of s that stores nothing: what s read comes from the committed row
\* or was read before.
LEMMA NothingStored ==
  ASSUME Inv, Counts, NEW s \in Sessions, OnlyOf(s), UNCHANGED <<status, stored, checkpoint>>,
         tx'[s].pc # "idle" =>
           \/ /\ tx[s].pc # "idle"
              /\ tx'[s].connector = tx[s].connector /\ tx'[s].read = tx[s].read
           \/ /\ tx'[s].connector \in Connectors
              /\ status[tx'[s].connector] = "healthy"
              /\ tx'[s].read = checkpoint[tx'[s].connector]
  PROVE  Counts'
<1>1. \A u \in Sessions : u # s => tx'[u] = tx[u]
  BY DEF OnlyOf
<1>2. ASSUME NEW u \in Sessions, tx'[u].pc # "idle"
      PROVE  /\ status'[tx'[u].connector] = "healthy"
             /\ tx'[u].read # None => Within(tx'[u].read, stored'[tx'[u].connector])
  BY <1>1, <1>2 DEF Counts, CountersNeverOverstate
<1>3. CountersNeverOverstate'
  BY DEF Counts, CountersNeverOverstate
<1>4. QED
  BY <1>2, <1>3 DEF Counts

LEMMA CommitCounts ==
  ASSUME Inv, Counts, NEW s \in Sessions, Commit(s)
  PROVE  Counts'
<1> DEFINE c == tx[s].connector
<1>1. /\ stored' = [stored EXCEPT ![c] = @ \cup tx[s].mine]
      /\ checkpoint' = [checkpoint EXCEPT ![c] = CheckpointOf(s)]
      /\ status' = [status EXCEPT ![c] = "healthy"]
      /\ End(s) /\ tx[s].pc # "idle"
  BY DEF Commit
<1>2. TypeOK /\ c \in Connectors
  BY <1>1 DEF Inv, TypeOK
<1>3. /\ stored'[c] = stored[c] \cup tx[s].mine /\ checkpoint'[c] = CheckpointOf(s)
      /\ status'[c] = "healthy"
      /\ \A d \in Connectors : d # c => /\ stored'[d] = stored[d] /\ status'[d] = status[d]
                                        /\ checkpoint'[d] = checkpoint[d]
  BY <1>1, <1>2 DEF TypeOK
<1>4. \A d \in Connectors : IsFiniteSet(stored'[d]) /\ stored[d] \subseteq stored'[d]
  <2>1. IsFiniteSet(stored[c]) /\ IsFiniteSet(tx[s].mine)
    BY <1>2 DEF Counts, Inv, Fresh
  <2>2. IsFiniteSet(stored[c] \cup tx[s].mine)
    BY <2>1, FS_Union
  <2>3. \A d \in Connectors : IsFiniteSet(stored[d])
    BY DEF Counts
  <2>4. QED
    BY <1>3, <2>2, <2>3
<1>5. CountersNeverOverstate'
  BY <1>1, <1>3, CheckpointWithin DEF Counts, CountersNeverOverstate
<1>6. ASSUME NEW u \in Sessions, tx'[u].pc # "idle"
      PROVE  /\ status'[tx'[u].connector] = "healthy"
             /\ tx'[u].read # None => Within(tx'[u].read, stored'[tx'[u].connector])
  <2>1. u # s /\ tx'[u] = tx[u]
    BY <1>1, <1>2, <1>6, EndEffect, IdleTyped DEF OnlyOf
  <2>2. tx[u].connector \in Connectors /\ tx[u].read \in Counters \cup {None}
    BY <1>2, <1>6, <2>1 DEF TypeOK, Transaction
  <2>3. status'[tx[u].connector] = "healthy"
    BY <1>3, <1>6, <2>1, <2>2 DEF Counts
  <2>4. tx[u].read # None => Within(tx[u].read, stored'[tx[u].connector])
    BY <1>4, <1>6, <2>1, <2>2, WithinGrows DEF Counts
  <2>5. QED
    BY <2>1, <2>3, <2>4
<1>7. \A d \in Connectors :
        stored'[d] # {} \/ checkpoint'[d] # None => status'[d] = "healthy"
  BY <1>3 DEF Counts
<1>8. QED
  BY <1>4, <1>5, <1>6, <1>7 DEF Counts

LEMMA CountsStep == Inv /\ Counts /\ [Next]_vars => Counts'
<1> SUFFICES ASSUME Inv, Counts, [Next]_vars PROVE Counts'
  OBVIOUS
<1>0. TypeOK
  BY DEF Inv
<1>1. CASE \E c \in Connectors : CreateConnector(c) \/ EnableConnector(c)
  <2>1. UNCHANGED <<stored, checkpoint, tx>>
    BY <1>1 DEF CreateConnector, EnableConnector
  <2>2. \A d \in Connectors : status[d] = "healthy" => status'[d] = "healthy"
    BY <1>0, <1>1 DEF CreateConnector, EnableConnector, TypeOK
  <2>3. \A s \in Sessions : tx[s].pc # "idle" => tx[s].connector \in Connectors
    BY <1>0 DEF TypeOK
  <2>4. QED
    BY <2>1, <2>2, <2>3 DEF Counts, CountersNeverOverstate
<1>2. ASSUME NEW s \in Sessions, NEW c \in Connectors, Begin(s, c)
      PROVE  Counts'
  <2>1. status[c] = "healthy" /\ UNCHANGED <<status, stored, checkpoint>>
    BY <1>0, <1>2 DEF Begin, Serves, TypeOK, Statuses
  <2>2. QED
    BY <1>0, <1>2, <2>1, BeginEffect, NothingStored
<1>3. ASSUME NEW s \in Sessions, Duplicate(s)
      PROVE  Counts'
  BY <1>0, <1>3, DuplicateEffect, NothingStored DEF Duplicate
<1>4. ASSUME NEW s \in Sessions, NewEvent(s)
      PROVE  Counts'
  BY <1>0, <1>4, NewEventEffect, NothingStored DEF NewEvent
<1>5. ASSUME NEW s \in Sessions, FlushCheckpoint(s) \/ WriteConnector(s)
      PROVE  Counts'
  <2>1. tx[s].pc # "idle" /\ UNCHANGED <<status, stored, checkpoint>>
    BY <1>5 DEF FlushCheckpoint, WriteConnector
  <2>2. QED
    BY <1>0, <1>5, <2>1, FlushEffect, NothingStored
<1>6. ASSUME NEW s \in Sessions, InsertRecord(s)
      PROVE  Counts'
  BY <1>0, <1>6, InsertEffect, NothingStored DEF InsertRecord
<1>7. ASSUME NEW s \in Sessions, Fail(s) \/ Crash(s) \/ BreakDeadlock(s)
      PROVE  Counts'
  <2>1. UNCHANGED <<status, stored, checkpoint>> /\ End(s)
    BY <1>7 DEF Fail, Crash, BreakDeadlock
  <2>2. QED
    BY <1>0, <2>1, EndEffect, IdleTyped, NothingStored
<1>8. CASE UNCHANGED vars
  BY <1>8 DEF vars, Counts, CountersNeverOverstate
<1>9. QED
  BY <1>1, <1>2, <1>3, <1>4, <1>5, <1>6, <1>7, <1>8, CommitCounts DEF Next, Locking

LEMMA CountsAlways == Spec => [](Inv /\ Counts)
BY InvInit, InvStep, CountsInit, CountsStep, PTL DEF Spec

-----------------------------------------------------------------------------
(* Requests that come one at a time.                                       *)

Active(s) == tx[s].pc # "idle"

\* What a request under way alone has read is what is committed; the event it
\* inserts is new; a first checkpoint is written before the first record.
Undisturbed(s) ==
  LET c == tx[s].connector IN
  /\ tx[s].read = checkpoint[c]
  /\ tx[s].pc \in {"flush", "insert"} => tx[s].event \notin Ids(Visible(s))
  /\ tx[s].read = None /\ (tx[s].mine # {} \/ tx[s].pc = "insert")
       => checkpointLock[c] = s

OneAtATime ==
  ~overlap =>
    /\ ~Together
    /\ CountersAreExact
    /\ \A s \in Sessions : Active(s) => Undisturbed(s)

\* Accepted and rejected records together are all of them.
LEMMA VerdictsAdd ==
  ASSUME NEW R, R \subseteq Record, IsFiniteSet(R)
  PROVE  /\ Cardinality(R) \in Nat /\ Cardinality(Accepted(R)) \in Nat
         /\ Cardinality(Rejected(R)) \in Nat
         /\ Cardinality(R) = Cardinality(Accepted(R)) + Cardinality(Rejected(R))
<1>1. R = Accepted(R) \cup Rejected(R) /\ Accepted(R) \cap Rejected(R) = {}
  BY DEF Accepted, Rejected, Record, Verdicts
<1>2. IsFiniteSet(Accepted(R)) /\ IsFiniteSet(Rejected(R))
  <2>1. Accepted(R) \subseteq R /\ Rejected(R) \subseteq R
    BY DEF Accepted, Rejected
  <2>2. QED
    BY <2>1, FS_Subset
<1>3. /\ Cardinality(Accepted(R)) \in Nat /\ Cardinality(Rejected(R)) \in Nat
      /\ Cardinality(Accepted(R) \cup Rejected(R))
           = Cardinality(Accepted(R)) + Cardinality(Rejected(R))
  BY <1>1, <1>2, CountsAdd
<1>4. Cardinality(R) \in Nat
  BY FS_CardinalityType
<1>5. QED
  BY <1>1, <1>3, <1>4

\* The checkpoint of a request that nobody overlapped counts what is stored
\* after its commit.
LEMMA CheckpointExact ==
  ASSUME Inv, Counts, CountersAreExact, NEW s \in Sessions, Active(s), Undisturbed(s)
  PROVE  LET n == CheckpointOf(s)
             S == stored[tx[s].connector] \cup tx[s].mine IN
         /\ n \in Counters
         /\ n.processed = Cardinality(S) /\ n.accepted = Cardinality(Accepted(S))
         /\ n.processed = n.accepted + n.rejected
<1> DEFINE c == tx[s].connector
           R == stored[c]
           M == tx[s].mine
           zero == [processed |-> 0, accepted |-> 0, rejected |-> 0, duplicates |-> 0]
           read == IF tx[s].read = None THEN zero ELSE tx[s].read
           now  == IF tx[s].read = None THEN zero ELSE checkpoint[c]
           n == CheckpointOf(s)
<1>1. tx[s] \in Transaction /\ c \in Connectors /\ tx[s].read = checkpoint[c]
  BY DEF Inv, TypeOK, Active, Undisturbed
<1>2. /\ IsFiniteSet(R) /\ IsFiniteSet(M) /\ Ids(M) \cap Ids(R) = {}
      /\ R \subseteq Record /\ M \subseteq Record
  BY <1>1 DEF Inv, TypeOK, Transaction, Fresh, Counts, Active
<1>3. R \cap M = {} /\ Accepted(R) \cap Accepted(M) = {}
  BY <1>2 DEF Ids, Accepted
<1>4. Accepted(R \cup M) = Accepted(R) \cup Accepted(M)
  BY DEF Accepted
<1>5. /\ IsFiniteSet(Accepted(R)) /\ IsFiniteSet(Accepted(M))
      /\ Accepted({}) = {} /\ Cardinality({}) = 0
  <2>1. Accepted(R) \subseteq R /\ Accepted(M) \subseteq M /\ Accepted({}) = {}
    BY DEF Accepted
  <2>2. QED
    BY <1>2, <2>1, FS_Subset, FS_EmptySet
<1>6. /\ read = now /\ read \in Counters
      /\ read.processed = Cardinality(R) /\ read.accepted = Cardinality(Accepted(R))
      /\ read.processed = read.accepted + read.rejected
  <2>1. CASE checkpoint[c] = None
    <3>1. R = {} /\ read = zero /\ now = zero
      BY <1>1, <2>1 DEF CountersAreExact
    <3>2. /\ zero \in Counters /\ zero.processed = 0 /\ zero.accepted = 0
          /\ zero.rejected = 0
      BY DEF Counters
    <3>3. Cardinality(R) = 0 /\ Cardinality(Accepted(R)) = 0
      BY <1>5, <3>1
    <3> HIDE DEF read, now, zero, R
    <3>4. QED
      BY <3>1, <3>2, <3>3
  <2>2. CASE checkpoint[c] # None
    <3>1. checkpoint[c] \in Counters
      BY <1>1, <2>2 DEF Inv, TypeOK
    <3>2. read = checkpoint[c] /\ now = checkpoint[c]
      BY <1>1, <2>2
    <3>3. QED
      BY <1>1, <2>2, <3>1, <3>2 DEF CountersAreExact
  <2>3. QED
    BY <2>1, <2>2
<1>7. /\ n.processed = Counted(now.processed, read.processed, Cardinality(M))
      /\ n.accepted = Counted(now.accepted, read.accepted, Cardinality(Accepted(M)))
      /\ n.rejected = Counted(now.rejected, read.rejected, Cardinality(Rejected(M)))
  BY DEF CheckpointOf, Processed
<1>8. n \in Counters
  <2>1. Inserted
    BY DEF Inv, Fresh, Inserted
  <2>2. tx[s].read # None => checkpoint[c] # None
    BY <1>1
  <2>3. QED
    BY <1>1, <2>1, <2>2, CheckpointTyped DEF Inv
<1> HIDE DEF read, now, zero, n, R, M
<1>9. /\ read.processed \in Nat /\ read.accepted \in Nat /\ read.rejected \in Nat
  BY <1>6 DEF Counters
<1>10. /\ Cardinality(M) \in Nat /\ Cardinality(Accepted(M)) \in Nat
       /\ Cardinality(Rejected(M)) \in Nat
       /\ Cardinality(M) = Cardinality(Accepted(M)) + Cardinality(Rejected(M))
  BY <1>2, VerdictsAdd
<1>11. /\ n.processed = read.processed + Cardinality(M)
       /\ n.accepted = read.accepted + Cardinality(Accepted(M))
       /\ n.rejected = read.rejected + Cardinality(Rejected(M))
  BY <1>6, <1>7, <1>9, <1>10 DEF Counted
<1>12. Cardinality(R \cup M) = Cardinality(R) + Cardinality(M)
  BY <1>2, <1>3, CountsAdd
<1>13. Cardinality(Accepted(R \cup M)) = Cardinality(Accepted(R)) + Cardinality(Accepted(M))
  BY <1>3, <1>4, <1>5, CountsAdd
<1>14. n.processed = n.accepted + n.rejected
  BY <1>6, <1>9, <1>10, <1>11
<1>15. QED
  BY <1>6, <1>8, <1>11, <1>12, <1>13, <1>14 DEF n, R, M

\* A commit that nobody overlapped leaves exact counters.
LEMMA CommitExact ==
  ASSUME Inv, Counts, CountersAreExact, NEW s \in Sessions, Undisturbed(s), Commit(s)
  PROVE  CountersAreExact'
<1> DEFINE c == tx[s].connector
           S == stored[c] \cup tx[s].mine
<1>1. /\ stored' = [stored EXCEPT ![c] = @ \cup tx[s].mine]
      /\ checkpoint' = [checkpoint EXCEPT ![c] = CheckpointOf(s)]
      /\ Active(s) /\ TypeOK /\ c \in Connectors
  BY DEF Commit, Active, Inv, TypeOK
<1>2. /\ stored'[c] = S /\ checkpoint'[c] = CheckpointOf(s)
      /\ \A d \in Connectors : d # c => /\ stored'[d] = stored[d]
                                        /\ checkpoint'[d] = checkpoint[d]
  BY <1>1 DEF TypeOK
<1>3. /\ CheckpointOf(s) \in Counters
      /\ CheckpointOf(s).processed = Cardinality(S)
      /\ CheckpointOf(s).accepted = Cardinality(Accepted(S))
      /\ CheckpointOf(s).processed = CheckpointOf(s).accepted + CheckpointOf(s).rejected
  BY <1>1, CheckpointExact
<1>4. CheckpointOf(s) # None
  BY <1>3, NoneIsNull
<1> HIDE DEF S
<1>5. QED
  BY <1>2, <1>3, <1>4 DEF CountersAreExact

\* A step of s that commits nothing and takes no checkpoint lock from another.
LEMMA AloneStep ==
  ASSUME Inv, CountersAreExact, NEW s \in Sessions, OnlyOf(s),
         \A u \in Sessions : u # s /\ Active(u) => Undisturbed(u),
         UNCHANGED <<stored, checkpoint>>,
         \A u \in Sessions \ {s}, c \in Connectors :
           checkpointLock[c] = u => checkpointLock'[c] = u,
         Active(s)' => Undisturbed(s)'
  PROVE  CountersAreExact' /\ \A u \in Sessions : Active(u)' => Undisturbed(u)'
<1>1. CountersAreExact'
  BY DEF CountersAreExact
<1>2. ASSUME NEW u \in Sessions, u # s, Active(u)' PROVE Undisturbed(u)'
  <2>1. tx'[u] = tx[u] /\ Active(u)
    BY <1>2 DEF OnlyOf, Active
  <2>2. tx[u].connector \in Connectors
    BY <2>1 DEF Inv, TypeOK, Active
  <2>3. Undisturbed(u)
    BY <1>2, <2>1
  <2>4. Visible(u)' = Visible(u)
    BY <2>1 DEF Visible
  <2>5. QED
    BY <1>2, <2>1, <2>2, <2>3, <2>4 DEF Undisturbed
<1>3. QED
  BY <1>1, <1>2

LEMMA OneAtATimeStep ==
  Inv /\ Counts /\ OneAtATime /\ [TrackedNext]_trackedVars => OneAtATime'
<1> SUFFICES ASSUME Inv, Counts, OneAtATime, Next, ~overlap,
                    \A s, t \in Sessions : s # t => ~Active(s) \/ ~Active(t)
             PROVE  CountersAreExact' /\ \A s \in Sessions : Active(s)' => Undisturbed(s)'
  <2>1. CASE UNCHANGED trackedVars
    BY <2>1 DEF trackedVars, vars, OneAtATime, Together, CountersAreExact, Active,
                Undisturbed, Visible
  <2>2. CASE TrackedNext
    BY <2>2 DEF TrackedNext, OneAtATime, Together, Active
  <2>3. QED
    BY <2>1, <2>2
<1>0. /\ TypeOK /\ CountersAreExact
      /\ \A s \in Sessions : Active(s) => Undisturbed(s)
      /\ \A s \in Sessions : Active(s) => tx[s].connector \in Connectors
  BY DEF Inv, TypeOK, OneAtATime, Active
<1>1. CASE \E c \in Connectors : CreateConnector(c) \/ EnableConnector(c)
  <2>1. UNCHANGED <<stored, checkpoint, tx, checkpointLock>>
    BY <1>1 DEF CreateConnector, EnableConnector
  <2>2. QED
    BY <1>0, <2>1 DEF CountersAreExact, Active, Undisturbed, Visible
<1>2. ASSUME NEW s \in Sessions, NEW c \in Connectors, Begin(s, c)
      PROVE  CountersAreExact' /\ \A u \in Sessions : Active(u)' => Undisturbed(u)'
  <2>1. UNCHANGED <<stored, checkpoint, checkpointLock>> /\ OnlyOf(s)
    BY <1>0, <1>2, BeginEffect DEF Begin
  <2>2. Undisturbed(s)'
    <3>1. /\ tx'[s].pc = "loop" /\ tx'[s].connector = c /\ tx'[s].mine = {}
          /\ tx'[s].read = checkpoint'[c]
      BY <1>0, <1>2, <2>1, BeginEffect
    <3>2. QED
      BY <3>1 DEF Undisturbed
  <2>3. QED
    BY <1>0, <2>1, <2>2, AloneStep
<1>3. ASSUME NEW s \in Sessions, Duplicate(s)
      PROVE  CountersAreExact' /\ \A u \in Sessions : Active(u)' => Undisturbed(u)'
  <2>1. UNCHANGED <<stored, checkpoint, checkpointLock>> /\ OnlyOf(s)
    BY <1>0, <1>3, DuplicateEffect DEF Duplicate
  <2>2. Undisturbed(s)'
    <3>1. /\ tx'[s].pc = "loop" /\ tx'[s].connector = tx[s].connector
          /\ tx'[s].mine = tx[s].mine /\ tx'[s].read = tx[s].read
      BY <1>0, <1>3, DuplicateEffect
    <3>2. Undisturbed(s)
      BY <1>0, <1>3 DEF Duplicate, Active
    <3>3. QED
      BY <2>1, <3>1, <3>2 DEF Undisturbed
  <2>3. QED
    BY <1>0, <2>1, <2>2, AloneStep
<1>4. ASSUME NEW s \in Sessions, NewEvent(s)
      PROVE  CountersAreExact' /\ \A u \in Sessions : Active(u)' => Undisturbed(u)'
  <2>1. UNCHANGED <<stored, checkpoint, checkpointLock>> /\ OnlyOf(s)
    BY <1>0, <1>4, NewEventEffect DEF NewEvent
  <2>2. Undisturbed(s)'
    <3>1. /\ tx'[s].pc = "flush" /\ tx'[s].connector = tx[s].connector
          /\ tx'[s].mine = tx[s].mine /\ tx'[s].read = tx[s].read
          /\ tx'[s].event \notin Ids(Visible(s))
      BY <1>0, <1>4, NewEventEffect
    <3>2. Undisturbed(s)
      BY <1>0, <1>4 DEF NewEvent, Active
    <3>3. Visible(s)' = Visible(s)
      BY <2>1, <3>1 DEF Visible
    <3>4. QED
      BY <2>1, <3>1, <3>2, <3>3 DEF Undisturbed
  <2>3. QED
    BY <1>0, <2>1, <2>2, AloneStep
<1>5. ASSUME NEW s \in Sessions, FlushCheckpoint(s) \/ WriteConnector(s)
      PROVE  CountersAreExact' /\ \A u \in Sessions : Active(u)' => Undisturbed(u)'
  <2> DEFINE c == tx[s].connector
  <2>1. /\ UNCHANGED <<stored, checkpoint>> /\ OnlyOf(s)
        /\ Active(s) /\ Undisturbed(s) /\ c \in Connectors
    BY <1>0, <1>5, FlushEffect DEF FlushCheckpoint, WriteConnector, Active
  <2>2. \A u \in Sessions : u # s => ~Active(u)
    BY <2>1
  <2>3. /\ tx'[s].pc = IF FlushCheckpoint(s) THEN "insert" ELSE "closing"
        /\ tx'[s].connector = c /\ tx'[s].event = tx[s].event
        /\ tx'[s].mine = tx[s].mine /\ tx'[s].read = tx[s].read
    BY <1>0, <1>5, FlushEffect
  <2>4. tx[s].read = None /\ (tx'[s].mine # {} \/ tx'[s].pc = "insert")
          => checkpointLock'[c] = s
    <3>1. CASE WriteConnector(s) /\ ~FlushCheckpoint(s)
      BY <2>1, <2>3, <3>1 DEF WriteConnector, Undisturbed
    <3>2. CASE FlushCheckpoint(s)
      BY <1>0, <2>1, <3>2 DEF FlushCheckpoint, CheckpointIsDirty, TypeOK
    <3>3. QED
      BY <1>5, <3>1, <3>2
  <2>5. Visible(s)' = Visible(s)
    BY <2>1, <2>3 DEF Visible
  <2>6. tx'[s].pc \in {"flush", "insert"} => tx'[s].event \notin Ids(Visible(s))
    BY <2>1, <2>3 DEF FlushCheckpoint, Undisturbed
  <2>7. Undisturbed(s)'
    <3>1. tx'[s].read = checkpoint'[c]
      BY <2>1, <2>3 DEF Undisturbed
    <3>2. QED
      BY <2>3, <2>4, <2>5, <2>6, <3>1 DEF Undisturbed
  <2>8. \A u \in Sessions : u # s => ~Active(u)'
    BY <2>1, <2>2 DEF OnlyOf, Active
  <2>9. CountersAreExact'
    BY <1>0, <2>1 DEF CountersAreExact
  <2>10. QED
    BY <2>7, <2>8, <2>9
<1>6. ASSUME NEW s \in Sessions, InsertRecord(s)
      PROVE  CountersAreExact' /\ \A u \in Sessions : Active(u)' => Undisturbed(u)'
  <2>1. UNCHANGED <<stored, checkpoint, checkpointLock>> /\ OnlyOf(s)
    BY <1>0, <1>6, InsertEffect DEF InsertRecord
  <2>2. Undisturbed(s)'
    <3>1. /\ tx'[s].pc = "loop" /\ tx'[s].connector = tx[s].connector
          /\ tx'[s].read = tx[s].read
      BY <1>0, <1>6, InsertEffect
    <3>2. tx[s].pc = "insert" /\ Undisturbed(s)
      BY <1>0, <1>6 DEF InsertRecord, Active
    <3>3. QED
      BY <2>1, <3>1, <3>2 DEF Undisturbed
  <2>3. QED
    BY <1>0, <2>1, <2>2, AloneStep
<1>7. ASSUME NEW s \in Sessions, Fail(s) \/ Crash(s) \/ BreakDeadlock(s)
      PROVE  CountersAreExact' /\ \A u \in Sessions : Active(u)' => Undisturbed(u)'
  <2>1. UNCHANGED <<stored, checkpoint>> /\ End(s)
    BY <1>7 DEF Fail, Crash, BreakDeadlock
  <2>2. OnlyOf(s) /\ ~Active(s)'
    BY <1>0, <2>1, EndEffect, IdleTyped DEF Active
  <2>3. \A u \in Sessions \ {s}, c \in Connectors :
          checkpointLock[c] = u => checkpointLock'[c] = u
    BY <2>1 DEF End
  <2>4. QED
    BY <1>0, <2>1, <2>2, <2>3, AloneStep
<1>8. ASSUME NEW s \in Sessions, Commit(s)
      PROVE  CountersAreExact' /\ \A u \in Sessions : Active(u)' => Undisturbed(u)'
  <2>1. Active(s) /\ Undisturbed(s)
    BY <1>0, <1>8 DEF Commit, Active
  <2>2. \A u \in Sessions : u # s => ~Active(u)
    BY <2>1
  <2>3. \A u \in Sessions : ~Active(u)'
    BY <1>0, <1>8, <2>2, EndEffect, IdleTyped DEF Commit, OnlyOf, Active
  <2>4. QED
    BY <1>0, <1>8, <2>1, <2>3, CommitExact
<1>9. QED
  BY <1>1, <1>2, <1>3, <1>4, <1>5, <1>6, <1>7, <1>8 DEF Next, Locking

LEMMA OneAtATimeAlways == TrackedSpec => [](Inv /\ Counts /\ OneAtATime)
<1>1. TrackedInit => Inv /\ Counts /\ OneAtATime
  <2> SUFFICES ASSUME TrackedInit PROVE Inv /\ Counts /\ OneAtATime
    OBVIOUS
  <2>1. \A s \in Sessions : ~Active(s)
    BY IdleTyped DEF TrackedInit, Init, Active
  <2>2. CountersAreExact
    BY DEF TrackedInit, Init, CountersAreExact
  <2>3. OneAtATime
    BY <2>1, <2>2 DEF OneAtATime, Together, Active
  <2>4. QED
    BY <2>3, InvInit, CountsInit DEF TrackedInit
<1>2. [TrackedNext]_trackedVars => [Next]_vars
  BY DEF TrackedNext, trackedVars
<1>3. QED
  BY <1>1, <1>2, InvStep, CountsStep, OneAtATimeStep, PTL DEF TrackedSpec

-----------------------------------------------------------------------------
(* Nobody waits for ever: the invariant behind EveryIngestEnds.            *)

\* The guards of the steps that continue a request: the next envelope, a flush
\* that gets its lock, a commit.
MayGoOn(s) ==
  \/ /\ tx[s].pc = "loop" /\ tx[s].left > 0
     /\ \/ Countable(s) /\ Ids(Visible(s)) # {}
        \/ Events \ Ids(Visible(s)) # {}
  \/ tx[s].pc \in {"flush", "closing"} /\ MayWriteCheckpoint(s)
  \/ tx[s].pc = "insert" /\ MayInsert(s)
  \/ tx[s].pc = "loop" /\ tx[s].left = 0 /\ connectorLock[tx[s].connector] = None

\* Whenever requests are under way, one of them goes on, fails on what it meets
\* in the tables, or is the victim of a deadlock.
SomebodyCanStep ==
  (\E s \in Sessions : Active(s))
    => \E s \in Sessions : Active(s) /\ (MayGoOn(s) \/ Conflicts(s) \/ Victim(s))

\* No lock outlives its transaction, and finitely many are under way.
LocksAreHeld ==
  /\ \A c \in Connectors, s \in Sessions :
       checkpointLock[c] = s \/ connectorLock[c] = s => Active(s)
  /\ IsFiniteSet({s \in Sessions : Active(s)})

\* A request that cannot go on and does not fail waits for one under way.
LEMMA WaitsForActive ==
  ASSUME Inv, LocksAreHeld, Events # {},
         NEW s \in Sessions, Active(s), ~MayGoOn(s), ~Conflicts(s)
  PROVE  \E t \in Sessions : Active(t) /\ WaitsFor(s, t)
<1> DEFINE c == tx[s].connector
<1>1. /\ c \in Connectors /\ tx[s].left \in Nat
      /\ tx[s].pc \in {"loop", "flush", "insert", "closing"}
      /\ checkpointLock[c] \in Sessions \cup {None}
      /\ connectorLock[c] \in Sessions \cup {None}
  BY DEF Active, Inv, TypeOK, Transaction
<1>2. CASE tx[s].pc \in {"flush", "closing"}
  <2>1. ~MayWriteCheckpoint(s)
    BY <1>2 DEF MayGoOn
  <2>2. /\ CheckpointIsDirty(s) /\ checkpointLock[c] # s
        /\ checkpointLock[c] # None \/ (tx[s].read = None /\ checkpoint[c] # None)
    BY <2>1 DEF MayWriteCheckpoint
  <2>3. tx[s].read = None => checkpoint[c] = None
    BY <1>2, <2>2 DEF Conflicts
  <2>4. PICK t \in Sessions : checkpointLock[c] = t
    BY <1>1, <2>2, <2>3
  <2>5. QED
    BY <1>1, <1>2, <2>2, <2>3, <2>4 DEF WaitsFor, LocksAreHeld
<1>3. CASE tx[s].pc = "insert"
  <2>1. Rivals(s) # {}
    BY <1>3 DEF MayGoOn, MayInsert, Conflicts
  <2>2. PICK t \in Rivals(s) : TRUE
    BY <2>1
  <2>3. t \in Sessions /\ tx[t].mine # {}
    BY <2>2 DEF Rivals, Ids
  <2>4. Active(t)
    BY <2>3 DEF Inv, Fresh, Active
  <2>5. QED
    BY <1>3, <2>2, <2>3, <2>4 DEF WaitsFor
<1>4. CASE tx[s].pc = "loop" /\ tx[s].left = 0
  <2>1. PICK t \in Sessions : connectorLock[c] = t
    BY <1>1, <1>4 DEF MayGoOn
  <2>2. QED
    BY <1>1, <1>4, <2>1 DEF WaitsFor, LocksAreHeld
<1>5. CASE tx[s].pc = "loop" /\ tx[s].left # 0
  <2>1. tx[s].left > 0
    BY <1>1, <1>5
  <2>2. Ids(Visible(s)) # {}
    BY <1>5, <2>1 DEF MayGoOn
  <2>3. ~Countable(s)
    BY <1>5, <2>1, <2>2 DEF MayGoOn
  <2>4. QED
    BY <1>5, <2>1, <2>2, <2>3 DEF Conflicts
<1>6. QED
  BY <1>1, <1>2, <1>3, <1>4, <1>5

\* Where everybody of a finite group waits for somebody of it, some of them
\* wait in a circle.
LEMMA CircleExists ==
  ASSUME NEW A, IsFiniteSet(A), A \subseteq Sessions, A # {},
         \A s \in A : \E t \in A : WaitsFor(s, t)
  PROVE  \E S \in SUBSET A : Deadlocked(S)
<1> DEFINE Groups == {S \in SUBSET A : S # {} /\ \A s \in S : \E t \in S : WaitsFor(s, t)}
<1>1. IsWellFoundedOn(StrictSubsetOrdering(A), SUBSET A)
  BY FS_FiniteSubsetsOfFinite, FS_StrictSubsetOrderingWellFounded
<1>2. Groups \subseteq SUBSET A /\ A \in Groups
  OBVIOUS
<1>3. \A S \in Groups : S \in SUBSET A /\ S # {} /\ \A s \in S : \E t \in S : WaitsFor(s, t)
  OBVIOUS
<1>4. ASSUME NEW S \in Groups, NEW s \in S, \A u \in S : ~WaitsFor(u, s)
      PROVE  S \ {s} \in Groups
  <2>1. \A u \in S : \E t \in S \ {s} : WaitsFor(u, t)
    BY <1>3, <1>4
  <2>2. QED
    BY <1>3, <1>4, <2>1
<1> HIDE DEF Groups
<1>5. PICK S \in Groups : \A T \in Groups : ~(<<T, S>> \in StrictSubsetOrdering(A))
  <2>1. Groups # {}
    BY <1>2
  <2>2. QED
    BY <1>1, <1>2, <2>1, WFMin
<1>6. ASSUME NEW s \in S
      PROVE  \E u \in S : WaitsFor(u, s)
  <2>1. <<S \ {s}, S>> \in StrictSubsetOrdering(A)
    BY <1>3, <1>5, <1>6 DEF StrictSubsetOrdering
  <2>2. QED
    BY <1>4, <1>5, <1>6, <2>1
<1>7. QED
  BY <1>3, <1>5, <1>6 DEF Deadlocked

LEMMA NobodyStuck ==
  ASSUME Inv, LocksAreHeld, Events # {}
  PROVE  SomebodyCanStep
<1> DEFINE A == {s \in Sessions : Active(s)}
<1> SUFFICES ASSUME A # {},
                    \A s \in A : ~MayGoOn(s) /\ ~Conflicts(s)
             PROVE  \E s \in A : Victim(s)
  BY DEF SomebodyCanStep
<1>1. \A s \in A : \E t \in A : WaitsFor(s, t)
  BY WaitsForActive
<1>2. IsFiniteSet(A) /\ A \subseteq Sessions
  BY DEF LocksAreHeld
<1> HIDE DEF A
<1>3. PICK S \in SUBSET A : Deadlocked(S)
  BY <1>1, <1>2, CircleExists
<1>4. PICK s \in S : TRUE
  BY <1>3 DEF Deadlocked
<1>5. s \in A /\ Victim(s)
  BY <1>2, <1>3, <1>4 DEF Victim
<1>6. QED
  BY <1>5

\* A step of s after which s holds no lock it did not hold, or is under way.
LEMMA LocksStayHeld ==
  ASSUME LocksAreHeld, NEW s \in Sessions, OnlyOf(s),
         \A c \in Connectors, u \in Sessions \ {s} :
           /\ checkpointLock'[c] = u => checkpointLock[c] = u
           /\ connectorLock'[c] = u => connectorLock[c] = u,
         \/ Active(s)'
         \/ \A c \in Connectors : checkpointLock'[c] # s /\ connectorLock'[c] # s
  PROVE  LocksAreHeld'
<1> DEFINE A == {u \in Sessions : Active(u)}
           B == {u \in Sessions : Active(u)'}
<1>1. \A u \in Sessions : u # s => (Active(u)' <=> Active(u))
  BY DEF OnlyOf, Active
<1>2. \A c \in Connectors, u \in Sessions :
        checkpointLock'[c] = u \/ connectorLock'[c] = u => Active(u)'
  BY <1>1 DEF LocksAreHeld
<1>3. IsFiniteSet(A \cup {s})
  BY FS_AddElement DEF LocksAreHeld
<1>4. B \subseteq A \cup {s}
  BY <1>1
<1>5. IsFiniteSet(B)
  BY <1>3, <1>4, FS_Subset
<1>6. QED
  BY <1>2, <1>5 DEF LocksAreHeld

LEMMA LocksStep == Inv /\ LocksAreHeld /\ [Next]_vars => LocksAreHeld'
<1> SUFFICES ASSUME Inv, LocksAreHeld, [Next]_vars PROVE LocksAreHeld'
  OBVIOUS
<1>0. TypeOK
  BY DEF Inv
<1>1. CASE \/ \E c \in Connectors : CreateConnector(c) \/ EnableConnector(c)
           \/ UNCHANGED vars
  <2>1. UNCHANGED <<tx, checkpointLock, connectorLock>>
    BY <1>1 DEF CreateConnector, EnableConnector, vars
  <2>2. QED
    BY <2>1 DEF LocksAreHeld, Active
<1>2. ASSUME NEW s \in Sessions,
             \/ \E c \in Connectors : Begin(s, c)
             \/ Duplicate(s) \/ NewEvent(s) \/ InsertRecord(s)
      PROVE  LocksAreHeld'
  <2>1. UNCHANGED <<checkpointLock, connectorLock>>
    BY <1>2 DEF Begin, Duplicate, NewEvent, InsertRecord
  <2>2. OnlyOf(s) /\ Active(s)'
    BY <1>0, <1>2, BeginEffect, DuplicateEffect, NewEventEffect, InsertEffect DEF Active
  <2>3. QED
    BY <2>1, <2>2, LocksStayHeld
<1>3. ASSUME NEW s \in Sessions, FlushCheckpoint(s) \/ WriteConnector(s)
      PROVE  LocksAreHeld'
  <2>1. OnlyOf(s) /\ Active(s)'
    BY <1>0, <1>3, FlushEffect DEF Active
  <2>2. \A c \in Connectors, u \in Sessions \ {s} :
          /\ checkpointLock'[c] = u => checkpointLock[c] = u
          /\ connectorLock'[c] = u => connectorLock[c] = u
    BY <1>0, <1>3 DEF FlushCheckpoint, WriteConnector, TypeOK
  <2>3. QED
    BY <2>1, <2>2, LocksStayHeld
<1>4. ASSUME NEW s \in Sessions, Commit(s) \/ Fail(s) \/ Crash(s) \/ BreakDeadlock(s)
      PROVE  LocksAreHeld'
  <2>1. End(s)
    BY <1>4 DEF Commit, Fail, Crash, BreakDeadlock
  <2>2. OnlyOf(s)
    BY <1>0, <2>1, EndEffect
  <2>3. /\ \A c \in Connectors : checkpointLock'[c] # s /\ connectorLock'[c] # s
        /\ \A c \in Connectors, u \in Sessions \ {s} :
             /\ checkpointLock'[c] = u => checkpointLock[c] = u
             /\ connectorLock'[c] = u => connectorLock[c] = u
    BY <2>1, NoneIsNull DEF End
  <2>4. QED
    BY <2>2, <2>3, LocksStayHeld
<1>5. QED
  BY <1>1, <1>2, <1>3, <1>4 DEF Next, Locking

-----------------------------------------------------------------------------
(* Theorems.                                                               *)

\* Every variable keeps its type, for any connectors, events and requests.
THEOREM IngestTypeCorrect == Spec => []TypeOK
BY InvAlways, PTL DEF Inv

\* What a 200 acknowledged, as new or as a duplicate, is stored for good.
THEOREM AcknowledgedForGood == Spec => []AcknowledgedIsStored
BY InvAlways, PTL DEF Inv

\* A commit appends a batch of new events to the log or leaves it alone.
LEMMA CommitAppends ==
  ASSUME Inv, NEW s \in Sessions, Commit(s)
  PROVE  [Log!Next]_stored
<1> DEFINE c == tx[s].connector
           batch == tx[s].mine
<1>1. c \in Connectors /\ batch \subseteq Record /\ stored \in [Connectors -> SUBSET Record]
  BY DEF Commit, Inv, TypeOK, Transaction
<1>2. stored' = [stored EXCEPT ![c] = @ \cup batch]
  BY DEF Commit
<1>3. Log!OncePerEvent(batch) /\ Ids(batch) \cap Ids(stored[c]) = {}
  BY DEF Commit, Inv, Fresh
<1>4. CASE batch = {}
  BY <1>1, <1>2, <1>4
<1>5. CASE batch # {}
  <2>1. batch \in SUBSET Log!Entry
    BY <1>1 DEF Log!Entry, Record
  <2>2. Log!Ids(batch) \cap Log!Ids(stored[c]) = {}
    BY <1>3 DEF Log!Ids, Ids
  <2>3. Log!StoreBatch(c)
    BY <1>2, <1>3, <1>5, <2>1, <2>2 DEF Log!StoreBatch
  <2>4. QED
    BY <1>1, <2>3 DEF Log!Next
<1>6. QED
  BY <1>4, <1>5

\* Concurrent, failing and repeated requests implement the append-only log.
THEOREM IngestImplementsLog == Spec => ImplementsLog
<1>1. Init => Log!Init
  BY DEF Init, Log!Init
<1>2. Inv /\ [Next]_vars => [Log!Next]_stored
  <2> SUFFICES ASSUME Inv, [Next]_vars PROVE [Log!Next]_stored
    OBVIOUS
  <2>1. CASE \E s \in Sessions : Commit(s)
    BY <2>1, CommitAppends
  <2>2. CASE ~ \E s \in Sessions : Commit(s)
    <3>1. UNCHANGED stored
      BY <2>2 DEF Next, vars, CreateConnector, EnableConnector, Begin, Duplicate,
                  NewEvent, Locking, FlushCheckpoint, InsertRecord, WriteConnector,
                  Fail, Crash, BreakDeadlock
    <3>2. QED
      BY <3>1
  <2>3. QED
    BY <2>1, <2>2
<1>3. QED
  BY <1>1, <1>2, InvAlways, PTL DEF Spec, Log!Spec, ImplementsLog

\* However requests overwrite each other's counts, the counters never claim
\* more than is stored.
THEOREM CountersWithinTable == Spec => []CountersNeverOverstate
BY CountsAlways, PTL DEF Counts

\* Only enabled connectors ingest, and nothing takes a connector back.
THEOREM DisabledStaysOut == Spec => OnlyEnabledConnectorsIngest
<1> DEFINE Step(c) ==
      /\ stored'[c] # stored[c] \/ checkpoint'[c] # checkpoint[c] => status[c] = "healthy"
      /\ status[c] = "healthy" => status'[c] = "healthy"
<1>1. Inv /\ Counts /\ [Next]_vars => [\A c \in Connectors : Step(c)]_vars
  <2> SUFFICES ASSUME Inv, Counts, Next, NEW c \in Connectors PROVE Step(c)
    BY DEF vars
  <2>1. TypeOK
    BY DEF Inv
  <2>2. CASE \E s \in Sessions : Commit(s)
    <3>1. PICK s \in Sessions : Commit(s)
      BY <2>2
    <3>2. status[tx[s].connector] = "healthy" /\ tx[s].connector \in Connectors
      BY <2>1, <3>1 DEF Commit, Counts, TypeOK
    <3>3. QED
      BY <2>1, <3>1, <3>2 DEF Commit, TypeOK
  <2>3. CASE \E d \in Connectors : CreateConnector(d) \/ EnableConnector(d)
    BY <2>1, <2>3 DEF CreateConnector, EnableConnector, TypeOK
  <2>4. CASE /\ ~ \E s \in Sessions : Commit(s)
             /\ ~ \E d \in Connectors : CreateConnector(d) \/ EnableConnector(d)
    <3>1. UNCHANGED <<status, stored, checkpoint>>
      BY <2>4 DEF Next, Begin, Duplicate, NewEvent, Locking, FlushCheckpoint,
                  InsertRecord, WriteConnector, Fail, Crash, BreakDeadlock
    <3>2. QED
      BY <3>1
  <2>5. QED
    BY <2>2, <2>3, <2>4
<1>2. QED
  BY <1>1, CountsAlways, PTL DEF Spec, OnlyEnabledConnectorsIngest

\* As long as requests come one at a time, crashes and retries included, the
\* counters are exact and add up.
THEOREM ExactCounters == TrackedSpec => []CountersExactAlone
<1>1. OneAtATime => CountersExactAlone
  BY DEF OneAtATime, CountersExactAlone
<1>2. QED
  BY <1>1, OneAtATimeAlways, PTL

\* As long as requests come one at a time, no delivery runs into the unique
\* constraint or an unset counter, be it a retry of a whole batch or an event
\* repeated inside one.
THEOREM RetriesDoNotConflict == TrackedSpec => []RedeliveryNeverConflictsAlone
<1>1. Inv /\ OneAtATime => RedeliveryNeverConflictsAlone
  <2> SUFFICES ASSUME Inv, OneAtATime, ~overlap, NEW s \in Sessions, Conflicts(s)
               PROVE  FALSE
    BY DEF RedeliveryNeverConflictsAlone, RedeliveryNeverConflicts
  <2> DEFINE c == tx[s].connector
  <2>1. Active(s) /\ Undisturbed(s) /\ CountersAreExact /\ c \in Connectors
    BY DEF Conflicts, Active, OneAtATime, Inv, TypeOK
  <2>2. tx[s].read = checkpoint[c]
    BY <2>1 DEF Undisturbed
  <2>3. CASE /\ tx[s].pc \in {"flush", "closing"}
             /\ tx[s].read = None /\ checkpointLock[c] # s /\ checkpoint[c] # None
    BY <2>2, <2>3
  <2>4. CASE tx[s].pc = "insert" /\ Rivals(s) = {} /\ Clashes(s)
    <3>1. tx[s].event \in Ids(Visible(s))
      BY <2>4, IdsOfUnion DEF Clashes, Visible
    <3>2. QED
      BY <2>1, <2>4, <3>1 DEF Undisturbed
  <2>5. CASE tx[s].pc = "loop" /\ tx[s].left > 0 /\ ~Countable(s) /\ Ids(Visible(s)) # {}
    <3>1. tx[s].read = None /\ checkpointLock[c] # s
      BY <2>5 DEF Countable
    <3>2. stored[c] = {} /\ tx[s].mine = {}
      BY <2>1, <2>2, <3>1 DEF CountersAreExact, Undisturbed
    <3>3. QED
      BY <2>5, <3>2 DEF Visible, Ids
  <2>6. QED
    BY <2>3, <2>4, <2>5 DEF Conflicts
<1>2. QED
  BY <1>1, OneAtATimeAlways, PTL

\* Requests wait for each other's rows and index entries in orders the batches
\* decide, yet they are never all stuck: one goes on, fails, or is in a circle
\* that deadlock detection breaks.  Batches hold some event.
THEOREM NobodyIsStuck ==
  ASSUME Events # {}
  PROVE  Spec => []SomebodyCanStep
<1>1. Init => LocksAreHeld
  <2> SUFFICES ASSUME Init PROVE LocksAreHeld
    OBVIOUS
  <2>1. \A s \in Sessions : ~Active(s)
    BY IdleTyped DEF Init, Active
  <2>2. {s \in Sessions : Active(s)} = {}
    BY <2>1
  <2>3. IsFiniteSet({s \in Sessions : Active(s)})
    BY <2>2, FS_EmptySet
  <2>4. QED
    BY <2>3, NoneIsNull DEF Init, LocksAreHeld
<1>2. Inv /\ LocksAreHeld => SomebodyCanStep
  BY NobodyStuck
<1>3. QED
  BY <1>1, <1>2, InvInit, InvStep, LocksStep, PTL DEF Spec
=============================================================================
