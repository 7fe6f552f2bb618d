\* Two requests race over one connector and two events, deadlocks included.
SPECIFICATION TrackedSpec
CONSTANTS
  None = None
  Connectors = {c1}
  Events = {e1, e2}
  Sessions = {s1, s2}
  MaxBatch = 2
  MaxDuplicates = 0
INVARIANTS
  AcknowledgedIsStored
  CountersNeverOverstate
  CountersExactAlone
  RedeliveryNeverConflictsAlone
PROPERTIES
  ImplementsLog
  OnlyEnabledConnectorsIngest
  EveryIngestEnds
