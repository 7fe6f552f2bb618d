\* Two requests of any kind over one alert and two revisions of the policy.
SPECIFICATION Spec
CONSTANTS
  None = None
  Requests = {s1, s2}
  Alerts = {a1}
  Severities = {"critical"}
  Schedules <- MCSchedules
  Defaults <- MCDefaults
  ExportLimit = 0
  MaxRevision = 2
  MaxTime = 3
SYMMETRY MCSymmetry
INVARIANTS
  AuditIsTheHistory
PROPERTIES
  ImplementsPolicyLog
  OverdueListIsExact
