\* One pump, two readings, one station: what the second cycle aggregates.
SPECIFICATION Spec
CONSTANTS
  None = None
  Pumps = {p1}
  Stations = {st1}
  Measurements <- MCCleanOnly
  Temperatures <- MCMild
  Failures = {}
  MaxTime = 2
  Limit = 3
INVARIANT WindowsSpanReadings
