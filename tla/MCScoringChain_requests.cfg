\* Two requests on one pump, two kinds of gold row and of history; batches over the
\* pumps of a tenant at two stations and a pump of another tenant.
SPECIFICATION EitherSpec
CONSTANTS
  p1 = p1
  p2 = p2
  p3 = p3
  s1 = s1
  s2 = s2
  st1 = st1
  st2 = st2
  Requests = {s1, s2}
  Pumps = {p1}
  Rated <- MCRated
  GoldRows <- MCGoldRows
  Windows = {0, 80}
  Counts <- MCCounts
  VibrationLimit = 45
  Fleet = {p1, p2, p3}
  Own = {p1, p2}
  Stations = {st1, st2}
  StationOf <- MCStationOf
  Vibrations = {0, 80}
  Averages = {0}
  None = None
SYMMETRY Symmetry
INVARIANTS
  ScoresAreInRange
  OneDeviation
  BatchAgreesWithSingle
