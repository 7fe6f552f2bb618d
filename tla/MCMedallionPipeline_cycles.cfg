\* One pump whose readings land late and out of order, two stations and an
\* unreliable weather service, stops and restarts at any moment.
SPECIFICATION FairSpec
CONSTANTS
  None = None
  Pumps = {p1}
  Stations = {st1, st2}
  Measurements <- MCMeasurements
  Temperatures <- MCTemperatures
  Failures = {"unreachable", "error"}
  MaxTime = 2
  Limit = 2
INVARIANTS
  FeaturesAreClean
  GoldIsCurrent
  OutageKeepsRisk
PROPERTIES
  ImplementsCuratedStore
  EveryCleanReadingIsCurated
  FeaturesCatchUp
