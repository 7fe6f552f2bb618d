\* The seed, the demo bootstrap and the administrator's seed, two stations.
SPECIFICATION FairSpec
CONSTANTS
  k1 = k1
  d1 = d1
  a1 = a1
  Runs = {k1, d1, a1}
  JobOf <- MCJobOf
  N = 2
  MaxCrashes = 1
INVARIANTS
  FinishedSeedIsComplete
  RepeatedSeedsAddNothing
PROPERTIES
  SeedingSucceeds
