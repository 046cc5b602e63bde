SPECIFICATION FairSpec
CONSTANTS
  h1 = h1
  h2 = h2
  w1 = w1
  w2 = w2
  j1 = j1
  j2 = j2
  Nobody = Nobody
  Runs = {h1, h2}
  RestartRuns = {h1}
  Workers = {w1, w2}
  Jobs = {j1, j2}
  MaxFaults = 2
INVARIANTS
  CleanRunMeasured
PROPERTIES
  SweepsItsOwn
  EveryRunEnds
CHECK_DEADLOCK FALSE
