SPECIFICATION FairSpec
CONSTANTS
  N = 2
  Options <- MCOptions
  Resetters = {x1}
  MaxProbes = 2
INVARIANTS
  ProbesBounded
  CountersFollowLog
  WorkersStop
  ReportsMatchProbes
PROPERTIES
  RunEnds
