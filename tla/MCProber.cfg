SPECIFICATION FairSpec
CONSTANTS
  Options <- MCOptions
  Resetters = {x1}
  MaxTime = 4
  MaxProbes = 3
  Forever = 100
INVARIANTS
  OutagesAccounted
  CountersFollowLog
  StopsInTime
  EventsMatchProbes
PROPERTIES
  ImplementsLedger
  RunEnds
