SPECIFICATION FairSpec
CONSTANTS
  Clients = {c1, c2, c3}
  Stuck = {c1, c2}
  Resetters = {}
  t1 = t1
  t2 = t2
  Targets = {t1, t2}
  MaxConcurrency = 2
  MaxCount = 2
  MaxRetries = 1
  Plans <- MCShortPlans
INVARIANTS
  SlotsAccounted
PROPERTIES
  EveryRequestAnswered
  WaiterCanLeave
