SPECIFICATION Spec
CONSTANTS
  Clients = {c1, c2}
  Stuck = {}
  Resetters = {x1}
  t1 = t1
  t2 = t2
  Targets = {t1, t2}
  MaxConcurrency = 2
  MaxCount = 2
  MaxRetries = 1
  Plans <- MCPlans
SYMMETRY Symmetry
INVARIANTS
  AnswerIsComplete
  EventsFollowCounters
  EveryProbeCountedOnce
  ResetErases
