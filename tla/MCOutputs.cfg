SPECIFICATION Spec
CONSTANTS
  Options <- MCOptions
  MaxTargets = 3
  MaxProbes = 3
  MaxEnter = 2
INVARIANTS
  RunIsSaved
  ExitTellsOutcome
