SPECIFICATION FairSpec
CONSTANTS
  Timeout = 2
  HalfSecond = 1
  Forever = 12
  Probe <- MCProbe
  Script <- MCScript
  Budget <- MCBudget
  Decisive <- MCDecisive
  Punctual <- MCPunctual
  Fragile <- MCFragile
INVARIANTS UpIsEarned LatencyExcludesHarvest Bounded
PROPERTIES ImplementsContract Returns
