SPECIFICATION FairSpec
CONSTANTS
  Options <- MCOptions
  Exports = {e1}
  MaxProbes <- MCMaxProbes
INVARIANTS
  ScreenFollowsProbes
  ExportAgrees
PROPERTIES
  RunEnds
