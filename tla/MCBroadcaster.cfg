SPECIFICATION FairSpec
CONSTANTS
  Streams = {s1, s2}
  BufCap = 2
  DefaultMax = 3
  HardMax = 4
  Limits <- MCLimits
  MaxPublished = 4
INVARIANTS
  HistoryIsRecent
  ChannelLifecycle
  StreamInOrder
  NoEarlyLoss
PROPERTIES
  ImplementsFeed
  StreamReclaimed
