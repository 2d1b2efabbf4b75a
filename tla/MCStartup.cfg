SPECIFICATION StartSpec
CONSTANTS
  Items <- MCItems
  PortOf <- MCPortOf
  Url <- MCUrl
  Clusters <- MCClusters
  Commands <- MCCommands
  Literals <- MCLiterals
  Addresses <- MCAddresses
  Nics <- MCNics
  SrvAnswers <- MCSrvAnswers
  FileFormats <- MCFileFormats
  ShortIntervals = {"0.001"}
  Malformed <- MCMalformed
INVARIANTS
  OptionsAreRead
  PoolIsAsked
  RunFits
