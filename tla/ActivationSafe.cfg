SPECIFICATION FairSpec
CONSTANTS
  None = None
  Clusters <- MCClusters
  Options <- MCOptions
  MinClusters = 1
  Ambiguous = TRUE
  MaxFaults = 3
INVARIANT WaitedForClusters
INVARIANT OneRestoreInControl
INVARIANT EveryClusterMarked
PROPERTY CreatedAlone
PROPERTY FlaggedStrategyTakenBack
PROPERTY EventuallyActivated
CHECK_DEADLOCK FALSE
