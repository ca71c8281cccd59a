SPECIFICATION FairSpec
CONSTANTS
  Clusters <- MCClusters
  Reach <- MCClusters
  Late = {}
  Msa = {}
  MaxFaults = 0
PROPERTY EventuallyVerified
CHECK_DEADLOCK FALSE
