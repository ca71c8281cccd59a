SPECIFICATION FairSpec
CONSTANTS
  None = None
  Clusters <- MCClusters
  MaxFaults = 2
  Held = {1}
  Own = {3, 4}
  Foreign = {5}
  Actions = {"secondary", "decommission", "none"}
INVARIANT OldHubGoesAfterProof
INVARIANT HubAfterClusters
INVARIANT RecordedMeansDecommissioned
PROPERTY EventuallyFinalized
CHECK_DEADLOCK FALSE
