SPECIFICATION PreflightSpec
CONSTANTS
  c1 = c1
  c2 = c2
  Clusters <- MCClusters
  Starts <- MCStarts
  MaxFaults = 1
  MaxChanges = 2
SYMMETRY Symmetry
INVARIANT PassedMeansInBackup
INVARIANT InfrastructureKept
INVARIANT SoundPairPasses
INVARIANT PermissionsCoverUse
CHECK_DEADLOCK FALSE
