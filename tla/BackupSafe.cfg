SPECIFICATION FairSpec
CONSTANTS
  None = None
  Restores <- MCRestores
  PausesInPlace = TRUE
  StartA = {"none", "paused", "enabled"}
  StartB = {"none", "paused"}
  SlowDeletes = TRUE
  FaultAt <- Everywhere
  MaxFaults = 3
  MaxMeddles = 2
INVARIANT OneWriter
INVARIANT FinishedMeansBackedUp
INVARIANT CollisionFixed
INVARIANT NoScheduleOverLiveRestore
PROPERTY EventuallyHandedOverOrStuck
CHECK_DEADLOCK FALSE
