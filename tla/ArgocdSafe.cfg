SPECIFICATION FairSpec
CONSTANTS
  None = None
  Apps <- MCApps
  Overwritable <- OnSecondary
  Drops = {TRUE, FALSE}
  ResumeOnly = TRUE
  MaxFaults = 4
  MaxOverwrites = 2
INVARIANT MarkedIsRecorded
INVARIANT PauseIsConfirmed
INVARIANT ResumedIsRestored
PROPERTY EventuallyResumed
CHECK_DEADLOCK FALSE
