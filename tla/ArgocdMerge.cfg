SPECIFICATION Spec
CONSTANTS
  None = None
  Apps <- MCApps
  Overwritable <- OnSecondary
  Drops = {FALSE}
  ResumeOnly = FALSE
  MaxFaults = 0
  MaxOverwrites = 0
PROPERTY PauseStepPauses
CHECK_DEADLOCK FALSE
