SPECIFICATION FairSpec
CONSTANTS
  None = None
  Contexts = {"a_b", "b_a"}
  Steps <- MCSteps
  Plan <- MCPlan
  Invocations <- Real
  WriteFaults = TRUE
  Kills = TRUE
  MaxFaults = 4
INVARIANT CompletedMeansEveryStep
INVARIANT RecordedMeansApplied
INVARIANT RetriesWhereItFailed
PROPERTY NamedProgressKept
PROPERTY ValidateOnlyKeepsPhase
PROPERTY ImplementsResumableWorkflow
PROPERTY EventuallyCompletedOrForced
