SPECIFICATION Spec
CONSTANTS
  None = None
  Contexts = {"a_b", "b_a"}
  Steps <- MCSteps
  Plan <- MCPlan
  Invocations <- PlainAndDry
  WriteFaults = FALSE
  Kills = FALSE
  MaxFaults = 0
INVARIANT SkippedWorkWasDone
