SPECIFICATION FairSpec
CONSTANTS
  Bodies <- MCBodies
  Absent = Absent
  None = None
  MaxAttempts = 5
  MaxChanges = 4
INVARIANT OwnCreateIsRecognised
PROPERTY ImplementsApiCall
PROPERTY EventuallyReturns
