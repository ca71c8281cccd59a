SPECIFICATION Spec
CONSTANTS
  None = None
  Torn = Torn
  Procs <- MCProcs
  Resetters <- OneResets
  Linked = FALSE
  MaxWrites = 4
INVARIANT OneRunAtATime
INVARIANT NeverTorn
PROPERTY NoLostUpdate
