SPECIFICATION LiveSpec
CONSTANTS
  Job = {j1, j2}
  None = None
  MaxTurns = 2
  MaxRetries = 1
  MaxFailures = 2
INVARIANTS NoCallWhileAsleep
PROPERTIES EndIsShown DemandIsServed BrokenEnds
CHECK_DEADLOCK FALSE
