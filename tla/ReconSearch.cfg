SPECIFICATION SearchLiveSpec
CONSTANTS
  ReconJob = {j1, j2}
  Scout = {s1}
  Width = 3
  Grounds <- SomeGrounds
  MaxStuckTicks = 2
  Mishaps = 2
INVARIANTS GoalsAreOwned
 
CHECK_DEADLOCK FALSE
