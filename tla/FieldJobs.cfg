SPECIFICATION LiveSpec
CONSTANTS
  Unit = {u1, u2}
  Configs <- AllConfigs
  Far = 1
  MaxStuck = 2
  MaxAdvance = 1
INVARIANTS SuccessIsTrue
PROPERTIES JobEnds
CHECK_DEADLOCK FALSE
