SPECIFICATION LoopSpec
CONSTANTS
  Task = {1, 2}
  Job = {1, 2}
  Actor = {1}
  Priority <- LowHigh
  Config <- Ones
  Outcome = {"succeeded", "partial"}
CONSTRAINT Closing
INVARIANTS EndedTaskHoldsNothing
