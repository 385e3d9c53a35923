SPECIFICATION QueueLiveSpec
CONSTANTS
  Job = {"troops"}
  Type = {"powr", "barr"}
  TypeOf <- Barracks
  Count <- One
  Powers = {"powr"}
  Economies = {}
  Foreign = {}
  Trouble = {"slow", "no_room", "low_power", "no_funds", "declines", "unreachable"}
  Orders = 1
CONSTRAINT Bound
INVARIANTS WaitIsTold
PROPERTIES ProductionEnds 
CHECK_DEADLOCK FALSE
