SPECIFICATION LoopSpec
CONSTANTS
  Task = {1, 2}
  Job = {1, 2}
  Actor = {1, 2}
  Priority <- LowHigh
  Config <- Packages
  Outcome = {"succeeded"}
CONSTRAINT Arbitration
INVARIANTS BindingsAgree GroupsFollowBindings
PROPERTIES PassServesTop PackageHoldsStart
