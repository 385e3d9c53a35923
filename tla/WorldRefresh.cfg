SPECIFICATION LiveSpec
CONSTANTS
  Actor <- Actors
  Kind <- Kinds
  Near <- Deployed
  Begins <- Starts
  Every <- Periods
  Backoff = 1
  Moves = 3
INVARIANTS NoGhosts LossIsReal DownIsStale
PROPERTIES Recovers
