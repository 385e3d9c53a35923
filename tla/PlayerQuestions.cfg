SPECIFICATION LiveSpec
CONSTANTS
  Task = {1, 2}
  Question = {1, 2}
INVARIANTS ToldOnce PendingHasTask
PROPERTIES Implements AskedIsSettled
