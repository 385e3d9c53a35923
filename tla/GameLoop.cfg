SPECIFICATION LiveSpec
CONSTANTS
  Task <- Tasks
  Job <- Jobs
  Of <- TaskOf
  Interval <- Intervals
  Review = 1
  Threshold = 2
  Escalation = 2
  Resets = 1
INVARIANTS StaleStopsJobs NobodyForgotten
PROPERTIES OutageIsTold Reviewed
