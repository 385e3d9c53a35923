SPECIFICATION Spec
CONSTANTS
  Task = {1, 2}
  Request = {1, 2}
  Actor = {a1, a2}
  Rank <- LateHigh
  Shape <- Pairs
SYMMETRY Units
CONSTRAINT Small
INVARIANTS SuspendedIffWaiting ReadyHoldsNothing RequestsAddUp ProductionFits
PROPERTIES UrgentStartsFirst
