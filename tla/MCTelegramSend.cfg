SPECIFICATION Spec
CHECK_DEADLOCK FALSE
CONSTANTS
  Tasks = {t1, t2}
  Workers = {w1, w2}
  Retriers = {r1}
  Presses = {p1, p2}
  None = None
  Done = Done
  MaxRedeliveries = 1
  MaxDisturbances = 1
SYMMETRY Interchangeable
INVARIANTS OneRetryPerWindow  MarkFollowsHistory
PROPERTIES ImplementsSendOutcome
