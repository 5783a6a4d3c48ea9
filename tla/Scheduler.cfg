SPECIFICATION Spec
CHECK_DEADLOCK FALSE
CONSTANTS
  Schedules = {s1}
  Groups = {g1}
  Ticks = {k1}
  Requests = {r1}
  Week = 2
  MaxTime = 3
  MaxFailures = 1
INVARIANTS SlotSettledOnce NoBurst
