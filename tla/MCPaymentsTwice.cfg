SPECIFICATION Spec
CHECK_DEADLOCK FALSE
CONSTANTS
  u1 = u1
  i3 = i3
  Users = {u1}
  Intents = {i1, i2}
  Deliveries = {d1, d2}
  Owner <- OneOwner
  Kind <- AllSubscriptions
  TTL = 0
  Month = 1
  TrialEnd = 1
  MaxTime = 1
  MaxFailures = 0
INVARIANTS CreditedOnce
