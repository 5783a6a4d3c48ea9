SPECIFICATION Spec
CHECK_DEADLOCK FALSE
CONSTANTS
  t1 = t1
  t2 = t2
  a1 = a1
  a2 = a2
  g1 = g1
  Tasks = {t1, t2}
  Accounts = {a1}
  AccountOf <- OneAccount
  GroupOf <- OneGroup
  Fleet <- MaxFleet
  Managers = {m1}
  Processors = {p1, p2}
  MAX_RETRIES = 1
  BATCH = 2
  Administrator = TRUE
  IdleShutdown = TRUE
  MaxFailures = 1
  MaxRateLimits = 1
SYMMETRY Interchangeable
INVARIANTS OneCopy  RemovedIsGone
PROPERTIES ImplementsSendOutcome
