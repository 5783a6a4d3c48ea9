SPECIFICATION FairSpec
CHECK_DEADLOCK FALSE
CONSTANTS
  t1 = t1
  t2 = t2
  a1 = a1
  a2 = a2
  g1 = g1
  Tasks = {t1, t2}
  Accounts = {a1, a2}
  AccountOf <- EachItsOwn
  GroupOf <- OneGroup
  Fleet <- BothFleets
  Managers = {m1}
  Processors = {p1}
  MAX_RETRIES = 1
  BATCH = 2
  Administrator = FALSE
  IdleShutdown = FALSE
  MaxFailures = 0
  MaxRateLimits = 1
INVARIANTS MarkFollowsHistory
PROPERTIES DispatchedIsLogged
