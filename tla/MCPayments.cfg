SPECIFICATION FairSpec
CHECK_DEADLOCK FALSE
CONSTANTS
  u1 = u1
  i3 = i3
  Users = {u1}
  Intents = {i1, i2, i3}
  Deliveries = {d1}
  Owner <- OneOwner
  Kind <- AndPackage
  TTL = 0
  Month = 1
  TrialEnd = 1
  MaxTime = 1
  MaxFailures = 1
INVARIANTS StaleIntentNeverBlocks CreditedOncePerReopening  MoneyMatchesRows
PROPERTIES PaidIsCredited
