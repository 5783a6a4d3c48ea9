CONSTANTS
  Ids = {g1, g2}
  Pages = {p1}
  Tasks = {t1, t2}
  MaxPolls = 1
  MaxEdits = 1
  MaxFailures = 1
  NoRow = NoRow
  Present = Present
  Never = Never
  NotAList = NotAList
SPECIFICATION FairSpec
CHECK_DEADLOCK FALSE
INVARIANTS SlotIsHeld 
PROPERTIES OnlyTheUserToggles DeletedStaysDeleted FailureChangesNothing 
