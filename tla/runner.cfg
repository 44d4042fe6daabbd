SPECIFICATION FairSpec
CONSTANTS
  Tasks = {t1}
  Subs = {}
  Outcomes <- MCOutcomes
  MaxBoots = 2
  Doubles = FALSE
INVARIANTS RunsOnce LeavesNothing
PROPERTIES ImplementsContract TaskEnds
CHECK_DEADLOCK FALSE
