SPECIFICATION FairSpec
CONSTANTS
  Tasks = {t1}
  Subs = {s1}
  Outcomes <- MCOutcomes
  MaxBoots = 1
  Doubles = FALSE
INVARIANTS StreamTellsAll
PROPERTIES StreamEnds
CHECK_DEADLOCK FALSE
