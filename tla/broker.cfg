CONSTANTS
  Conns = {c1, c2, c3}
  Requests <- SomeRequests
  MaxSlots = 2
  MaxRequests = 2
  Limits <- SmallLimits
SPECIFICATION FairSpec
INVARIANTS NothingOutlivesTheLease WithinBudget
PROPERTIES LeaseCloses
CHECK_DEADLOCK FALSE
