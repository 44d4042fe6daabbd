SPECIFICATION Spec
CONSTANTS
  Plans = {p1, p2, p3, p4}
  Txns = {t1, t2, t3, t4}
  Kols = {k1, k2}
  RoundSize = 2
  NoPlan = NoPlan
  NoTxn = NoTxn
SYMMETRY Symmetry
INVARIANTS TypeOK RoundIsClosed StageIsBacked
PROPERTIES ApprovedStays
CHECK_DEADLOCK FALSE
