SPECIFICATION Spec
CONSTANTS
  Txns = {t1, t2, t3, t4}
  Reviewed = {}
  NoQuote = NoQuote
SYMMETRY Symmetry
INVARIANTS PaidOnce
CHECK_DEADLOCK FALSE
