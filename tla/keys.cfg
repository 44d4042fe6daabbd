SPECIFICATION KeySpec
CONSTANTS
  Txns = {t1, t2}
  Reviewed = {}
  NoQuote = NoQuote
  KeyTxns = {k1, k2, k3}
  KeyRefs = {x, y, z}
  Quantity = 2
SYMMETRY Symmetry
INVARIANTS KeyTypeOK KeysGoOnce KeysLeaveATrace
CHECK_DEADLOCK FALSE
