SPECIFICATION Spec
CONSTANTS
  Txns = {t1, t2, t3, t4}
  Reviewed = {content}
  NoQuote = NoQuote
SYMMETRY Symmetry
INVARIANTS TypeOK QuotesHaveADeal CompletedIffPaid
PROPERTIES OnlyForward PersonWins
CHECK_DEADLOCK FALSE
