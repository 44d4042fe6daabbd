SPECIFICATION Spec
CONSTANTS
  Actions = {a1, a2}
  Requests = {r1, r2, r3, r4, r5}
  NoTicket = NoTicket
  NoAction = NoAction
  ConfirmTTL = 0
  TicketTTL = 1
  MaxNow = 1
SYMMETRY Symmetry
INVARIANTS TypeOK ActsAtMostOnce ActsOnlyAsApproved BooksMatch
PROPERTIES DecidedOnce TicketStaysSpent
CHECK_DEADLOCK FALSE
