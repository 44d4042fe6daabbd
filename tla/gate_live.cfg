SPECIFICATION FairSpec
CONSTANTS
  Actions = {a1}
  Requests = {r1, r2, r3, r4}
  NoTicket = NoTicket
  NoAction = NoAction
  ConfirmTTL = 0
  TicketTTL = 2
  MaxNow = 3
PROPERTIES ImplementsContract ClaimResolves
CHECK_DEADLOCK FALSE
