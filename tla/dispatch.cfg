SPECIFICATION Spec
CONSTANTS
  Worlds <- MCWorlds
  Bindings <- MCBindings
  Hosts <- MCHosts
  Clients = {c1, c2}
  Orders <- MCOrders
  Closings <- MCClosings
  MaxEdits = 1
SYMMETRY Symmetry
INVARIANTS SentAsSigned IndependentVerdict MetaIsTrue
CHECK_DEADLOCK FALSE
