CONSTANTS
  Calls = {c1, c2}
  Inputs <- SomeInputs
  Channels = {"file", "terminal-message"}
  Bases = {TRUE, FALSE}
SPECIFICATION FairSpec
INVARIANTS ReceiptProvesOneChild ReceiptIsFinal
PROPERTIES WorkerEnds
CHECK_DEADLOCK FALSE
