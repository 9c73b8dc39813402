SPECIFICATION FairSpec
CONSTANTS
  Conns = {"c1", "c2"}
  Commands = {"isolate", "noop"}
  Stuck = {"isolate"}
  None = "none"
  MaxConnections = 2
  CommandQueueDepth = 1
  MaxInflightCommands = 1
INVARIANTS RouterHoldsLast QueuedIsKept
PROPERTIES ReaderKeepsUp PermitReturned
CHECK_DEADLOCK FALSE
