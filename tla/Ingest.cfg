SPECIFICATION FairSpec
CONSTANTS
  Conns = {"c1", "c2"}
  Derived = {2}
  SessionCapacity = 2
  GlobalCapacity = 3
  BatchMaxEvents = 2
  MaxInFlight = 2
  MaxEvents = 3
  MaxRestarts = 1
  MaxWriteErrors = 1
INVARIANTS AckedStored EmittedOnce
PROPERTY AgentDrains
CHECK_DEADLOCK FALSE
