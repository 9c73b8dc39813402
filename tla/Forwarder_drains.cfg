SPECIFICATION FairSpec
CONSTANTS
  Size <- OneHuge
  SpillMaxBytes = 6
  BatchMaxEvents = 2
  BatchMaxBytes = 2
  RingCapacity = 2
  MaxInFlight = 1
  MaxFrameBytes = 4
  MaxEvents = 3
  MaxSessions = 2
  MaxStarts = 2
  MaxFaults = 1
  Faulty = {"ack", "drain"}
PROPERTY SessionDrains
CHECK_DEADLOCK FALSE
