SPECIFICATION Spec
CONSTANTS
  Size <- UniformSizes
  SpillMaxBytes = 3
  BatchMaxEvents = 2
  BatchMaxBytes = 2
  RingCapacity = 2
  MaxInFlight = 2
  MaxFrameBytes = 4
  MaxEvents = 4
  MaxSessions = 2
  MaxStarts = 2
  MaxFaults = 1
  Faulty = {"open", "push", "ack"}
INVARIANTS NoSilentLoss
PROPERTIES FifoUnlessEvicted ImplementsDelivery
CHECK_DEADLOCK FALSE
