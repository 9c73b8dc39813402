SPECIFICATION FairSpec
CONSTANTS
  Routes <- ScoringChain
  Producers = {"detector"}
  Host = "host"
  Kinds <- AllKinds
  Critical <- CritKinds
  Subs <- ScoringSubs
  Emits <- ScoringEmits
  Slow = {"forward"}
  QueueDepth = 1
  MaxEvents = 5
INVARIANTS CriticalKept OneOrder
PROPERTIES NoHandleAfterShutdown DispatcherKeepsUp ShutdownCompletes
CHECK_DEADLOCK FALSE
