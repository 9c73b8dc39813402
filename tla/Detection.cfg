SPECIFICATION Spec
CONSTANTS
  SessionIds = {"s1", "s2"}
  Users = {"uid"}
  Probabilities = {20, 60, 90}
  QueueDepth = 2
  AssessEvery = 2
  MinEvidence = 2
  TTL = 1
  MaxInputs = 3
  MaxExecs = 1
  MaxIdle = 1
INVARIANTS VerdictsScored AlertsRestOnEvidence KnownIsLive
CHECK_DEADLOCK FALSE
