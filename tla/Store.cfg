SPECIFICATION StoreSpec
CONSTANTS
  Ids <- MCIds
  Agents = {"agent"}
  Kind <- MCKind
  AgentOf <- MCAgentOf
  Stamp <- MCStamp
  Limit = 2
  Retention = 1
  Skew = 1
  QueueDepth = 1
  NoKey = NoKey
  MaxTime = 2
  MaxFaults = 1
  MaxRestarts = 1
INVARIANTS PagesExact TablesAgree AckHolds
CHECK_DEADLOCK FALSE
