SPECIFICATION ConsoleSpec
CONSTANTS
  RowKeys <- MCCells
  OwnerOf <- MCAgentOf
  Owners = {"a", "b"}
  Capacity = 1
  Window = 1
  Nothing = Nothing
  MaxRequests <- MCMaxRequests
  MaxWrites = 2
  MaxFailures = 1
INVARIANTS
  ShownAcksHold ListingsAgree
PROPERTIES
  DashboardConverges
