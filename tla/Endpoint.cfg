SPECIFICATION FairSpec
CONSTANTS
  Bins = {"sbin", "opt"}
  DefaultBin = "sbin"
  Length <- MCLength
  MaxCommands = 3
  MaxFailures = 1
  MaxKills = 2
  MaxAlterations = 1
INVARIANTS NeverBlocked UninstallRemoves HealthyIsQuiet
PROPERTY AgentComesBack
CHECK_DEADLOCK FALSE
