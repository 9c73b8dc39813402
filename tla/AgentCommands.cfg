SPECIFICATION FairCommands
CONSTANTS
  Explicit <- Console
  Declared <- TwoLibs
  Builtins <- Orders
  Denied <- Denials
  Procs = {1, 2}
  PidOf <- OnePid
  Ignored = {}
  SeenCap = 1
  QueueDepths = {2}
  WarningSets <- SaltAlerts
  TtyModes = {"pipe"}
  MaxSignals = 1
  MaxFaults = 1
  Modes = {"off", "pipe", "shell"}
  DefaultSalt = TRUE
  Printable = {"a", "b"}
  MaxLineBuf = 2
  BufSize = 2
  MaxBytes = 4
INVARIANTS LoadedIsVetted ReportedOnce CommandsAsTyped
PROPERTIES OrderlyReturn SignalEnds
CHECK_DEADLOCK FALSE
