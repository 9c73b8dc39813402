SPECIFICATION Spec
CONSTANTS
  NaN = NaN
  SampleCap = 6
  MinKeystrokes = 5
  MinCommands = 3
  MinCommandsRobust = 6
  Measurements <- Measured
  Draws <- Drawn
  NaturalLengths = {3}
  ForcedLengths = {7}
  Grid <- Budgets
  Taus = {5, 50, 100}
  AssessEvery = 4
INVARIANTS HarnessIsLive EscapeOrdered AucIsPairs
CHECK_DEADLOCK FALSE
