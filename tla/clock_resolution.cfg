SPECIFICATION Spec
CONSTANTS
  Handlers = {h1}
  ClockCmds = {"RUN"}
  Modes = {TRUE}
  Starts = {0}
  Ends = {40}
  Periods = {0, 2}
  Cycles = {1}
  TimeErrors = {3}
  ResolutionNs = 1
  DefaultAdjust = 1
  LargeDelta = 4
  CanSetTime = TRUE
  StartsMidWait = TRUE
  Epoch = 6
  MaxNow = 14
  MaxRequests = 3
CHECK_DEADLOCK FALSE
PROPERTIES
  DeltaShrinks
