SPECIFICATION Spec
CONSTANTS
  Handlers = {h1, h2}
  ClockCmds = {"RUN", "STOP"}
  Modes = {TRUE, FALSE}
  Starts = {0, 3}
  Ends = {9, 40}
  Periods = {0, 2}
  Cycles = {1}
  TimeErrors <- MCTimeErrors
  ResolutionNs = 200
  DefaultAdjust = 1
  LargeDelta = 4
  CanSetTime = TRUE
  StartsMidWait = FALSE
  Epoch = 6
  MaxNow = 13
  MaxRequests = 3
CHECK_DEADLOCK FALSE
PROPERTIES
  SleepAtMostPeriod
  EndsOnSchedule
  DeltaShrinks
