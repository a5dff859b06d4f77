SPECIFICATION Spec
CONSTANTS
  Handlers = {h1, h2}
  ClockCmds = {"RUN", "PAUSE", "STOP", "STEP"}
  Modes = {TRUE}
  Starts = {0}
  Ends = {9, 40}
  Periods = {0, 2}
  Cycles  <- MCCycles
  TimeErrors = {}
  ResolutionNs = 200
  DefaultAdjust = 1
  LargeDelta = 4
  CanSetTime = TRUE
  StartsMidWait = TRUE
  Epoch = 6
  MaxNow = 12
  MaxRequests = 4
CHECK_DEADLOCK FALSE
INVARIANTS
  TypeOK
PROPERTIES
  TimeAdvances
  PausedTimeStands
