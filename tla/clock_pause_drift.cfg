SPECIFICATION Spec
CONSTANTS
  Handlers = {h1}
  ClockCmds = {"RUN", "PAUSE"}
  Modes = {FALSE}
  Starts = {0}
  Ends = {40}
  Periods = {0, 2}
  Cycles = {1}
  TimeErrors = {}
  ResolutionNs = 200
  DefaultAdjust = 1
  LargeDelta = 4
  CanSetTime = TRUE
  StartsMidWait = TRUE
  Epoch = 6
  MaxNow = 14
  MaxRequests = 3
CHECK_DEADLOCK FALSE
PROPERTIES
  PausedTimeStands
