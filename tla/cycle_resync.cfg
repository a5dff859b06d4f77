SPECIFICATION FairSpec
CONSTANTS
  Intervals = {2}
  MaxIntvl = 2
  ClockCmds = {"RUN"}
  SpuriousWakeups = FALSE
PROPERTIES
  Resynchronizes
