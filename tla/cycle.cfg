SPECIFICATION FairSpec
CONSTANTS
  Intervals = {1, 2, 3}
  MaxIntvl = 3
  ClockCmds = {"RUN", "PAUSE"}
  SpuriousWakeups = TRUE
INVARIANTS
  TypeOK
  NeverAhead
PROPERTIES
  ProcRecurs
