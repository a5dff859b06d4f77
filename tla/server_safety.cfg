SPECIFICATION Spec
CONSTANTS
  Filters = {f1}
  Threads = {t1, t2}
  Handlers = {h1, h2, h3}
  NoOne = NoOne
  Lost = Lost
  Intvl = 1
  ClockCmds = {"RUN", "PAUSE", "STOP"}
  ScheduledEnd = TRUE
  ProcFails = TRUE
  SpuriousWakeups = TRUE
  RunsActive = FALSE
  RunsDuringQuit = FALSE
SYMMETRY Interchangeable
CHECK_DEADLOCK FALSE
INVARIANTS
  TypeOK
  FiltersInUseStay
  CmdExclusive
  NoThreadAtTeardown
PROPERTIES
  StopWaitsForThread
  ImplementsService
