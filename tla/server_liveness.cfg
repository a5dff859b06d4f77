SPECIFICATION FairSpec
CONSTANTS
  Filters = {f1}
  Threads = {t1, t2}
  Handlers = {h1, h2}
  NoOne = NoOne
  Lost = Lost
  Intvl = 1
  ClockCmds = {"RUN", "PAUSE"}
  ScheduledEnd = FALSE
  ProcFails = FALSE
  SpuriousWakeups = FALSE
  RunsActive = FALSE
  RunsDuringQuit = FALSE
INVARIANTS
  ActiveThreadLoops
PROPERTIES
  RunReportsInit
  CallsReturn
  QuitTerminates
