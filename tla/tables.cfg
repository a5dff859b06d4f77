SPECIFICATION Spec
CONSTANTS
  Filters = {f1, f2}
  Slots = {s1, s2}
  Names = {t1, t2}
  MaxMade = 2
  MaxBlocks = 2
  None = None
  SharedSlots = FALSE
  SharedDeletes = FALSE
  LiveChanges = FALSE
  EmptyTables = FALSE
SYMMETRY Interchangeable
INVARIANTS
  TypeOK
  SlotsAreLive
  RefsMatchSlots
  UsedTableIsLive
  ProcSeesOwnTables
