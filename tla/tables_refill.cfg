SPECIFICATION Spec
CONSTANTS
  Filters = {f1}
  Slots = {s1}
  Names = {t1, t2}
  MaxMade = 1
  MaxBlocks = 2
  None = None
  SharedSlots = FALSE
  SharedDeletes = FALSE
  LiveChanges = FALSE
  EmptyTables = FALSE
INVARIANTS
  ProcMissesNoTable
