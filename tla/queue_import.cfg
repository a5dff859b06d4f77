SPECIFICATION Spec
CONSTANTS
  Items = {a, b}
  NoItem = NoItem
  BufferSize = 2
  DataSize = 4
  BatchSize = 2
PROPERTIES
  ImplementsFifo
