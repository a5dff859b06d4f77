SPECIFICATION ChannelsSpec
CONSTANTS
  Items = {a, b}
  NoItem = NoItem
  BufferSize = 3
  DataSize = 3
  BatchSize = 3
  Sentences = {s1, s2}
  TooLong = TooLong
  MaxBuf = 4
  Elements = {x, y}
  Size = 3
  Messages <- MessagesOf
  Creatable <- CreatableOf
  MaxTmp = 2
  Points = {"a", "b", "c"}
  MaxWps = 3
  ChNames = {"a", "b"}
  ChTypes = {"nmea", "state"}
  FltrNames = {"f", "g"}
  FltrTypes = {"gps"}
  ParType = "state"
  MaxChs = 2
  MaxConns = 2
  Payloads <- PayloadsOf
  Vectors <- VectorsOf
  GroupSets <- GroupSetsOf
  MaxNow = 2
  MaxGiven = 2
  MaxRecords = 2
  Ships = {1, 2}
  MaxMmsi = 2
  Stamps = {1, 2}
  MaxReports = 2
  SensorSets <- SensorSetsOf
  Delays = {0, 1}
  SizeBuf = 3
  MaxSampled = 2
  MaxTwice = 1
  Lateness = {0, 1}
  EngineGroups = {"rapid", "tran"}
  MaxTime = 3
  Sizes = {1, 2}
  size_max = 3
  Spokes = 14
  Len0 = 2
  Overwrap = 2
  Vth = 16
  Echoes <- EchoesOf
  Starts = {0, 3, 12}
  MaxSpokes = 17
  MaxEvents = 2
  Charts = {"a", "b", "c"}
  Closed = {"c"}
  Below <- BelowOf
  Place <- PlaceOf
  MaxSizeLayerData = 3
  MaxTotalSizeLayerData = 4
  MaxPtrs = 2
  MaxInserts = 3
  MaxSaves = 2
INVARIANTS
  TypeOK
  AisBitsSurvive
  SentencesAreReported
  RouteIsKept
  
  TimeIsOfItsText
PROPERTIES
  ImplementsFifo
  NmeaImplementsFifo
  RingImplementsStream
  MessagesArriveWhole
  ObjectsAreTracked
  StatesAreLogged
  
  ConnectionsStay
  EchoesAreKept
  LinesAreKept
