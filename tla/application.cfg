\* One node from its configuration to its end; Multiplier is scaled so that two
\* full files suffice for an advertisement that overtakes a request.
CONSTANTS
  Junk = 256
  NoData = NoData
  FullCounts = {2}
  Leftover = {0}
  AdvertisedCounts = {1, 9}
  TicksPerMs = 6
  Multiplier = 1
  SendJitter = {0, 90}
  RequestJitter = {0, 60}
  StartTime = 3
  StopTimes = {150, 300}
  EndTime = 300
  Gaps = {1, 70}
  PacketSize = 1024
  Pattern <- ShortPatterns
  DataSize = {0, 3, 8}
  MaxFiles = 3
  MaxHeard = 3
  MaxFills = 2
SPECIFICATION Spec
INVARIANTS
  TypeOK
  HandlesNameEvents
  CrashOnlyIfStoppedEarly
  BufferIsExact
  DecodedBytesAreWritten
PROPERTIES
  FillsRepeatThePattern
  OvertakesOnlyIfAllowed
CHECK_DEADLOCK FALSE
