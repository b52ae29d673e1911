\* The uninitialised counter holds 0, or 200000 of leftover memory.
CONSTANTS
  Junk = 256
  NoData = NoData
  FullCounts = {1, 2}
  Leftover = {0, 200000}
  AdvertisedCounts = {1, 9}
  TicksPerMs = 6
  Multiplier = 50
  SendJitter = {0, 90}
  RequestJitter = {0, 60}
  StartTime = 3
  StopTimes = {150, 300}
  EndTime = 300
  Gaps = {1, 70}
  PacketSize = 1024
  Pattern <- ShortPatterns
  DataSize = {0, 3, 8}
  MaxFiles = 3
  MaxHeard = 3
  MaxFills = 0
SPECIFICATION Spec
INVARIANTS
  AdvertisementInTime
CHECK_DEADLOCK FALSE
