\* Three nodes, two files of one chunk, frames may be lost.
CONSTANTS
  n1 = n1
  n2 = n2
  n3 = n3
  f1 = f1
  f2 = f2
  Node <- ThreeNodes
  File <- TwoFiles
  NumChunks <- OneChunkEach
  Distributions <- OneSource
  Leftover = {0}
  Unreliable = {n2, n3}
  Multiplier = 50
  NoEvent = NoEvent
  NoFrame = NoFrame
  MaxFrames = 1
SYMMETRY SymmetricNodes
SPECIFICATION Spec
INVARIANTS
  ExchangesAreServable
  NeverAborts
  RequestsAreFresh
  CounterMatchesBitmap
PROPERTIES
  AsksWheneverItCan
CHECK_DEADLOCK FALSE
