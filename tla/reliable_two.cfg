\* Two nodes, two files of two chunks, no frame is lost.
CONSTANTS
  n1 = n1
  n2 = n2
  n3 = n3
  f1 = f1
  f2 = f2
  Node <- TwoNodes
  File <- TwoFiles
  NumChunks <- TwoChunksEach
  Distributions <- AnyDistribution
  Leftover = {0}
  Unreliable = {}
  Multiplier = 50
  NoEvent = NoEvent
  NoFrame = NoFrame
  MaxFrames = 2
SPECIFICATION ReliableSpec
PROPERTIES
  EventuallyDisseminated
  RequestsAreAnswered
