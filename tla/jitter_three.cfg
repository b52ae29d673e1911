\* Three nodes that overtake each other, two files of one chunk, no loss.
CONSTANTS
  n1 = n1
  n2 = n2
  n3 = n3
  f1 = f1
  f2 = f2
  Node <- ThreeNodes
  File <- TwoFiles
  NumChunks <- OneChunkEach
  Distributions <- OneSource
  Leftover = {0}
  Unreliable = {}
  Multiplier = 50
  NoEvent = NoEvent
  NoFrame = NoFrame
  MaxFrames = 1
SPECIFICATION JitterSpec
PROPERTIES
  EventuallyDisseminated
