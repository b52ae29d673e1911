\* Two nodes, frames may be lost: the exchange runs dry.
CONSTANTS
  n1 = n1
  n2 = n2
  n3 = n3
  f1 = f1
  f2 = f2
  Node <- TwoNodes
  File <- TwoFiles
  NumChunks <- OneChunkEach
  Distributions <- AnyDistribution
  Leftover = {0}
  Unreliable = {n1, n2}
  Multiplier = 50
  NoEvent = NoEvent
  NoFrame = NoFrame
  MaxFrames = 1
SPECIFICATION Spec
INVARIANT
  NeverSilent
CHECK_DEADLOCK FALSE
