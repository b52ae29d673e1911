\* Three nodes, a file of two chunks and one of one, no frame is lost.
CONSTANTS
  n1 = n1
  n2 = n2
  n3 = n3
  f1 = f1
  f2 = f2
  Node <- ThreeNodes
  File <- TwoFiles
  NumChunks <- OneAndTwoChunks
  Distributions <- OneSource
  Leftover = {0}
  Unreliable = {}
  Multiplier = 50
  NoEvent = NoEvent
  NoFrame = NoFrame
  MaxFrames = 1
SYMMETRY SymmetricNodes
SPECIFICATION ReliableSpec
INVARIANTS
  NeverSilent
  RequestsAreFresh
PROPERTIES
  ImplementsDissemination
