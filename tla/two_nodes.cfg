\* Two nodes, two files of two chunks, frames may be lost.  With Multiplier 0 the
\* advertisement of a node with one of the files may overtake its request.
CONSTANTS
  n1 = n1
  n2 = n2
  n3 = n3
  f1 = f1
  f2 = f2
  Node <- TwoNodes
  File <- TwoFiles
  NumChunks <- TwoChunksEach
  Distributions <- AnyDistribution
  Leftover = {0}
  Unreliable = {n1, n2}
  Multiplier = 0
  NoEvent = NoEvent
  NoFrame = NoFrame
  MaxFrames = 2
SPECIFICATION Spec
INVARIANTS
  TypeOK
  CounterMatchesBitmap
  HoldersHaveFile
  MaximumCoversOwnFiles
PROPERTIES
  ImplementsDissemination
  FullFilesAreKept
CHECK_DEADLOCK FALSE
