\* Files that end in a partial chunk.
CONSTANTS
  Sizes <- SmallSizes
  Overheard <- FirstFiveChunks
SPECIFICATION Spec
INVARIANTS
  TypeOK
  RequestNamesAChunk
  FullFileIsComplete
\* A file that is full gets no more chunks.
CHECK_DEADLOCK FALSE
