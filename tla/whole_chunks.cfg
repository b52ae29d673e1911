\* A file whose size is a multiple of CHUNK_SIZE.
CONSTANTS
  Sizes <- WholeChunks
  Overheard = {}
SPECIFICATION Spec
INVARIANT
  FullFileIsComplete
CHECK_DEADLOCK FALSE
