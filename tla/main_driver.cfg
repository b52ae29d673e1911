\* Two nodes that may draw the whole catalogue of three files.
CONSTANTS
  NumberOfMobileNodes = 2
  TotalFileCount = 3
  MaxFileCountPerNode = 3
  ChunksPerFile = 2
SPECIFICATION Spec
INVARIANTS
  TypeOK
  UniqueFilesKept
  TotalsConsistent
PROPERTIES
  StartsTheExchange
  MainReturns
