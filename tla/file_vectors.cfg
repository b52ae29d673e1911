\* Three nodes, three files at the boundary of the fields.
CONSTANTS
  n1 = n1
  n2 = n2
  n3 = n3
  Node <- ThreeNodes
  FileSize <- ThreeSizes
  InitialLists <- OneCollector
  FieldWidth = 4
  CountWidth = 4
SYMMETRY SymmetricNodes
SPECIFICATION Spec
INVARIANTS
  NothingIsListedTwice
  RecordsFitTheirFile
  ChoiceIsAllowed
PROPERTIES
  HandlersAgree
