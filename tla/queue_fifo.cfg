SPECIFICATION DataSpec
CONSTANTS
  Capacity = 9
  WriteLen = 4
  ReadLen = 2
  Readers = {r1}
  NoReader = none
  Clearing = FALSE
  Paced = TRUE
  MaxCaptured = 40
INVARIANTS
  DataTypeOK
  CopiesDisjoint
  ReadInBlock
  WriteInBlock
  LenExact
PROPERTIES
  ImplementsStream
