SPECIFICATION PromptSpec
CONSTANTS
  Capacity = 9
  WriteLen = 4
  ReadLen = 2
  Readers = {r1}
  NoReader = none
  Clearing = TRUE
  Paced = FALSE
INVARIANTS
  TypeOK
PROPERTIES
  ReadCompletes
