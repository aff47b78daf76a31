SPECIFICATION PromptSpec
CONSTANTS
  Capacity = 17
  WriteLen = 5
  ReadLen = 2
  Readers = {r1}
  NoReader = none
  Clearing = FALSE
  Paced = FALSE
INVARIANTS
  LagBounded
  ReadsWholeHead
