SPECIFICATION StallSpec
CONSTANTS
  Capacity = 9
  WriteLen = 4
  ReadLen = 2
  Readers = {r1}
  NoReader = none
  Clearing = FALSE
  Paced = FALSE
PROPERTIES
  WaitsOnlyForData
