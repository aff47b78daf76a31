SPECIFICATION Spec
CONSTANTS
  Users = {r1}
  Captures = {c1}
  Pcms = {p1}
  Blocks = {b1}
  Files = {f1}
  None = none
  OpenMayFail = TRUE
  SpawnMayFail = TRUE
  ReadMayFail = TRUE
  FileMayFail = TRUE
  InitMayFail = FALSE
  MayOverflow = FALSE
  LogShown = TRUE
  LongFiles = FALSE
  MayClear = FALSE
  Waits = {}
PROPERTIES
  StopEnds
  ImplementsLife
CHECK_DEADLOCK FALSE
