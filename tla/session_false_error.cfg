SPECIFICATION Spec
CONSTANTS
  Users = {r1}
  Captures = {c1}
  Pcms = {p1}
  Blocks = {b1}
  Files = {f1}
  None = none
  OpenMayFail = FALSE
  SpawnMayFail = FALSE
  ReadMayFail = FALSE
  FileMayFail = FALSE
  InitMayFail = FALSE
  MayOverflow = FALSE
  LogShown = TRUE
  LongFiles = FALSE
  MayClear = FALSE
  Waits = {"init", "destroy", "start", "stop"}
INVARIANTS
  ErrorMeansFailure
CHECK_DEADLOCK FALSE
