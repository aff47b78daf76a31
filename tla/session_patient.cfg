SPECIFICATION Spec
CONSTANTS
  Users = {r1, r2}
  Captures = {c1, c2}
  Pcms = {p1, p2}
  Blocks = {b1, b2}
  Files = {f1, f2}
  None = none
  OpenMayFail = TRUE
  SpawnMayFail = TRUE
  ReadMayFail = TRUE
  FileMayFail = TRUE
  InitMayFail = TRUE
  MayOverflow = FALSE
  LogShown = TRUE
  LongFiles = FALSE
  MayClear = TRUE
  Waits = {"init", "destroy", "start", "stop"}
INVARIANTS
  AllReleased
  EndTold
PROPERTIES
  StartAnswered
CHECK_DEADLOCK FALSE
