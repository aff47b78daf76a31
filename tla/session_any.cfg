SPECIFICATION Spec
CONSTANTS
  Users = {r1, r2}
  Captures = {c1}
  Pcms = {p1}
  Blocks = {b1}
  Files = {f1, f2}
  None = none
  OpenMayFail = TRUE
  SpawnMayFail = TRUE
  ReadMayFail = TRUE
  FileMayFail = TRUE
  InitMayFail = TRUE
  MayOverflow = FALSE
  LogShown = TRUE
  LongFiles = TRUE
  MayClear = FALSE
  Waits = {"init", "destroy"}
INVARIANTS
  SessionTypeOK
  FlagHasThread
  EngineWhileRunning
PROPERTIES
  ImplementsLife
CHECK_DEADLOCK FALSE
