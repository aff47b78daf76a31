SPECIFICATION AlsaSpec
CONSTANTS
  Users = {u1, u2}
  Captures = {c1}
  Pcms = {p1, p2}
  Blocks = {b1, b2}
  None = none
  OpenMayFail = TRUE
  SpawnMayFail = TRUE
  ReadMayFail = TRUE
  MayOverflow = TRUE
  LogShown = TRUE
INVARIANTS
  AlsaTypeOK
  ReleasedOnce
CHECK_DEADLOCK FALSE
SYMMETRY AlsaSymmetry
