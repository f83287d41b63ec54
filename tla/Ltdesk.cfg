SPECIFICATION Spec
CONSTANTS
  Cmd = {c1, c2}
  Launch = {u1, u2}
  Denied = {u2}
INVARIANTS
  LtdeskTypeOK
  OneHost
  WaitedDownIsGone
CHECK_DEADLOCK FALSE
