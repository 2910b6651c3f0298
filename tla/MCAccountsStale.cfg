CONSTANTS
  Users = {boot, ana}
  Bootstrap = boot
  Requests = {r1, r2}
  Sessions = {s1, s2}
  Codes = {}
  MaxVersion = 1
  None = None
SPECIFICATION Spec
INVARIANT ResetEndsOldSessions
SYMMETRY Symmetry
CHECK_DEADLOCK FALSE
