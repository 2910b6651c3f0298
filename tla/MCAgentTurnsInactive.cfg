CONSTANTS
  Users = {ana}
  Threads = {t1}
  Requests = {r1, r2, r3}
  MaxDeactivations = 1
  None = None
SPECIFICATION Spec
PROPERTY NoInvocationWhenInactive
SYMMETRY Symmetry
CHECK_DEADLOCK FALSE
