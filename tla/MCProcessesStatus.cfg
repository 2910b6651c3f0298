CONSTANTS
  Procs = {p1}
  Callers = {c1, c2}
  MaxManagers = 1
  None = None
SPECIFICATION Spec
INVARIANT StatusIsCurrent
SYMMETRY Symmetry
CHECK_DEADLOCK FALSE
