CONSTANTS
  Procs = {p1}
  Callers = {c1, c2}
  MaxManagers = 1
  None = None
SPECIFICATION FairSpec
INVARIANTS InductiveInv OverIsOver StaysStoppable
PROPERTY EveryCallEnds
CHECK_DEADLOCK FALSE
