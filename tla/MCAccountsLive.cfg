CONSTANTS
  Users = {boot, ana}
  Bootstrap = boot
  Requests = {r1, r2}
  Sessions = {s1}
  Codes = {c1}
  MaxVersion = 0
  None = None
SPECIFICATION FairSpec
INVARIANTS InductiveInv HandoffOnce
PROPERTY EveryTransactionEnds
CHECK_DEADLOCK FALSE
