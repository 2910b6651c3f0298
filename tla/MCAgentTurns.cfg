CONSTANTS
  Users = {ana, bor}
  Threads = {t1, t2}
  Requests = {r1, r2, r3, r4}
  MaxDeactivations = 1
  None = None
SPECIFICATION Spec
INVARIANTS InductiveInv OneTurnPerUser PreviewIsNewest
PROPERTIES ImplementsTurnLog TitleStays NoTurnAcrossDeactivation
SYMMETRY Symmetry
CHECK_DEADLOCK FALSE
