CONSTANTS
  Jobs = {j1, j2, j3}
  Names = {f, g}
  None = None
  Sizes <- MCSizes
  Quota = 2
  MaxCrashes = 1
SPECIFICATION Spec
INVARIANTS InductiveInv PublishedWhole NoLeftovers QuotaKeptAlone SuccessIsWritten
PROPERTIES LinkNeverReplaces ImplementsFileStore
SYMMETRY Symmetry
CHECK_DEADLOCK FALSE
