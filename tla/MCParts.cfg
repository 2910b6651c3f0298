CONSTANTS
  Modes = {TRUE, FALSE}
  NumPages = 3
  MaxPasses = 2
  Subject = 3
  NumPlaces = 3
  Values = {name, mail}
  Patterns = {mail}
  Noticed = {mail}
  Unnamed = Unnamed
  MaxRegions = 1
  MaxBroken = 1
  Users = {ana}
  Threads = {t1}
  Requests = {r1, r2, r3}
  MaxDeactivations = 1
  None = None
  People = {ana, bor}
  Guids = {a1, a2, b1}
  ana = ana
  bor = bor
  a1 = a1
  a2 = a2
  b1 = b1
  Owner <- MCOwner
  Keys = {thread_id, current_path}
  Nothing = Nothing
  Apis = {agent, workspace}
  MaxCrashes = 2
  MaxOverlaps = 4
  MaxChanges = 2
  Nobody = Nobody
  NumTrees = 2
  Served = {1}
  Names = {f1, f2}
  MaxRuns = 3
  Windows = {1, 4, 20, 128000}
  Shares = {1, 8, 24}
  MaxCalls = 2
SPECIFICATION PartsSpec
INVARIANTS  UnflaggedIsSure NameTellsVerdict
  ReadableIfRepeatedOrBroken NoForeignState MarkedState 
  SuccessIsWhole LengthNeverRefuses
PROPERTIES ServesWithAdmin ComesUp EveryRequestEnds
CHECK_DEADLOCK FALSE
