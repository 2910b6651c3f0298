CONSTANTS
  Modes = {TRUE, FALSE}
  NumPages = 3
  MaxPasses = 2
  Subject = 3
  NumPlaces = 3
  Values = {name, mail}
  Patterns = {mail}
  Noticed = {mail}
  Unnamed = Unnamed
  MaxRegions = 1
  MaxBroken = 1
SPECIFICATION ContentSpec
INVARIANT DetectedIsCovered
CHECK_DEADLOCK FALSE
