CONSTANTS
  a = a
  b = b
  Folders = {a, b}
  Jobs = {j1, j2}
  Selectable = {a}
  Filters <- AllOrB
  InitialSelections <- OnlyB
  MaxInFlight = 2
SPECIFICATION FairSpec
INVARIANTS
  PageTypeOK
  ExposureIsTicked
  RunTakesTheTicks
PROPERTIES
  SyncClickEnds
