CONSTANTS
  a = a
  b = b
  NoFolder = NoFolder
  NoRow = NoRow
  Folders = {a}
  Jobs = {j1}
  MaxUid = 2
  MaxEpoch = 2
  MaxChanges = 1
  MaxFaults = 0
  FaultKinds <- Losses
  Recurring <- Losses
  Rank <- MCRankOne
  Windows <- All
  MessageBytes <- BytesOfUid
  MaxRunBytes = 10
  Attempts = 2
  MisreadFolders = {}
  InitialSelections <- Whole
  Choices <- NoChoice
SPECIFICATION Spec
INVARIANTS
  ShownUnderOwnEpoch
