CONSTANTS
  a = a
  b = b
  NoFolder = NoFolder
  NoRow = NoRow
  Folders = {a}
  Jobs = {j1, j2}
  MaxUid = 2
  MaxEpoch = 2
  MaxChanges = 1
  MaxFaults = 1
  FaultKinds <- Losses
  Recurring = {}
  Rank <- MCRankOne
  Windows <- All
  MessageBytes <- BytesOfUid
  MaxRunBytes = 10
  Attempts = 2
  MisreadFolders = {}
  InitialSelections <- Whole
  Choices <- NoChoice
SPECIFICATION PersistentUserSpec
INVARIANTS
  StatusSettled
PROPERTIES
  StaysMirrored
  Converges
  KeepsPromise
