CONSTANTS
  a = a
  b = b
  NoFolder = NoFolder
  NoRow = NoRow
  Folders = {a, b}
  Jobs = {j1}
  MaxUid = 1
  MaxEpoch = 1
  MaxChanges = 1
  MaxFaults = 0
  FaultKinds = {}
  Recurring = {}
  Rank <- MCRank
  Windows <- All
  MessageBytes <- BytesOfUid
  MaxRunBytes = 10
  Attempts = 2
  MisreadFolders = {}
  InitialSelections <- Whole
  Choices <- OneByOne
SPECIFICATION Spec
INVARIANTS
  SelectionIsTheUsers
