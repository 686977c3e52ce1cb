CONSTANTS
  a = a
  b = b
  NoFolder = NoFolder
  NoRow = NoRow
  NoKey = NoKey
  Folders = {a}
  Jobs = {j1}
  MaxUid = 2
  MaxEpoch = 3
  MaxChanges = 2
  MaxFaults = 1
  FaultKinds = {"drop"}
  Recurring = {"drop"}
  Rank <- MCRankOne
  Windows <- All
  MessageBytes <- BytesOfUid
  MaxRunBytes = 10
  Attempts = 2
  MisreadFolders = {}
  InitialSelections <- Whole
  Choices <- NoChoice
  FolderKey <- MCRankOne
  CaseFolders = {a}
  SentFolders = {}
  DefaultSent = {}
  OwnUids <- NoUids
  ToolsAsked = {"message"}
SPECIFICATION ReadsSpec
INVARIANTS
  DetailIsWhole
