CONSTANTS
  a = a
  b = b
  NoFolder = NoFolder
  NoRow = NoRow
  NoKey = NoKey
  Folders = {a, b}
  Jobs = {j1}
  MaxUid = 1
  MaxEpoch = 1
  MaxChanges = 0
  MaxFaults = 0
  FaultKinds = {}
  Recurring = {}
  Rank <- MCRank
  Windows <- All
  MessageBytes <- BytesOfUid
  MaxRunBytes = 10
  Attempts = 2
  MisreadFolders = {}
  InitialSelections <- Nothing
  Choices <- OneByOne
  FolderKey <- MCFolderKey
  CaseFolders = {a, b}
  SentFolders = {b}
  DefaultSent = {b}
  OwnUids <- EveryUid
  ToolsAsked = {"related"}
SPECIFICATION ReadsSpec
INVARIANTS
  RelatedAreOfSentFolders
