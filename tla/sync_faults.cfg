CONSTANTS
  a = a
  b = b
  NoFolder = NoFolder
  NoRow = NoRow
  Folders = {a}
  Jobs = {j1}
  MaxUid = 2
  MaxEpoch = 3
  MaxChanges = 3
  MaxFaults = 0
  FaultKinds <- AllFaults
  Recurring <- AllFaults
  Rank <- MCRankOne
  Windows <- All
  MessageBytes <- BytesOfUid
  MaxRunBytes = 10
  Attempts = 2
  MisreadFolders = {}
  InitialSelections <- Nothing
  Choices <- Whole
SPECIFICATION FairSpec
INVARIANTS
  TypeOK
  MisfiledRowsAreOutdated
  OneVisibleEpoch
  CompletedMeansShown
PROPERTIES
  ShownMessagesDoNotChange
  WorkRunsOut
  SyncTerminates
