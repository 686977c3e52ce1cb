CONSTANTS
  a = a
  b = b
  NoFolder = NoFolder
  NoRow = NoRow
  Folders = {a, b}
  Jobs = {j1}
  MaxUid = 2
  MaxEpoch = 1
  MaxChanges = 2
  MaxFaults = 0
  FaultKinds <- MailFaults
  Recurring <- MailFaults
  Rank <- MCRank
  Windows <- AllOrLater
  MessageBytes <- BytesOfUid
  MaxRunBytes = 3
  Attempts = 2
  MisreadFolders = {a}
  InitialSelections <- Nothing
  Choices <- OneByOne
SPECIFICATION Spec
INVARIANTS
  RowsAreOfTheirFolder
  BudgetHolds
  ExposureWithinChosen
  CompletedMeansStored
PROPERTIES
  KeepsFace
