CONSTANTS
  A = A
  Jobs = {j1}
  Accounts = {A, B}
  NoAccount = NoAccount
  Secrets = {s1, s2}
  Generated = {s2, t2}
  Tokens = {t1, t2}
  NoValue = NoValue
  DefaultSecret = DefaultSecret
  InitialEnvs <- SomeFiles
  MaxRows = 1
  MaxEdits = 0
  MaxFaults = 0
SPECIFICATION Spec
INVARIANTS
  AdminAnswersAreJson
