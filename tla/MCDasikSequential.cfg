SPECIFICATION RetrySpec
CONSTANTS
  p = p
  u = u
  v = v
  b = b
  NoFile = NoFile
  NoConfig = NoConfig
  NoProcess = NoProcess
  Item <- MCItem
  Block <- MCBlock
  Contributes <- MCContributes
  NumDomains = 2
  DomainOf <- MCDomainOf
  Process = {d1}
  Verbs = {"apply", "rollback", "sync", "prune"}
  KeepChoices = {1}
  StartConfig <- MCStart
  Configs <- MCConfigs
  LockFileUsable = TRUE
  MaxGen = 12
  MaxOthers = 2
  MaxFaults = 2
  MaxActs = 1
CHECK_DEADLOCK FALSE
INVARIANTS TypeOK StoresStaySound ApplyConverges OwnershipSurvives
PROPERTIES RecordsAreKept KeepsOwnershipPromise EventuallyConverged
