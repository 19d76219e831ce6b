SPECIFICATION Spec
CONSTANTS
  p = p
  u = u
  v = v
  b = b
  NoFile = NoFile
  NoConfig = NoConfig
  NoProcess = NoProcess
  Item <- MCItem2
  Block <- MCBlock
  Contributes <- MCContributes
  NumDomains = 2
  DomainOf <- MCDomainOf2
  Process = {d1, d2}
  Verbs = {"apply", "rollback", "sync", "prune"}
  KeepChoices = {1}
  StartConfig <- MCStart2
  Configs <- MCConfigs2
  LockFileUsable = TRUE
  MaxGen = 3
  MaxOthers = 1
  MaxFaults = 0
  MaxActs = 1
CHECK_DEADLOCK FALSE
INVARIANTS OneApplyAtATime ApplyConverges
PROPERTIES CommandsEnd
