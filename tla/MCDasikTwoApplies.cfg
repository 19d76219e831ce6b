SPECIFICATION Spec
CONSTANTS
  p = p
  u = u
  v = v
  b = b
  NoFile = NoFile
  NoConfig = NoConfig
  NoProcess = NoProcess
  Item <- MCItem
  Block <- MCBlock
  Contributes <- MCContributes
  NumDomains = 2
  DomainOf <- MCDomainOf
  Process = {d1, d2}
  Verbs = {"apply"}
  KeepChoices = {1}
  StartConfig <- MCStart
  Configs <- MCConfigs
  LockFileUsable = TRUE
  MaxGen = 4
  MaxOthers = 0
  MaxFaults = 0
  MaxActs = 1
PROPERTY DisownsOnlyWhatItSaw
CHECK_DEADLOCK FALSE
