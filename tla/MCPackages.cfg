SPECIFICATION Spec
CONSTANTS
  base = base
  app = app
  lib = lib
  virt = virt
  old = old
  m1 = m1
  m2 = m2
  tool = tool
  adep = adep
  yay = yay
  ext = ext
  mid = mid
  ghost = ghost
  grp = grp
  r1 = r1
  r2 = r2
  Nothing = Nothing
  Helper = yay
  Package <- Packs
  Depends <- MCDepends
  Conflicts <- MCConflicts
  Provides <- MCProvides
  Members <- MCMembers
  Group = {grp}
  Repo <- InRepos
  Aur = {tool, adep, yay, ext, mid}
  AurProvided = {}
  MaxNodes = 4
  Prerequisites = {base}
  Implied = {base}
  BehindUnits = {m1}
  Ref = {r1, r2}
  StartConfig <- MCStart
  Configs <- MCConfigs
  StartInstalled = {base, old}
  StartAsdep = {base}
  ByHand = {old, m1}
  MaxFaults = 2
  MaxActs = 2
PROPERTIES
  RecordIsTrue
  BuildsAreSound
  EventuallyQuiet
