SPECIFICATION FairSpec
CONSTANTS
  Path = {p1}
  Inode = {i1, i2}
  Content = {c1, c2}
  Id = {id1}
  NoFile = NoFile
  Disturbances = {"write", "reuse", "swap"}
  TornAppends = FALSE
  MaxFaults = 1
  MaxCrashes = 1
  MaxEnv = 1
PROPERTIES
  PendingIsResolved
