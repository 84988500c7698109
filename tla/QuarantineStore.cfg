SPECIFICATION Spec
CONSTANTS
  Path = {p1, p2}
  Inode = {i1, i2, i3}
  Content = {c1, c2}
  Id = {id1}
  NoFile = NoFile
  Disturbances = {}
  TornAppends = FALSE
  MaxFaults = 1
  MaxCrashes = 2
  MaxEnv = 1
SYMMETRY Symmetry
INVARIANTS
  NoContentLost
  ChangedFileLeftAlone
  RecordTellsTheTruth
PROPERTIES
  RecordLifecycle
  RemovesOnlyWhatItCopied
  ImplementsCustody
