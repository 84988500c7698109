SPECIFICATION Spec
CONSTANTS
  MaxDatabaseBytes = 10
  MaxSignatureCount = 10
  MaxSourceBytes = 10
  MaxRules = 10
  FewImports = 10
  BlobRun = 4096
  Path <- MCPath
  Node <- MCNode
  NodeOf <- MCNodeOf
  Scene <- MCScene
  Detector <- MCDetector
  Config <- Limits
  Allowed = {"ok"}
  Protected = {}
  Worker = {w1, w2}
  Quarantines = TRUE
  MaxGrowth = 1
  None = None
INVARIANTS TypeOK NothingSilent DuplicateIsCovered CleanExitIsClean
PROPERTIES QuarantineIsEarned
CHECK_DEADLOCK FALSE
