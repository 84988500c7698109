SPECIFICATION Spec
CONSTANTS
  Key = {"c1", "c2", "t1"}
  Name = {"a"}
  Forever = 9
  MaxThreshold = 16
  MaxSignatures = 16
  ClockSkew = 0
  MaxLifetime = 5
  Proc = {p1, p2}
  Dir <- MCDir
  Stamp <- MCStamp
  Args <- MCArgs
  Sorted <- SortedA
  Extends <- NoExtends
  None = None
  Faults = {"save", "rename", "remove"}
  MaxTime = 2
  MaxRuns = 3
  MaxCrashes = 1
  MaxDatabaseBytes = 4
  MaxSignatureCount = 3
  MaxSourceBytes = 9
  MaxRules = 2
  FewImports = 3
  BlobRun = 1
  Sha256 <- MCSha256
  Hidden = {"manifest.json.minisig"}
  Unsafe = {"a:b"}
  Flat = {"rules.yar", "LICENSE"}
  Alnum = {"a"}
  IdLength = 3
  IdDigits = 1
  MaxPath = 3
  MaxFiles = 3
  MaxContentBytes = 4
  MaxNoticeBytes = 1
  MaxRevocations = 1
  MaxListBytes = 3
  MaxRuleFiles = 3
  MaxRecorded = 1
INVARIANT CopySurvives
PROPERTIES NoRollback StateOnlyGrows RevokedKeysSignNothing
CHECK_DEADLOCK FALSE
