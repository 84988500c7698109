SPECIFICATION FairSpec
CONSTANTS
  Entry = {1, 2, 3}
  None = None
  N = 1
  QueueCap = 1
  MsgCap = 1
  MayStop = TRUE
  MayFail = TRUE
  Prompt = FALSE
INVARIANTS
  CompletedMeansDrained
  CompletedAccountsForAll
PROPERTIES
  Finishes
  ThreadsEnd
CHECK_DEADLOCK FALSE
