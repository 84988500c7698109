SPECIFICATION Spec
CONSTANTS
  Entry = {1, 2}
  None = None
  N = 1
  QueueCap = 1
  MsgCap = 1
  MayStop = FALSE
  MayFail = FALSE
  Prompt = TRUE
INVARIANTS
  EveryFileAccounted
CHECK_DEADLOCK FALSE
