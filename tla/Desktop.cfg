SPECIFICATION Spec
CONSTANTS
  Path = {p1}
  Item = {i1, i2}
  None = None
  MaxScans = 2
  MaxCalls = 2
  MaxProgress = 1
INVARIANTS EventsAreOfTheScanShown OnlyWhatWasConfirmed NeverStuckBusy
CHECK_DEADLOCK FALSE
