SPECIFICATION FairSpec
CONSTANTS
  Job = {1, 2}
  Worker = {w1, w2}
  MaxQueued = 2
  History = 1
  None = None
  MaxFaults = 1
  MaxCrashes = 1
INVARIANTS
  NoOrphanReports
  CancelledActsNot
PROPERTIES
  JobLifecycle
  EveryJobEnds
  StopCompletes
