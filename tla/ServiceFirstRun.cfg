SPECIFICATION Spec
CONSTANTS
  None = None
  j1 = j1 j2 = j2 j3 = j3 c1 = c1 c2 = c2 k = k
  Day = 3
  Worlds <- MCWorlds
  Accounts <- MCAccounts
  FirstRuns <- NeverRun
  Clients = {c1}
  Cli = k
  Uids <- MCUids
  Outcomes <- MCOutcomes
  Requests <- MCRequests
  Commands <- MCCommands
  JobIds = {j1, j2, j3}
  Items <- MCItems
  Self = 0
  MaxConnections = 1
  MaxRequests = 1
  MaxPaths = 1
  MaxEvery = 9
  MaxListed = 2
  Horizon = 5
  MaxConnects <- NoConnects
  MaxFaults = 0
INVARIANTS DueRuns
CHECK_DEADLOCK FALSE
