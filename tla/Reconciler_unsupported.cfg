SPECIFICATION FairSpec
CONSTANTS
  Keys <- OneKey
  Selectors <- OnlyUnsupported
  Workloads <- OneDeployment
  MaxUserOps = 2
  MaxTime = 0
  MaxFaults = 0
PROPERTIES
  DeletedIsReleased
CHECK_DEADLOCK FALSE
