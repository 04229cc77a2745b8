SPECIFICATION FairSpec
CONSTANTS
  Keys <- OneKey
  Selectors <- OnlyLabel
  Workloads <- OneDeployment
  MaxUserOps = 2
  MaxTime = 0
  MaxFaults = 0
PROPERTIES
  DeletedIsForgotten
CHECK_DEADLOCK FALSE
