SPECIFICATION FairSpec
CONSTANTS
  Keys <- OneKey
  Selectors <- NameAndLabel
  Workloads <- OneDeployment
  MaxUserOps = 3
  MaxTime = 1
  MaxFaults = 1
PROPERTIES
  WorkIsDone
  Quiesces
CHECK_DEADLOCK FALSE
