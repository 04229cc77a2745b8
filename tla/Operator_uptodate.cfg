SPECIFICATION OperatorSpec
CONSTANTS
  Keys <- OneKey
  Selectors <- OnlyName
  Workloads <- Owned
  Pods <- OnePod
  OwnerRefs <- Chain
  MaxUserOps = 1
  MaxTime = 0
  MaxFaults = 0
INVARIANT
  UpToDateIsApplied
CHECK_DEADLOCK FALSE
