SPECIFICATION OperatorSpec
CONSTANTS
  Keys <- OneKey
  Selectors <- NameOrLabel
  Workloads <- Owned
  Pods <- OnePod
  OwnerRefs <- Chain
  MaxUserOps = 3
  MaxTime = 0
  MaxFaults = 1
PROPERTIES
  ReportedIsConfigured
  ReleasedIsNotConfigured
  OwnersExact
CHECK_DEADLOCK FALSE
