SPECIFICATION Spec
CONSTANTS
  Keys <- OneKey
  Selectors <- AnySelector
  Workloads <- TwoDeployments
  MaxUserOps = 4
  MaxTime = 0
  MaxFaults = 1
INVARIANTS
  TypeOK
  NoLostWork
  ObservedGenerationSound
  WorkloadStatusMatchesSpec
  ReasonBacked
PROPERTIES
  UserIntentPreserved
  ImplementsLifecycle
CHECK_DEADLOCK FALSE
