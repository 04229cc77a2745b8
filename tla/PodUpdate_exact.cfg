SPECIFICATION Spec
CONSTANTS
  Proxies <- TwoProxies
  InstanceSpecs <- MixedSpecs
  MaxInstances = 2
  AppPorts <- OnePort
  AppEnvNames <- EnvNames
  ContainerChoices <- BuiltOrGiven
  StaleChoices = {TRUE, FALSE}
INVARIANTS
  TypeOK
  PortConflictExact
  EnvConflictExact
  EnvMatchesListeners
