SPECIFICATION Spec
CONSTANTS
  Proxies <- TwoProxies
  InstanceSpecs <- PortSpecs
  MaxInstances = 2
  AppPorts <- PodPorts
  AppEnvNames <- NoEnv
  ContainerChoices <- BuiltOrGiven
  StaleChoices = {FALSE}
INVARIANT
  ExplicitPortChecked
