SPECIFICATION Spec
CONSTANTS
  Letters = 3
  Base = 2
  maxNameLen = 10
  ContainerPrefix <- SmallPrefix
  Namespace <- SmallNamespace
  ResourceNames <- SomeNames
  MaxResources = 2
  mustHash <- SmallHash
INVARIANTS
  ContainerNameValid
  UniqueUpToChecksum
