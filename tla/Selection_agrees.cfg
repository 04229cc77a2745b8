SPECIFICATION Spec
CONSTANTS
  Ns = "ns1"
  Selectors <- SomeSelectors
  Workloads <- SomeWorkloads
INVARIANT
  SelectionAgrees
