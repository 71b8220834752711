SPECIFICATION Spec
CONSTANTS
  c1 = c1
  Empty = Empty
  Checkout <- OneTransaction
  N = 3
  TxMode = "twopc"
  FaultSets <- EngineFaults
INVARIANTS
  AbortedReleases
PROPERTIES
  KeepsPromise
