SPECIFICATION Spec
CONSTANTS
  c1 = c1
  c2 = c2
  Empty = Empty
  Checkout <- TwoCheckouts
  N = 1
  TxMode = "other"
  FaultSets <- NoFault
INVARIANTS
  ConfirmedOrderIsHeld
