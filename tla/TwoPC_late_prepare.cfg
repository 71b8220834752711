SPECIFICATION Spec
CONSTANTS
  c1 = c1
  c2 = c2
  Empty = Empty
  Checkout <- OneCheckout
  N = 2
  TxMode = "twopc"
  FaultSets <- OnlyCall
INVARIANTS
  Released
