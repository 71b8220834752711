SPECIFICATION Spec
CONSTANTS
  c1 = c1
  Checkout <- OneCheckout
  N = 2
  Modes <- OnlyTcc
  FaultSets <- OnlyCall
INVARIANTS
  EveryTryIsCancelled
