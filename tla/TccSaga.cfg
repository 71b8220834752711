SPECIFICATION FairSpec
CONSTANTS
  c1 = c1
  Checkout <- OneCheckout
  N = 3
  Modes <- BothModes
  FaultSets <- MaximalFaults
INVARIANTS
  ConfirmedIsBacked
  EventAgrees
  ConfirmedIsAnnounced
  CancelsInReverse
  RejectedIsCancelled
  CancelSticks
PROPERTIES
  OutcomeIsFinal
  TccKeepsPromise
  OrderSettles
