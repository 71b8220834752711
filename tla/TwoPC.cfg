SPECIFICATION FairSpec
CONSTANTS
  c1 = c1
  c2 = c2
  Empty = Empty
  Checkout <- OneCheckout
  N = 2
  TxMode = "twopc"
  FaultSets <- MaximalFaults
INVARIANTS
  TypeOK
  CommitNeedsEveryVote
  LogAgrees
  ConfirmedIsBacked
  DecisionBeforeCommit
  ReleasedOnAbort
  AbortReachesPrepared
PROPERTIES
  OutcomeIsFinal
  CommitIsFinalIfCallsArrive
  KeepsPromise
  Answered
  OrderSettles
  ReservationsResolve
