SPECIFICATION Spec
CONSTANTS
  r1 = r1
  r2 = r2
  NoKey = NoKey
  NoOrder = NoOrder
  Request <- Transactions
  Key <- Transactions
  OrderId <- Transactions
  Modes = {"twopc", "tcc", "outbox", "saga-chor"}
  FaultSets <- BenchFaults
  Worker = {w1, w2}
  Latency = {400000, 1300000}
  DirectOps = 2
INVARIANTS
  TypeOK
  ReportAddsUp
  NearestRank
  ExtremesAgree
  FinalizedIsSettled
PROPERTIES
  Finishes
