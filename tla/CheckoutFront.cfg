SPECIFICATION FrontSpec
CONSTANTS
  Request = {r1, r2, r3}
  Key = {k1}
  OrderId = {o1, o2}
  NoKey = NoKey
  NoOrder = NoOrder
  Modes = {"outbox"}
  FaultSets <- FrontFaults
INVARIANTS
  OneRunPerKey
  AnswersAgree
PROPERTIES
  Served
