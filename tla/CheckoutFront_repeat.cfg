SPECIFICATION FrontSpec
CONSTANTS
  Request = {r1, r2}
  Key = {k1}
  OrderId = {o1}
  NoKey = NoKey
  NoOrder = NoOrder
  Modes = {"twopc"}
  FaultSets <- NoFault
INVARIANTS
  RepeatsAreServed
