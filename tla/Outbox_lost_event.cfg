SPECIFICATION FairSpec
CONSTANTS
  o1 = o1
  o2 = o2
  r1 = r1
  r2 = r2
  Order <- OneOrder
  Replica <- OneReplica
  HomeOf <- AllOnOne
  TxMode = "outbox"
  Batch = 2
  Oversized = {{}}
  FaultSets <- OnlyConsumer
  MaxFaults = 1
PROPERTIES
  EventsArrive
