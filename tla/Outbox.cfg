SPECIFICATION FairSpec
CONSTANTS
  o1 = o1
  o2 = o2
  r1 = r1
  r2 = r2
  Order <- TwoOrders
  Replica <- TwoReplicas
  HomeOf <- EachItsReplica
  TxMode = "outbox"
  Batch = 2
  Oversized <- FirstMayBeLarge
  FaultSets <- FaultByFault
  MaxFaults = 1
INVARIANTS
  TypeOK
  SentIsPublished
  PublishedAtMost
  SettledWithEvent
PROPERTIES
  DeliversInOrder
  EveryEventPublished
  EveryEventNotified
