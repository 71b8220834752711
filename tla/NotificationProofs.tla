-------------------------- MODULE NotificationProofs --------------------------
(***************************************************************************)
(* Proofs about the outbox, its relays and the consumer of the topic, for  *)
(* any number of orders and replicas, any batch size, any sets of faults   *)
(* and any number of them.                                                 *)
(***************************************************************************)
EXTENDS Notification, FiniteSetTheorems, SequenceTheorems, TLAPS

-----------------------------------------------------------------------------
(* The inductive invariant.                                                *)

Stored(o) == row[o] \in {"pending", "sent"}

(* What the place of the request says about its row.                       *)
PlaceTellsRow(o) ==
  /\ pc[o] \in {"start", "created"} => row[o] = "none" /\ rowId[o] = 0
  /\ pc[o] = "inserting" => row[o] = "inserting"
  /\ pc[o] = "enqueued" => Stored(o)
  /\ order[o] = SettledStatus => Stored(o)
  /\ row[o] # "none" => rowId[o] # 0

(* The sequence never gives an id twice.                                   *)
Numbered == {o \in Order : rowId[o] # 0}
IdsDiffer ==
  /\ \A o, q \in Order : o # q /\ rowId[o] # 0 => rowId[o] # rowId[q]
  /\ lastId = Cardinality(Numbered)

(* The record a relay takes next.                                          *)
First(o, rows) == o \in rows /\ \A q \in rows : rowId[o] <= rowId[q]

(* A relay only holds stored records, and has published the one it marks.  *)
RelayHolds(r) ==
  /\ \A o \in batch[r] : Stored(o)
  /\ marking[r] => \E o \in Order : First(o, batch[r]) /\ Published(o)

TopicTellsRow(o) ==
  /\ Published(o) => Stored(o)
  /\ row[o] = "sent" => Published(o)

NotifiedIsPublished == \A o \in handling \cup notified : Published(o)

Inv ==
  /\ TypeOK /\ IdsDiffer /\ NotifiedIsPublished
  /\ \A o \in Order : PlaceTellsRow(o) /\ TopicTellsRow(o)
  /\ \A r \in Replica : RelayHolds(r)

-----------------------------------------------------------------------------
(* How often a record is published.                                        *)

(* The replicas that have published o and not marked it yet, and those     *)
(* that may still publish it from their batch.                             *)
Marking(o) == {r \in Replica : marking[r] /\ First(o, batch[r])}
Waiting(o) == {r \in Replica : o \in batch[r]} \ Marking(o)

(* The faults that have struck.                                            *)
Struck == MaxFaults - left

(* Until a record is marked as sent, each copy is one of a replica that is *)
(* about to mark it or is due to a fault; afterwards nobody fetches it.    *)
CopiesCounted(o) ==
  IF row[o] = "sent" THEN Copies(o) + Cardinality(Waiting(o)) <= Cardinality(Replica) + Struck
                     ELSE Copies(o) <= Cardinality(Marking(o)) + Struck

CountInv == Inv /\ \A o \in Order : CopiesCounted(o)

(* Each unsettled order is due to a fault of its own.                      *)
UnsettledInv == Inv /\ Cardinality(Unsettled) <= Struck

-----------------------------------------------------------------------------
(* Lemmas about the topic and the first record of a batch.                 *)

LEMMA Appending ==
  ASSUME topic \in Seq(Order), NEW o \in Order, topic' = Append(topic, o)
  PROVE  /\ topic' \in Seq(Order) /\ Len(topic') = Len(topic) + 1
         /\ \A q \in Order : Published(q)' <=> Published(q) \/ q = o
<1>1. /\ topic' \in Seq(Order) /\ Len(topic') = Len(topic) + 1 /\ topic'[Len(topic) + 1] = o
      /\ \A i \in 1..Len(topic) : topic'[i] = topic[i]
  BY AppendProperties
<1>2. Len(topic) \in Nat /\ DOMAIN topic = 1..Len(topic) /\ DOMAIN topic' = 1..(Len(topic) + 1)
  BY <1>1, LenProperties
<1>3. \A q \in Order : Published(q)' <=> Published(q) \/ q = o
  BY <1>1, <1>2 DEF Published
<1> QED BY <1>1, <1>3

LEMMA CopiesAppended ==
  ASSUME topic \in Seq(Order), NEW o \in Order, topic' = Append(topic, o), NEW q \in Order
  PROVE  Copies(q)' = IF q = o THEN Copies(q) + 1 ELSE Copies(q)
<1> DEFINE places == {i \in DOMAIN topic : topic[i] = q}
<1>1. /\ topic' \in Seq(Order) /\ Len(topic') = Len(topic) + 1 /\ topic'[Len(topic) + 1] = o
      /\ \A i \in 1..Len(topic) : topic'[i] = topic[i]
  BY AppendProperties
<1>2. Len(topic) \in Nat /\ DOMAIN topic = 1..Len(topic) /\ DOMAIN topic' = 1..(Len(topic) + 1)
  BY <1>1, LenProperties
<1>3. IsFiniteSet(places) /\ Len(topic) + 1 \notin places
  <2>1. IsFiniteSet(1..Len(topic))
    BY <1>2, FS_Interval
  <2> QED BY <1>2, <2>1, FS_Subset
<1>4. {i \in DOMAIN topic' : topic'[i] = q} =
        IF q = o THEN places \cup {Len(topic) + 1} ELSE places
  BY <1>1, <1>2
<1> QED BY <1>3, <1>4, FS_AddElement DEF Copies

LEMMA CopiesType ==
  ASSUME topic \in Seq(Order), NEW q \in Order
  PROVE  /\ IsFiniteSet({i \in DOMAIN topic : topic[i] = q}) /\ Copies(q) \in Nat
         /\ Copies(q) > 0 <=> Published(q)
<1>1. IsFiniteSet(DOMAIN topic)
  BY LenProperties, FS_Interval
<1>2. IsFiniteSet({i \in DOMAIN topic : topic[i] = q})
  BY <1>1, FS_Subset
<1>3. Copies(q) \in Nat
  BY <1>2, FS_CardinalityType DEF Copies
<1>4. Copies(q) = 0 <=> {i \in DOMAIN topic : topic[i] = q} = {}
  BY <1>2, FS_EmptySet DEF Copies
<1> QED BY <1>2, <1>3, <1>4 DEF Published

(* A set of records with ids has a first one.                              *)
LEMMA FirstExists ==
  ASSUME TypeOK, NEW rows \in SUBSET Order, rows # {}
  PROVE  FirstRow(rows) \in Order /\ First(FirstRow(rows), rows)
<1> DEFINE before(o) == {q \in rows : rowId[q] < rowId[o]}
           sets == {before(o) : o \in rows}
<1>1. \A o \in Order : rowId[o] \in Nat
  BY DEF TypeOK, RelayTypeOK
<1>2. IsFiniteSet(rows)
  BY OutboxAssumption, FS_Subset
<1>3. IsWellFoundedOn(StrictSubsetOrdering(rows), FiniteSubsetsOf(rows))
  BY FS_StrictSubsetOrderingWellFounded
<1>4. sets \subseteq FiniteSubsetsOf(rows) /\ sets # {}
  <2>1. FiniteSubsetsOf(rows) = SUBSET rows
    BY <1>2, FS_FiniteSubsetsOfFinite
  <2>2. \A o \in rows : before(o) \in SUBSET rows
    OBVIOUS
  <2>3. sets \subseteq SUBSET rows
    BY <2>2
  <2>4. PICK o \in rows : TRUE
    OBVIOUS
  <2>5. before(o) \in sets
    OBVIOUS
  <2> QED BY <2>1, <2>3, <2>5
<1> HIDE DEF sets
<1>5. PICK x \in sets : \A y \in sets : <<y, x>> \notin StrictSubsetOrdering(rows)
  BY <1>3, <1>4, WFMin
<1>6. \E o \in rows : \A q \in rows : rowId[o] <= rowId[q]
  <2>1. PICK o \in rows : x = before(o)
    BY DEF sets
  <2>2. ASSUME NEW q \in rows, rowId[q] < rowId[o] PROVE FALSE
    <3>1. before(q) \in SUBSET rows /\ before(o) \in SUBSET rows
      OBVIOUS
    <3>2. before(q) \subseteq before(o) /\ q \in before(o) /\ q \notin before(q)
      BY <1>1, <2>2
    <3>3. before(q) \subseteq before(o) /\ before(q) # before(o)
      BY <3>2
    <3>4. <<before(q), before(o)>> \in StrictSubsetOrdering(rows)
      BY <3>1, <3>3 DEF StrictSubsetOrdering
    <3> QED BY <1>5, <2>1, <3>4 DEF sets
  <2> QED BY <1>1, <2>2
<1>7. FirstRow(rows) \in rows /\ \A q \in rows : rowId[FirstRow(rows)] <= rowId[q]
  BY <1>6 DEF FirstRow
<1> QED BY <1>7 DEF First

(* The record a relay stands before: it is stored, and no other is first.  *)
LEMMA NextRecord ==
  ASSUME Inv, NEW r \in Replica, batch[r] # {}
  PROVE  /\ FirstRow(batch[r]) \in Order /\ First(FirstRow(batch[r]), batch[r])
         /\ Stored(FirstRow(batch[r]))
         /\ \A q \in Order : First(q, batch[r]) => q = FirstRow(batch[r])
<1>1. TypeOK /\ batch[r] \in SUBSET Order
  BY DEF Inv, TypeOK, RelayTypeOK
<1>2. FirstRow(batch[r]) \in Order /\ First(FirstRow(batch[r]), batch[r])
  BY <1>1, FirstExists
<1>3. \A q \in batch[r] : Stored(q) /\ rowId[q] # 0 /\ rowId[q] \in Nat
  BY <1>1 DEF Inv, RelayHolds, PlaceTellsRow, Stored, TypeOK, RelayTypeOK
<1>4. \A q \in Order : First(q, batch[r]) => q = FirstRow(batch[r])
  BY <1>2, <1>3 DEF First, Inv, IdsDiffer
<1> QED BY <1>2, <1>3, <1>4 DEF First

(* What makes a record a relay is about to mark the first of its batch.    *)
LEMMA MarkedRecord ==
  ASSUME Inv, NEW r \in Replica, marking[r]
  PROVE  batch[r] # {} /\ Published(FirstRow(batch[r]))
<1>1. PICK o \in Order : First(o, batch[r]) /\ Published(o)
  BY DEF Inv, RelayHolds
<1>2. batch[r] # {}
  BY <1>1 DEF First
<1> QED BY <1>1, <1>2, NextRecord

-----------------------------------------------------------------------------
(* The invariant is inductive: the initial states.                         *)

LEMMA InitInv == Init => Inv
<1> SUFFICES ASSUME Init PROVE Inv
  OBVIOUS
<1> USE DEF Init, RelayInit
<1>1. topic \in Seq(Order) /\ Len(topic) = 0 /\ \A o \in Order : ~Published(o)
  BY EmptySeq DEF Published
<1>2. Cardinality(Order) \in Nat
  BY OutboxAssumption, FS_CardinalityType
<1>3. TypeOK
  <2>1. oversized \subseteq Order
    BY OutboxAssumption
  <2>2. left \in 0..MaxFaults
    BY OutboxAssumption
  <2>3. rowId \in [Order -> 0..lastId] /\ lastId \in 0..Cardinality(Order)
    BY <1>2
  <2> QED BY <1>1, <2>1, <2>2, <2>3 DEF TypeOK, RelayTypeOK, OrderStatus, PC, RowState
<1>4. IdsDiffer
  BY FS_EmptySet DEF IdsDiffer, Numbered
<1>5. NotifiedIsPublished /\ \A r \in Replica : RelayHolds(r)
  BY DEF NotifiedIsPublished, RelayHolds
<1>6. \A o \in Order : PlaceTellsRow(o) /\ TopicTellsRow(o)
  BY <1>1 DEF PlaceTellsRow, TopicTellsRow, Stored, SettledStatus
<1> QED BY <1>3, <1>4, <1>5, <1>6 DEF Inv

-----------------------------------------------------------------------------
(* The steps, by what they leave alone.                                    *)

(* The number of faults that may still strike only goes down.              *)
LEMMA FaultsType ==
  ASSUME TypeOK, NEW kind, AllWell \/ Strikes(kind)
  PROVE  faults' \in FaultSets /\ left' \in 0..MaxFaults
  BY OutboxAssumption DEF TypeOK, RelayTypeOK, AllWell, Strikes

(* Nothing changes for the request of q.                                   *)
RequestStays(q) ==
  /\ pc'[q] = pc[q] /\ order'[q] = order[q]
  /\ row'[q] = row[q] /\ rowId'[q] = rowId[q]

(* A request moves on.  It leaves a stored record alone.                   *)
LEMMA RequestMoves ==
  ASSUME Inv, NEW o \in Order, UNCHANGED <<relayVars, consumerVars>>,
         \A q \in Order \ {o} : RequestStays(q),
         row'[o] = row[o] \/ (~Stored(o) /\ row'[o] # "sent"),
         rowId'[o] = rowId[o] \/ row[o] = "none",
         TypeOK', IdsDiffer', PlaceTellsRow(o)'
  PROVE  Inv'
<1> USE DEF relayVars, consumerVars, RequestStays
<1>1. \A q \in Order :
        /\ Published(q)' <=> Published(q)
        /\ Stored(q) => Stored(q)' /\ rowId'[q] = rowId[q]
        /\ row'[q] = "sent" => row[q] = "sent"
  BY DEF Published, Stored
<1>2. NotifiedIsPublished'
  BY <1>1 DEF Inv, NotifiedIsPublished, TypeOK
<1>3. \A q \in Order : PlaceTellsRow(q)' /\ TopicTellsRow(q)'
  BY <1>1 DEF Inv, PlaceTellsRow, TopicTellsRow, Stored
<1>4. ASSUME NEW r \in Replica PROVE RelayHolds(r)'
  <2>1. RelayHolds(r) /\ batch[r] \subseteq Order
    BY DEF Inv, TypeOK, RelayTypeOK
  <2>2. \A q \in batch[r] : rowId'[q] = rowId[q]
    BY <1>1, <2>1 DEF RelayHolds
  <2>3. \A q \in Order : First(q, batch[r])' <=> First(q, batch[r])
    BY <2>2 DEF First
  <2> QED BY <1>1, <2>1, <2>3 DEF RelayHolds
<1> QED BY <1>2, <1>3, <1>4 DEF Inv

(* A relay moves on: it publishes stored records, and marks published ones.*)
LEMMA RelayMoves ==
  ASSUME Inv, NEW r \in Replica, UNCHANGED <<order, pc, rowId, lastId, consumerVars>>,
         \A s \in Replica \ {r} : batch'[s] = batch[s] /\ marking'[s] = marking[s],
         \A q \in Order : row'[q] = row[q] \/ (Stored(q) /\ Published(q) /\ row'[q] = "sent"),
         \A q \in Order :
           (Published(q) => Published(q)') /\ (Published(q)' => Published(q) \/ Stored(q)),
         TypeOK', RelayHolds(r)'
  PROVE  Inv'
<1> USE DEF consumerVars
<1>1. \A q \in Order :
        /\ Stored(q)' <=> Stored(q)
        /\ row'[q] = "none" <=> row[q] = "none"
        /\ row'[q] = "inserting" <=> row[q] = "inserting"
  BY DEF Stored
<1>2. IdsDiffer' /\ NotifiedIsPublished'
  BY DEF Inv, IdsDiffer, Numbered, NotifiedIsPublished, TypeOK
<1>3. \A q \in Order : PlaceTellsRow(q)' /\ TopicTellsRow(q)'
  BY <1>1 DEF Inv, PlaceTellsRow, TopicTellsRow
<1>4. ASSUME NEW s \in Replica, s # r PROVE RelayHolds(s)'
  <2>1. RelayHolds(s) /\ batch[s] \subseteq Order /\ batch'[s] = batch[s] /\ marking'[s] = marking[s]
    BY <1>4 DEF Inv, TypeOK, RelayTypeOK
  <2>2. \A q \in Order : First(q, batch[s])' <=> First(q, batch[s])
    BY <2>1 DEF First
  <2> QED BY <1>1, <2>1, <2>2 DEF RelayHolds
<1> QED BY <1>2, <1>3, <1>4 DEF Inv

(* The consumer moves on.                                                  *)
LEMMA ConsumerMoves ==
  ASSUME Inv, UNCHANGED <<requestVars, relayVars>>, TypeOK', NotifiedIsPublished'
  PROVE  Inv'
  BY DEF Inv, requestVars, relayVars, IdsDiffer, Numbered, PlaceTellsRow, TopicTellsRow, Stored,
         Published, RelayHolds, First

-----------------------------------------------------------------------------
(* The steps of a request.                                                 *)

(* The steps that write neither the sequence nor the ids.                  *)
LEMMA WritesKeepInv ==
  ASSUME Inv, NEW o \in Order, UNCHANGED consumerVars,
         \/ CreateOrder(o) \/ CreateOrderFails(o) \/ InsertDone(o) \/ InsertFails(o)
         \/ InsertLost(o) \/ UpdateOrder(o)
  PROVE  Inv'
<1> USE DEF CreateOrder, CreateOrderFails, InsertDone, InsertFails, InsertLost, UpdateOrder
<1>1. TypeOK /\ PlaceTellsRow(o)
  BY DEF Inv
<1>2. UNCHANGED <<rowId, lastId, oversized, relayVars, consumerVars>>
  OBVIOUS
<1>3. /\ faults' \in FaultSets /\ left' \in 0..MaxFaults
      /\ order' \in [Order -> OrderStatus] /\ pc' \in [Order -> PC] /\ row' \in [Order -> RowState]
  <2>1. faults' \in FaultSets /\ left' \in 0..MaxFaults
    BY <1>1, FaultsType
  <2>2. order' \in [Order -> OrderStatus]
    BY <1>1 DEF TypeOK, RelayTypeOK, OrderStatus, SettledStatus
  <2>3. pc' \in [Order -> PC]
    BY <1>1 DEF TypeOK, RelayTypeOK, PC, Answered, Goto
  <2>4. row' \in [Order -> RowState]
    BY <1>1 DEF TypeOK, RelayTypeOK, RowState, SetRow
  <2> QED BY <2>1, <2>2, <2>3, <2>4
<1>4. TypeOK'
  BY <1>1, <1>2, <1>3 DEF TypeOK, RelayTypeOK, relayVars, consumerVars
<1>5. IdsDiffer'
  BY <1>2 DEF Inv, IdsDiffer, Numbered
<1>6. \A q \in Order \ {o} : RequestStays(q)
  BY <1>1, <1>2 DEF RequestStays, TypeOK, RelayTypeOK, Goto, SetRow
<1>7. row'[o] = row[o] \/ (~Stored(o) /\ row'[o] # "sent")
  BY <1>1 DEF Stored, TypeOK, RelayTypeOK, SetRow
<1>8. rowId'[o] = rowId[o]
  BY <1>2
<1>9. PlaceTellsRow(o)'
  <2> USE DEF TypeOK, RelayTypeOK, PlaceTellsRow, Stored, SettledStatus, Goto, SetRow
  <2>1. CASE CreateOrder(o) \/ CreateOrderFails(o)
    BY <1>1, <1>8, <2>1
  <2>2. CASE InsertDone(o) \/ InsertFails(o)
    BY <1>1, <1>8, <2>2
  <2>3. CASE InsertLost(o) \/ UpdateOrder(o)
    BY <1>1, <1>8, <2>3
  <2> QED BY <2>1, <2>2, <2>3
<1> QED BY <1>2, <1>4, <1>5, <1>6, <1>7, <1>8, <1>9, RequestMoves

(* The insert takes the next id of the sequence.                           *)
LEMMA InsertKeepsInv ==
  ASSUME Inv, NEW o \in Order, UNCHANGED consumerVars, Insert(o)
  PROVE  Inv'
<1> USE DEF Insert
<1>1. TypeOK /\ PlaceTellsRow(o) /\ IdsDiffer /\ row[o] = "none" /\ rowId[o] = 0
  BY DEF Inv, PlaceTellsRow
<1>2. lastId \in Nat /\ \A q \in Order : rowId[q] \in Nat /\ rowId[q] <= lastId
  <2>1. Cardinality(Order) \in Nat
    BY OutboxAssumption, FS_CardinalityType
  <2> QED BY <1>1, <2>1 DEF TypeOK, RelayTypeOK
<1>3. /\ lastId' = lastId + 1 /\ rowId'[o] = lastId + 1
      /\ \A q \in Order \ {o} : rowId'[q] = rowId[q]
  BY <1>1 DEF TypeOK, RelayTypeOK
<1>4. Numbered' = Numbered \cup {o} /\ o \notin Numbered
  BY <1>1, <1>2, <1>3 DEF Numbered
<1>5. /\ Cardinality(Numbered') = lastId + 1 /\ Cardinality(Numbered') <= Cardinality(Order)
      /\ Cardinality(Order) \in Nat
  <2>1. IsFiniteSet(Numbered)
    BY OutboxAssumption, FS_Subset DEF Numbered
  <2>2. Cardinality(Numbered') = lastId + 1
    BY <1>1, <1>4, <2>1, FS_AddElement DEF IdsDiffer
  <2>3. Numbered' \in SUBSET Order
    BY DEF Numbered
  <2> QED BY <2>2, <2>3, OutboxAssumption, FS_Subset, FS_CardinalityType
<1>6. IdsDiffer'
  BY <1>1, <1>2, <1>3, <1>5 DEF IdsDiffer
<1>7. TypeOK'
  <2>1. faults' \in FaultSets /\ left' \in 0..MaxFaults
    BY <1>1, FaultsType
  <2>2. lastId' \in 0..Cardinality(Order)
    BY <1>2, <1>3, <1>5
  <2>3. rowId' \in [Order -> 0..lastId']
    <3>1. rowId' = [q \in Order |-> rowId'[q]]
      BY <1>1 DEF TypeOK, RelayTypeOK
    <3>2. \A q \in Order : rowId'[q] \in 0..lastId'
      BY <1>2, <1>3
    <3> QED BY <3>1, <3>2
  <2>4. row' \in [Order -> RowState] /\ pc' \in [Order -> PC]
    BY <1>1 DEF TypeOK, RelayTypeOK, RowState, PC, SetRow, Goto
  <2> QED BY <1>1, <2>1, <2>2, <2>3, <2>4 DEF TypeOK, RelayTypeOK, relayVars, consumerVars
<1>8. \A q \in Order \ {o} : RequestStays(q)
  BY <1>1, <1>3 DEF RequestStays, TypeOK, RelayTypeOK, Goto, SetRow
<1>9. row'[o] = "inserting" /\ pc'[o] = "inserting" /\ order'[o] = order[o]
  BY <1>1 DEF TypeOK, RelayTypeOK, Goto, SetRow
<1>10. PlaceTellsRow(o)'
  BY <1>1, <1>2, <1>3, <1>9 DEF PlaceTellsRow, Stored
<1> QED BY <1>1, <1>6, <1>7, <1>8, <1>9, <1>10, RequestMoves DEF Stored

LEMMA RequestKeepsInv ==
  ASSUME Inv, NEW o \in Order, Request(o), UNCHANGED consumerVars
  PROVE  Inv'
  BY WritesKeepInv, InsertKeepsInv DEF Request

-----------------------------------------------------------------------------
(* The steps of a relay.                                                   *)

LEMMA FetchKeepsInv ==
  ASSUME Inv, NEW r \in Replica, Fetch(r), UNCHANGED consumerVars
  PROVE  Inv'
<1> USE DEF Fetch
<1>1. TypeOK /\ RelayHolds(r) /\ ~marking[r]
  BY MarkedRecord DEF Inv
<1>2. FirstRows(Pending) \subseteq Pending /\ Pending \subseteq Order
  BY DEF FirstRows, Pending
<1>3. batch'[r] \subseteq Pending /\ \A s \in Replica \ {r} : batch'[s] = batch[s]
  BY <1>1, <1>2 DEF TypeOK, RelayTypeOK
<1>4. TypeOK'
  <2>1. faults' \in FaultSets /\ left' \in 0..MaxFaults
    BY <1>1, FaultsType
  <2>2. batch' \in [Replica -> SUBSET Order]
    BY <1>1, <1>2 DEF TypeOK, RelayTypeOK
  <2> QED BY <1>1, <2>1, <2>2 DEF TypeOK, RelayTypeOK, requestVars, consumerVars
<1>5. RelayHolds(r)'
  BY <1>1, <1>3 DEF RelayHolds, Pending, Stored, requestVars
<1>6. \A q \in Order : Published(q)' <=> Published(q)
  BY DEF Published
<1> QED BY <1>3, <1>4, <1>5, <1>6, RelayMoves DEF requestVars

(* The relay writes its first record to the topic, or tries to.            *)
LEMMA PublishKeepsInv ==
  ASSUME Inv, NEW r \in Replica, Publish(r) \/ PublishTwice(r) \/ PublishFails(r) \/ PublishRefused(r),
         UNCHANGED consumerVars
  PROVE  Inv'
<1> USE DEF Publish, PublishTwice, PublishFails, PublishRefused, Publishing
<1>1. TypeOK /\ RelayHolds(r) /\ topic \in Seq(Order) /\ position \in 0..Len(topic)
  BY DEF Inv, TypeOK, RelayTypeOK
<1>2. batch[r] # {} /\ ~marking[r] /\ UNCHANGED <<requestVars, consumerVars>>
  OBVIOUS
<1>3. PICK o \in Order : o = FirstRow(batch[r]) /\ First(o, batch[r]) /\ Stored(o)
  BY <1>2, NextRecord
<1>4. topic' = topic \/ topic' = Append(topic, o)
  BY <1>3
<1>5. /\ topic' \in Seq(Order) /\ position \in 0..Len(topic')
      /\ \A q \in Order : (Published(q) => Published(q)') /\ (Published(q)' => Published(q) \/ q = o)
  <2>1. CASE topic' = topic
    BY <1>1, <2>1 DEF Published
  <2>2. CASE topic' = Append(topic, o)
    BY <1>1, <1>3, <2>2, Appending, LenProperties
  <2> QED BY <1>4, <2>1, <2>2
<1>6. \A s \in Replica \ {r} : batch'[s] = batch[s] /\ marking'[s] = marking[s]
  BY <1>1 DEF TypeOK, RelayTypeOK
<1>7. /\ batch'[r] = batch[r] \/ batch'[r] = {}
      /\ ~marking'[r] \/ (marking'[r] /\ batch'[r] = batch[r] /\ Published(o)')
  <2>1. CASE Publish(r)
    <3>1. topic' = Append(topic, o) /\ batch' = batch
      BY <1>3, <2>1
    <3>2. Published(o)'
      BY <1>1, <1>3, <3>1, Appending
    <3> QED BY <1>1, <3>1, <3>2 DEF TypeOK, RelayTypeOK
  <2>2. CASE PublishTwice(r) \/ PublishFails(r) \/ PublishRefused(r)
    BY <1>1, <1>2, <2>2 DEF TypeOK, RelayTypeOK
  <2> QED BY <2>1, <2>2
<1>8. RelayHolds(r)'
  <2>1. \A q \in batch'[r] : Stored(q)'
    BY <1>1, <1>2, <1>7 DEF RelayHolds, Stored, requestVars
  <2>2. marking'[r] => First(o, batch[r])' /\ Published(o)'
    BY <1>2, <1>3, <1>7 DEF First, requestVars
  <2> QED BY <1>3, <2>1, <2>2 DEF RelayHolds
<1>9. TypeOK'
  <2>1. faults' \in FaultSets /\ left' \in 0..MaxFaults
    BY <1>1, FaultsType
  <2>2. batch' \in [Replica -> SUBSET Order] /\ marking' \in [Replica -> BOOLEAN]
    BY <1>1 DEF TypeOK, RelayTypeOK
  <2> QED BY <1>1, <1>2, <1>5, <2>1, <2>2 DEF TypeOK, RelayTypeOK, requestVars, consumerVars
<1> QED BY <1>2, <1>3, <1>5, <1>6, <1>8, <1>9, RelayMoves DEF requestVars

LEMMA MarkSentKeepsInv ==
  ASSUME Inv, NEW r \in Replica, MarkSent(r), UNCHANGED consumerVars
  PROVE  Inv'
<1> USE DEF MarkSent
<1>1. TypeOK /\ RelayHolds(r)
  BY DEF Inv
<1>2. PICK o \in Order : o = FirstRow(batch[r]) /\ Stored(o) /\ Published(o)
  BY MarkedRecord, NextRecord
<1>3. /\ batch' = [batch EXCEPT ![r] = @ \ {o}]
      /\ row' = row \/ row' = [row EXCEPT ![o] = "sent"]
  BY <1>2 DEF SetRow
<1>4. /\ \A s \in Replica \ {r} : batch'[s] = batch[s] /\ marking'[s] = marking[s]
      /\ batch'[r] = batch[r] \ {o} /\ ~marking'[r]
      /\ \A q \in Order : row'[q] = row[q] \/ (q = o /\ row'[q] = "sent")
  BY <1>1, <1>3 DEF TypeOK, RelayTypeOK
<1>5. TypeOK'
  <2>1. faults' \in FaultSets /\ left' \in 0..MaxFaults
    BY <1>1, FaultsType
  <2>2. batch' \in [Replica -> SUBSET Order] /\ marking' \in [Replica -> BOOLEAN]
    BY <1>1, <1>3 DEF TypeOK, RelayTypeOK
  <2>3. row' \in [Order -> RowState]
    BY <1>1, <1>3 DEF TypeOK, RelayTypeOK, RowState
  <2> QED BY <1>1, <2>1, <2>2, <2>3 DEF TypeOK, RelayTypeOK, consumerVars
<1>6. RelayHolds(r)'
  <2>1. batch[r] \subseteq Order
    BY <1>1 DEF TypeOK, RelayTypeOK
  <2>2. \A q \in batch'[r] : Stored(q)'
    BY <1>1, <1>4, <2>1 DEF RelayHolds, Stored
  <2> QED BY <1>4, <2>2 DEF RelayHolds
<1>7. \A q \in Order : Published(q)' <=> Published(q)
  BY DEF Published
<1> QED BY <1>2, <1>4, <1>5, <1>6, <1>7, RelayMoves

LEMMA RelayKeepsInv ==
  ASSUME Inv, NEW r \in Replica, Relay(r), UNCHANGED consumerVars
  PROVE  Inv'
  BY FetchKeepsInv, PublishKeepsInv, MarkSentKeepsInv DEF Relay

LEMMA CrashKeepsInv ==
  ASSUME Inv, NEW r \in Replica, Crash(r), UNCHANGED consumerVars
  PROVE  Inv'
<1> USE DEF Crash, consumerVars
<1>1. TypeOK
  BY DEF Inv
<1>2. TypeOK'
  <2>1. faults' \in FaultSets /\ left' \in 0..MaxFaults
    BY <1>1, FaultsType
  <2>2. batch' \in [Replica -> SUBSET Order] /\ marking' \in [Replica -> BOOLEAN]
    BY <1>1 DEF TypeOK, RelayTypeOK
  <2>3. pc' \in [Order -> PC]
    BY <1>1 DEF TypeOK, RelayTypeOK, PC, Answered
  <2> QED BY <1>1, <2>1, <2>2, <2>3 DEF TypeOK, RelayTypeOK
<1>3. IdsDiffer' /\ NotifiedIsPublished'
  BY DEF Inv, IdsDiffer, Numbered, NotifiedIsPublished, Published
<1>4. \A o \in Order : PlaceTellsRow(o)' /\ TopicTellsRow(o)'
  <2>1. \A o \in Order : pc'[o] = pc[o] \/ pc'[o] = "crashed"
    BY DEF Answered
  <2> QED BY <2>1 DEF Inv, PlaceTellsRow, TopicTellsRow, Published, Stored
<1>5. ASSUME NEW s \in Replica PROVE RelayHolds(s)'
  <2>1. CASE s = r
    <3>1. batch'[s] = {} /\ ~marking'[s]
      BY <1>1, <2>1 DEF TypeOK, RelayTypeOK
    <3> QED BY <3>1 DEF RelayHolds
  <2>2. CASE s # r
    <3>1. batch'[s] = batch[s] /\ marking'[s] = marking[s] /\ UNCHANGED <<row, rowId, topic>>
      BY <1>1, <2>2 DEF TypeOK, RelayTypeOK
    <3> QED BY <3>1 DEF Inv, RelayHolds, Stored, First, Published
  <2> QED BY <2>1, <2>2
<1> QED BY <1>2, <1>3, <1>4, <1>5 DEF Inv

-----------------------------------------------------------------------------
(* The steps of the consumer.                                              *)

LEMMA ReadKeepsInv ==
  ASSUME Inv, ReadMessage \/ ReadMessageFails \/ Restart
  PROVE  Inv'
<1> USE DEF ReadMessage, ReadMessageFails, Restart
<1>1. TypeOK /\ Len(topic) \in Nat /\ UNCHANGED <<requestVars, relayVars>>
  BY LenProperties DEF Inv, TypeOK, RelayTypeOK
<1>2. \A i \in 1..Len(topic) : topic[i] \in Order /\ Published(topic[i])
  BY <1>1, LenProperties DEF TypeOK, RelayTypeOK, Published
<1>3. \A o \in handling' : o \in Order /\ Published(o)
  BY <1>1, <1>2 DEF TypeOK
<1>4. TypeOK'
  <2>1. faults' \in FaultSets /\ left' \in 0..MaxFaults
    BY <1>1, FaultsType
  <2>2. position' \in 0..Len(topic) /\ committed' \in 0..position'
    BY <1>1 DEF TypeOK
  <2> QED BY <1>1, <1>3, <2>1, <2>2 DEF TypeOK, RelayTypeOK, requestVars, relayVars
<1>5. NotifiedIsPublished'
  BY <1>1, <1>3 DEF Inv, NotifiedIsPublished, Published, relayVars
<1> QED BY <1>1, <1>4, <1>5, ConsumerMoves

LEMMA SaveKeepsInv ==
  ASSUME Inv, NEW o \in Order, SaveInbox(o) \/ SaveNotification(o) \/ SaveFails(o)
  PROVE  Inv'
<1> USE DEF SaveInbox, SaveNotification, SaveFails
<1>1. TypeOK /\ UNCHANGED <<requestVars, relayVars, committed, position>> /\ o \in handling
  BY DEF Inv
<1>2. /\ handling' \subseteq handling /\ notified' \subseteq notified \cup handling
      /\ inbox' \subseteq inbox \cup {o}
  BY <1>1
<1>3. TypeOK'
  <2>1. faults' \in FaultSets /\ left' \in 0..MaxFaults
    BY <1>1, FaultsType
  <2> QED BY <1>1, <1>2, <2>1 DEF TypeOK, RelayTypeOK, requestVars, relayVars
<1>4. NotifiedIsPublished'
  BY <1>1, <1>2 DEF Inv, NotifiedIsPublished, Published, relayVars
<1> QED BY <1>1, <1>3, <1>4, ConsumerMoves

LEMMA NextInv == Inv /\ [Next]_vars => Inv'
<1> SUFFICES ASSUME Inv, [Next]_vars PROVE Inv'
  OBVIOUS
<1>1. CASE UNCHANGED vars \/ Terminated
  <2>1. UNCHANGED <<requestVars, relayVars, consumerVars, faults, left>>
    BY <1>1 DEF vars, Terminated
  <2>2. TypeOK' /\ NotifiedIsPublished'
    BY <2>1 DEF Inv, TypeOK, RelayTypeOK, NotifiedIsPublished, Published, requestVars,
       relayVars, consumerVars
  <2> QED BY <2>1, <2>2, ConsumerMoves
<1> QED BY <1>1, RequestKeepsInv, RelayKeepsInv, CrashKeepsInv, ReadKeepsInv, SaveKeepsInv
        DEF Next, Consumer

LEMMA Invariance == Spec => []Inv
  BY InitInv, NextInv, PTL DEF Spec

-----------------------------------------------------------------------------
(* The count of the copies is inductive.                                   *)

LEMMA ReplicaSets ==
  ASSUME NEW S \in SUBSET Replica, NEW T \in SUBSET Replica, NEW r
  PROVE  /\ Cardinality(S) \in Nat /\ Cardinality(Replica) \in Nat
         /\ Cardinality(S) <= Cardinality(Replica)
         /\ S \subseteq T => Cardinality(S) <= Cardinality(T)
         /\ S \subseteq T \cup {r} => Cardinality(S) <= Cardinality(T) + 1
         /\ S \cap T = {} => Cardinality(S) + Cardinality(T) <= Cardinality(Replica)
         /\ r \in Replica /\ S = T \cup {r} /\ r \notin T => Cardinality(S) = Cardinality(T) + 1
<1>1. IsFiniteSet(Replica) /\ IsFiniteSet(S) /\ IsFiniteSet(T)
  BY OutboxAssumption, FS_Subset
<1>2. /\ Cardinality(S) \in Nat /\ Cardinality(T) \in Nat /\ Cardinality(Replica) \in Nat
      /\ Cardinality(S) <= Cardinality(Replica)
  BY <1>1, FS_CardinalityType, FS_Subset
<1>3. S \subseteq T => Cardinality(S) <= Cardinality(T)
  BY <1>1, FS_Subset
<1>4. /\ IsFiniteSet(T \cup {r}) /\ Cardinality(T \cup {r}) <= Cardinality(T) + 1
      /\ r \notin T => Cardinality(T \cup {r}) = Cardinality(T) + 1
  BY <1>1, <1>2, FS_AddElement
<1>5. S \subseteq T \cup {r} => Cardinality(S) <= Cardinality(T) + 1
  <2>1. S \subseteq T \cup {r} => Cardinality(S) <= Cardinality(T \cup {r})
    BY <1>4, FS_Subset
  <2>2. Cardinality(T \cup {r}) \in Nat
    BY <1>4, FS_CardinalityType
  <2> QED BY <1>2, <1>4, <2>1, <2>2
<1>6. S \cap T = {} => Cardinality(S) + Cardinality(T) <= Cardinality(Replica)
  <2> SUFFICES ASSUME S \cap T = {}
               PROVE  Cardinality(S) + Cardinality(T) <= Cardinality(Replica)
    OBVIOUS
  <2>1. Cardinality(S \cup T) = Cardinality(S) + Cardinality(T) - Cardinality(S \cap T)
    BY <1>1, FS_Union
  <2>2. Cardinality(S \cap T) = 0
    BY FS_EmptySet
  <2>3. S \cup T \in SUBSET Replica
    OBVIOUS
  <2>4. Cardinality(S \cup T) <= Cardinality(Replica)
    BY <1>1, <2>3, FS_Subset
  <2> QED BY <1>2, <2>1, <2>2, <2>4
<1> QED BY <1>2, <1>3, <1>4, <1>5, <1>6

LEMMA StruckType ==
  ASSUME TypeOK, NEW kind, AllWell \/ Strikes(kind)
  PROVE  /\ Struck \in Nat /\ Struck' \in Nat /\ Struck' >= Struck
         /\ Strikes(kind) => Struck' = Struck + 1
  BY OutboxAssumption DEF TypeOK, RelayTypeOK, AllWell, Strikes, Struck

(* A step that publishes nothing, or publishes once more than it should or *)
(* drops a batch because of a fault.                                       *)
LEMMA CountKept ==
  ASSUME TypeOK, NEW q \in Order, CopiesCounted(q), NEW r,
         row'[q] = "sent" <=> row[q] = "sent",
         row[q] = "sent" => Waiting(q)' \subseteq Waiting(q),
         Struck \in Nat, Struck' \in Nat, Struck' >= Struck,
         \/ Copies(q)' = Copies(q) /\ Marking(q) \subseteq Marking(q)'
         \/ /\ Struck' = Struck + 1 /\ Copies(q)' \in {Copies(q), Copies(q) + 1}
            /\ Marking(q) \subseteq Marking(q)'
         \/ /\ Struck' = Struck + 1 /\ Copies(q)' = Copies(q)
            /\ Marking(q) \subseteq Marking(q)' \cup {r}
  PROVE  CopiesCounted(q)'
<1>1. Copies(q) \in Nat
  BY CopiesType DEF TypeOK, RelayTypeOK
<1>2. /\ Marking(q) \in SUBSET Replica /\ Marking(q)' \in SUBSET Replica
      /\ Waiting(q) \in SUBSET Replica /\ Waiting(q)' \in SUBSET Replica
  BY DEF Marking, Waiting
<1>3. CASE row[q] = "sent"
  <2>1. /\ Cardinality(Waiting(q)') <= Cardinality(Waiting(q))
        /\ Cardinality(Waiting(q)) \in Nat /\ Cardinality(Waiting(q)') \in Nat
        /\ Cardinality(Replica) \in Nat
    BY <1>2, <1>3, ReplicaSets
  <2>2. Copies(q) + Cardinality(Waiting(q)) <= Cardinality(Replica) + Struck
    BY <1>3 DEF CopiesCounted
  <2>3. \/ Copies(q)' = Copies(q)
        \/ Struck' = Struck + 1 /\ Copies(q)' = Copies(q) + 1
    OBVIOUS
  <2>4. Copies(q)' + Cardinality(Waiting(q)') <= Cardinality(Replica) + Struck'
    BY <1>1, <2>1, <2>2, <2>3
  <2> QED BY <1>3, <2>4 DEF CopiesCounted
<1>4. CASE row[q] # "sent"
  <2>1. /\ Marking(q) \subseteq Marking(q)' => Cardinality(Marking(q)) <= Cardinality(Marking(q)')
        /\ Marking(q) \subseteq Marking(q)' \cup {r} =>
             Cardinality(Marking(q)) <= Cardinality(Marking(q)') + 1
        /\ Cardinality(Marking(q)) \in Nat /\ Cardinality(Marking(q)') \in Nat
    BY <1>2, ReplicaSets
  <2>2. Copies(q) <= Cardinality(Marking(q)) + Struck
    BY <1>4 DEF CopiesCounted
  <2>3. Copies(q)' <= Cardinality(Marking(q)') + Struck'
    BY <1>1, <2>1, <2>2
  <2> QED BY <1>4, <2>3 DEF CopiesCounted
<1> QED BY <1>3, <1>4

(* The steps of everything but the relays leave the batches alone.         *)
LEMMA IdleCount ==
  ASSUME CountInv, Inv', UNCHANGED relayVars,
         \A q \in Order : Stored(q) => row'[q] = row[q] /\ rowId'[q] = rowId[q],
         \A q \in Order : row'[q] = "sent" => row[q] = "sent",
         NEW kind, AllWell \/ Strikes(kind)
  PROVE  CountInv'
<1> USE DEF relayVars
<1>1. TypeOK /\ \A r \in Replica : RelayHolds(r) /\ batch[r] \subseteq Order
  BY DEF CountInv, Inv, TypeOK, RelayTypeOK
<1>2. ASSUME NEW q \in Order PROVE CopiesCounted(q)'
  <2>1. \A r \in Replica : First(q, batch[r])' <=> First(q, batch[r])
    BY <1>1 DEF RelayHolds, First
  <2>2. Marking(q)' = Marking(q)
    BY <2>1 DEF Marking
  <2>3. Waiting(q)' = Waiting(q)
    BY <2>2 DEF Waiting
  <2>4. Copies(q)' = Copies(q) /\ (row'[q] = "sent" <=> row[q] = "sent")
    BY DEF Copies, Stored
  <2>5. Struck \in Nat /\ Struck' \in Nat /\ Struck' >= Struck
    BY <1>1, StruckType
  <2> QED BY <1>1, <2>2, <2>3, <2>4, <2>5, CountKept DEF CountInv
<1> QED BY <1>2 DEF CountInv

(* A step of relay r does not concern the others.                          *)
LEMMA OthersStay ==
  ASSUME NEW q \in Order, NEW r, rowId' = rowId,
         \A s \in Replica \ {r} : batch'[s] = batch[s] /\ marking'[s] = marking[s]
  PROVE  \A s \in Replica \ {r} :
           /\ s \in Marking(q)' <=> s \in Marking(q)
           /\ s \in Waiting(q)' <=> s \in Waiting(q)
<1> SUFFICES ASSUME NEW s \in Replica \ {r}
             PROVE  /\ s \in Marking(q)' <=> s \in Marking(q)
                    /\ s \in Waiting(q)' <=> s \in Waiting(q)
  OBVIOUS
<1>1. batch'[s] = batch[s] /\ marking'[s] = marking[s]
  OBVIOUS
<1>2. First(q, batch[s])' <=> First(q, batch[s])
  BY <1>1 DEF First
<1>3. s \in Marking(q)' <=> s \in Marking(q)
  BY <1>1, <1>2 DEF Marking
<1> QED BY <1>1, <1>3 DEF Waiting

(* A batch only takes records that are pending.                            *)
LEMMA FetchCount ==
  ASSUME CountInv, Inv', NEW r \in Replica, Fetch(r), UNCHANGED consumerVars
  PROVE  CountInv'
<1> USE DEF Fetch, requestVars
<1>1. Inv /\ TypeOK /\ ~marking[r] /\ batch[r] = {}
  BY MarkedRecord DEF CountInv, Inv
<1>2. /\ batch'[r] \subseteq Pending /\ marking' = marking
      /\ \A s \in Replica \ {r} : batch'[s] = batch[s] /\ marking'[s] = marking[s]
  BY <1>1 DEF TypeOK, RelayTypeOK, FirstRows
<1>3. ASSUME NEW q \in Order PROVE CopiesCounted(q)'
  <2>1. r \notin Marking(q) /\ r \notin Marking(q)'
    BY <1>1, <1>2 DEF Marking
  <2>2. Marking(q) \subseteq Replica /\ Waiting(q)' \subseteq Replica
    BY DEF Marking, Waiting
  <2>3. Marking(q) \subseteq Marking(q)'
    BY <1>2, <2>1, <2>2, OthersStay
  <2>4. row[q] = "sent" => r \notin Waiting(q)'
    BY <1>2 DEF Waiting, Pending
  <2>5. row[q] = "sent" => Waiting(q)' \subseteq Waiting(q)
    BY <1>2, <2>2, <2>4, OthersStay
  <2>6. Copies(q)' = Copies(q) /\ row'[q] = row[q]
    BY DEF Copies
  <2>7. Struck \in Nat /\ Struck' \in Nat /\ Struck' >= Struck
    BY <1>1, StruckType
  <2> QED BY <1>1, <2>3, <2>5, <2>6, <2>7, CountKept DEF CountInv
<1> QED BY <1>3 DEF CountInv

(* A copy that no fault is the reason of is one that will be marked.       *)
LEMMA PublishCount ==
  ASSUME CountInv, Inv', NEW r \in Replica, Publish(r), UNCHANGED consumerVars
  PROVE  CountInv'
<1> USE DEF Publish, Publishing, requestVars
<1>1. Inv /\ TypeOK /\ ~marking[r] /\ batch[r] # {}
  BY DEF CountInv, Inv
<1>2. PICK o \in Order : /\ o = FirstRow(batch[r]) /\ First(o, batch[r])
                         /\ \A q \in Order : First(q, batch[r]) => q = o
  BY <1>1, NextRecord
<1>3. /\ topic \in Seq(Order) /\ topic' = Append(topic, o) /\ UNCHANGED <<batch, row, rowId>>
      /\ marking'[r]
      /\ \A s \in Replica \ {r} : batch'[s] = batch[s] /\ marking'[s] = marking[s]
  BY <1>1, <1>2 DEF TypeOK, RelayTypeOK
<1>4. Struck \in Nat /\ Struck' = Struck
  BY <1>1, StruckType DEF AllWell, Struck
<1>5. ASSUME NEW q \in Order, q # o PROVE CopiesCounted(q)'
  <2>1. r \notin Marking(q) /\ ~First(q, batch[r])'
    BY <1>2, <1>3, <1>5 DEF Marking, First
  <2>2. Marking(q) \subseteq Replica /\ Waiting(q)' \subseteq Replica
    BY DEF Marking, Waiting
  <2>3. Marking(q) \subseteq Marking(q)'
    BY <1>3, <2>1, <2>2, OthersStay
  <2>4. r \in Waiting(q)' => r \in Waiting(q)
    BY <1>3, <2>1 DEF Waiting
  <2>5. Waiting(q)' \subseteq Waiting(q)
    BY <1>3, <2>2, <2>4, OthersStay
  <2>6. Copies(q)' = Copies(q)
    BY <1>3, <1>5, CopiesAppended
  <2> QED BY <1>1, <1>3, <1>4, <2>3, <2>5, <2>6, CountKept DEF CountInv
<1>6. CopiesCounted(o)'
  <2>1. Copies(o)' = Copies(o) + 1 /\ Copies(o) \in Nat
    BY <1>3, CopiesAppended, CopiesType
  <2>2. r \notin Marking(o) /\ r \in Marking(o)' /\ r \in Waiting(o) /\ r \notin Waiting(o)'
    BY <1>1, <1>2, <1>3 DEF Marking, Waiting, First
  <2>3. /\ Marking(o) \in SUBSET Replica /\ Marking(o)' \in SUBSET Replica
        /\ Waiting(o) \in SUBSET Replica /\ Waiting(o)' \in SUBSET Replica
    BY DEF Marking, Waiting
  <2>4. Marking(o)' = Marking(o) \cup {r} /\ Waiting(o) = Waiting(o)' \cup {r}
    BY <1>3, <2>2, <2>3, OthersStay
  <2>5. /\ Cardinality(Marking(o)') = Cardinality(Marking(o)) + 1
        /\ Cardinality(Waiting(o)) = Cardinality(Waiting(o)') + 1
        /\ Cardinality(Marking(o)) \in Nat /\ Cardinality(Waiting(o)') \in Nat
        /\ Cardinality(Replica) \in Nat
    BY <2>2, <2>3, <2>4, ReplicaSets
  <2>6. CopiesCounted(o) /\ row'[o] = row[o]
    BY <1>3 DEF CountInv
  <2> HIDE DEF Publish, Publishing
  <2>7. CASE row[o] = "sent"
    <3>1. Copies(o) + Cardinality(Waiting(o)) <= Cardinality(Replica) + Struck
      BY <2>6, <2>7 DEF CopiesCounted
    <3>2. Copies(o)' + Cardinality(Waiting(o)') <= Cardinality(Replica) + Struck'
      BY <1>4, <2>1, <2>5, <3>1
    <3> QED BY <2>6, <2>7, <3>2 DEF CopiesCounted
  <2>8. CASE row[o] # "sent"
    <3>1. Copies(o) <= Cardinality(Marking(o)) + Struck
      BY <2>6, <2>8 DEF CopiesCounted
    <3>2. Copies(o)' <= Cardinality(Marking(o)') + Struck'
      BY <1>4, <2>1, <2>5, <3>1
    <3> QED BY <2>6, <2>8, <3>2 DEF CopiesCounted
  <2> QED BY <2>7, <2>8
<1> QED BY <1>5, <1>6 DEF CountInv

(* A publication that goes wrong is one more fault, and at most one copy.  *)
LEMMA PublishFaultCount ==
  ASSUME CountInv, Inv', NEW r \in Replica,
         PublishTwice(r) \/ PublishFails(r) \/ PublishRefused(r), UNCHANGED consumerVars
  PROVE  CountInv'
<1> USE DEF PublishTwice, PublishFails, PublishRefused, Publishing, requestVars
<1>1. Inv /\ TypeOK /\ ~marking[r] /\ batch[r] # {}
  BY DEF CountInv, Inv
<1>2. PICK o \in Order : o = FirstRow(batch[r])
  BY <1>1, NextRecord
<1>3. /\ topic \in Seq(Order) /\ UNCHANGED <<marking, row, rowId>>
      /\ batch'[r] \subseteq batch[r]
      /\ \A s \in Replica \ {r} : batch'[s] = batch[s] /\ marking'[s] = marking[s]
  BY <1>1 DEF TypeOK, RelayTypeOK
<1>4. \/ topic' = topic /\ AllWell
      \/ (topic' = topic \/ topic' = Append(topic, o)) /\ Strikes("kafka")
  BY <1>2
<1> HIDE DEF PublishTwice, PublishFails, PublishRefused, Publishing
<1>5. ASSUME NEW q \in Order PROVE CopiesCounted(q)'
  <2>1. r \notin Marking(q) /\ r \notin Marking(q)'
    BY <1>1, <1>3 DEF Marking
  <2>2. Marking(q) \subseteq Replica /\ Waiting(q)' \subseteq Replica
    BY DEF Marking, Waiting
  <2>3. Marking(q) \subseteq Marking(q)'
    BY <1>3, <2>1, <2>2, OthersStay
  <2>4. r \in Waiting(q)' => r \in Waiting(q)
    BY <1>3, <2>1 DEF Waiting
  <2>5. Waiting(q)' \subseteq Waiting(q)
    BY <1>3, <2>2, <2>4, OthersStay
  <2>6. Struck \in Nat /\ Struck' \in Nat /\ Struck' >= Struck
    BY <1>1, <1>4, StruckType
  <2>7. topic' = topic => Copies(q)' = Copies(q)
    BY DEF Copies
  <2>8. topic' = Append(topic, o) => Copies(q)' \in {Copies(q), Copies(q) + 1}
    BY <1>3, CopiesAppended
  <2>9. \/ Copies(q)' = Copies(q)
        \/ Struck' = Struck + 1 /\ Copies(q)' \in {Copies(q), Copies(q) + 1}
    BY <1>1, <1>4, <2>7, <2>8, StruckType
  <2> QED BY <1>1, <1>3, <2>3, <2>5, <2>6, <2>9, CountKept DEF CountInv
<1> QED BY <1>5 DEF CountInv

(* Once a record is marked nobody fetches it again: those that may still   *)
(* publish it have it in their batch.                                      *)
LEMMA MarkSentCount ==
  ASSUME CountInv, Inv', NEW r \in Replica, MarkSent(r), UNCHANGED consumerVars
  PROVE  CountInv'
<1> USE DEF MarkSent
<1>1. Inv /\ TypeOK /\ marking[r] /\ batch[r] # {}
  BY MarkedRecord DEF CountInv, Inv
<1>2. PICK o \in Order : /\ o = FirstRow(batch[r]) /\ First(o, batch[r])
                         /\ \A q \in Order : First(q, batch[r]) => q = o
  BY <1>1, NextRecord
<1>3. /\ UNCHANGED <<topic, rowId>>
      /\ \/ row' = [row EXCEPT ![o] = "sent"] /\ AllWell
         \/ row' = row /\ Strikes("db")
      /\ batch'[r] = batch[r] \ {o} /\ ~marking'[r]
      /\ \A s \in Replica \ {r} : batch'[s] = batch[s] /\ marking'[s] = marking[s]
  BY <1>1, <1>2 DEF SetRow, TypeOK, RelayTypeOK
<1> HIDE DEF MarkSent
<1>4. Struck \in Nat /\ Struck' \in Nat /\ Struck' >= Struck
  BY <1>1, <1>3, StruckType
<1>5. \A q \in Order : Copies(q)' = Copies(q) /\ (q # o => row'[q] = row[q])
  BY <1>1, <1>3 DEF Copies, TypeOK, RelayTypeOK
<1>6. \A q \in Order : /\ Marking(q) \in SUBSET Replica /\ Marking(q)' \in SUBSET Replica
                       /\ Waiting(q) \in SUBSET Replica /\ Waiting(q)' \in SUBSET Replica
  BY DEF Marking, Waiting
<1>7. ASSUME NEW q \in Order, q # o PROVE CopiesCounted(q)'
  <2>1. r \notin Marking(q) /\ r \notin Marking(q)' /\ (r \in Waiting(q)' => r \in Waiting(q))
    BY <1>2, <1>3, <1>7 DEF Marking, Waiting
  <2>2. Marking(q) \subseteq Marking(q)' /\ Waiting(q)' \subseteq Waiting(q)
    BY <1>3, <1>6, <2>1, OthersStay
  <2> QED BY <1>1, <1>4, <1>5, <1>7, <2>2, CountKept DEF CountInv
<1>8. CopiesCounted(o)'
  <2>1. r \notin Waiting(o) /\ r \notin Waiting(o)'
    BY <1>1, <1>2, <1>3 DEF Marking, Waiting
  <2>2. Marking(o) \subseteq Marking(o)' \cup {r} /\ Waiting(o)' = Waiting(o)
    BY <1>3, <1>6, <2>1, OthersStay
  <2>3. CopiesCounted(o)
    BY DEF CountInv
  <2>4. CASE row' = row
    <3>1. row[o] = "sent" \/ Strikes("db")
      BY <1>1, <1>3, <2>4 DEF TypeOK, RelayTypeOK
    <3>2. CASE Strikes("db")
      <4>1. Struck' = Struck + 1
        BY <1>1, <3>2, StruckType
      <4> QED BY <1>1, <1>4, <1>5, <2>2, <2>3, <2>4, <4>1, CountKept
    <3>3. CASE row[o] = "sent"
      <4>1. /\ Cardinality(Waiting(o)) \in Nat /\ Cardinality(Replica) \in Nat
            /\ Copies(o) \in Nat
        BY <1>1, <1>6, ReplicaSets, CopiesType DEF TypeOK, RelayTypeOK
      <4>2. Copies(o) + Cardinality(Waiting(o)) <= Cardinality(Replica) + Struck
        BY <2>3, <3>3 DEF CopiesCounted
      <4>3. Copies(o)' + Cardinality(Waiting(o)') <= Cardinality(Replica) + Struck'
        BY <1>4, <1>5, <2>2, <4>1, <4>2
      <4> QED BY <2>4, <3>3, <4>3 DEF CopiesCounted
    <3> QED BY <3>1, <3>2, <3>3
  <2>5. CASE row' = [row EXCEPT ![o] = "sent"]
    <3>1. row'[o] = "sent"
      BY <1>1, <2>5 DEF TypeOK, RelayTypeOK
    <3>2. /\ Cardinality(Waiting(o)) \in Nat /\ Cardinality(Marking(o)) \in Nat
          /\ Cardinality(Replica) \in Nat /\ Copies(o) \in Nat
      BY <1>1, <1>6, ReplicaSets, CopiesType DEF TypeOK, RelayTypeOK
    <3>3. Cardinality(Marking(o)) + Cardinality(Waiting(o)) <= Cardinality(Replica)
      <4>1. Marking(o) \cap Waiting(o) = {}
        BY DEF Waiting
      <4> QED BY <1>6, <4>1, ReplicaSets
    <3>4. Copies(o) + Cardinality(Waiting(o)) <= Cardinality(Replica) + Struck
      BY <1>4, <2>3, <3>2, <3>3 DEF CopiesCounted
    <3>5. Copies(o)' + Cardinality(Waiting(o)') <= Cardinality(Replica) + Struck'
      BY <1>4, <1>5, <2>2, <3>2, <3>4
    <3> QED BY <3>1, <3>5 DEF CopiesCounted
  <2> QED BY <1>3, <2>4, <2>5
<1> QED BY <1>7, <1>8 DEF CountInv

(* A crash is a fault, and drops one record that was published.            *)
LEMMA CrashCount ==
  ASSUME CountInv, Inv', NEW r \in Replica, Crash(r), UNCHANGED consumerVars
  PROVE  CountInv'
<1> USE DEF Crash
<1>1. TypeOK
  BY DEF CountInv, Inv
<1>2. /\ UNCHANGED <<topic, row, rowId>> /\ batch'[r] = {}
      /\ \A s \in Replica \ {r} : batch'[s] = batch[s] /\ marking'[s] = marking[s]
  BY <1>1 DEF TypeOK, RelayTypeOK
<1>3. Struck \in Nat /\ Struck' \in Nat /\ Struck' >= Struck /\ Struck' = Struck + 1
  BY <1>1, StruckType
<1>4. ASSUME NEW q \in Order PROVE CopiesCounted(q)'
  <2>1. r \notin Waiting(q)'
    BY <1>2 DEF Waiting
  <2>2. Marking(q) \subseteq Replica /\ Waiting(q)' \subseteq Replica
    BY DEF Marking, Waiting
  <2>3. Marking(q) \subseteq Marking(q)' \cup {r} /\ Waiting(q)' \subseteq Waiting(q)
    BY <1>2, <2>1, <2>2, OthersStay
  <2>4. Copies(q)' = Copies(q) /\ row'[q] = row[q]
    BY <1>2 DEF Copies
  <2> QED BY <1>1, <1>3, <2>3, <2>4, CountKept DEF CountInv
<1> QED BY <1>4 DEF CountInv

LEMMA NextCount == CountInv /\ Inv' /\ [Next]_vars => CountInv'
<1> SUFFICES ASSUME CountInv, Inv', [Next]_vars PROVE CountInv'
  OBVIOUS
<1>1. ASSUME NEW o \in Order, Request(o), UNCHANGED consumerVars PROVE CountInv'
  <2> USE DEF Request, CreateOrder, CreateOrderFails, Insert, InsertDone, InsertFails, InsertLost,
              UpdateOrder
  <2>1. TypeOK /\ PlaceTellsRow(o)
    BY DEF CountInv, Inv
  <2>2. UNCHANGED relayVars /\ (AllWell \/ Strikes("db"))
    BY <1>1
  <2>3. \A q \in Order : Stored(q) => row'[q] = row[q] /\ rowId'[q] = rowId[q]
    BY <1>1, <2>1 DEF PlaceTellsRow, Stored, SetRow, TypeOK, RelayTypeOK
  <2>4. \A q \in Order : row'[q] = "sent" => row[q] = "sent"
    BY <1>1, <2>1 DEF SetRow, TypeOK, RelayTypeOK
  <2> QED BY <2>2, <2>3, <2>4, IdleCount
<1>2. ASSUME NEW r \in Replica, Relay(r) \/ Crash(r), UNCHANGED consumerVars PROVE CountInv'
  BY <1>2, FetchCount, PublishCount, PublishFaultCount, MarkSentCount, CrashCount DEF Relay
<1>3. CASE Consumer \/ Restart \/ Terminated \/ UNCHANGED vars
  <2>1. UNCHANGED <<requestVars, relayVars>> /\ (AllWell \/ Strikes("consumer"))
    BY <1>3 DEF Consumer, ReadMessage, ReadMessageFails, SaveInbox, SaveNotification, SaveFails,
       Restart, Terminated, vars, AllWell
  <2> QED BY <2>1, IdleCount DEF requestVars
<1> QED BY <1>1, <1>2, <1>3 DEF Next

LEMMA InitCount == Init => CountInv
<1> SUFFICES ASSUME Init PROVE CountInv
  OBVIOUS
<1> USE DEF Init, RelayInit
<1>1. Inv /\ Struck = 0
  BY InitInv, OutboxAssumption DEF Struck
<1>2. ASSUME NEW o \in Order PROVE CopiesCounted(o)
  <2>1. Copies(o) = 0
    <3>1. {i \in DOMAIN topic : topic[i] = o} = {}
      BY EmptySeq
    <3> QED BY <3>1, FS_EmptySet DEF Copies
  <2>2. Marking(o) \in SUBSET Replica /\ row[o] # "sent"
    BY DEF Marking
  <2>3. Cardinality(Marking(o)) \in Nat
    BY <2>2, ReplicaSets
  <2> QED BY <1>1, <2>1, <2>2, <2>3 DEF CopiesCounted
<1> QED BY <1>1, <1>2 DEF CountInv

LEMMA CountInvariance == Spec => []CountInv
<1>1. CountInv => Inv
  BY DEF CountInv
<1>2. CountInv /\ [Next]_vars => CountInv'
  BY <1>1, NextInv, NextCount
<1> QED BY <1>2, InitCount, PTL DEF Spec

-----------------------------------------------------------------------------
(* The count of the unsettled orders is inductive.                         *)

(* A step leaves no order unsettled, or one by a fault.                    *)
LEMMA UnsettledKept ==
  ASSUME UnsettledInv, Inv', NEW kind, AllWell \/ Strikes(kind), NEW o \in Order,
         Unsettled' \subseteq Unsettled \/ (Strikes(kind) /\ Unsettled' \subseteq Unsettled \cup {o})
  PROVE  UnsettledInv'
<1>1. IsFiniteSet(Unsettled) /\ IsFiniteSet(Unsettled \cup {o}) /\ IsFiniteSet(Unsettled')
  <2>1. Unsettled \in SUBSET Order /\ Unsettled \cup {o} \in SUBSET Order /\ Unsettled' \in SUBSET Order
    BY DEF Unsettled
  <2> QED BY <2>1, OutboxAssumption, FS_Subset
<1>2. /\ Cardinality(Unsettled) \in Nat /\ Cardinality(Unsettled') \in Nat
      /\ Cardinality(Unsettled \cup {o}) \in Nat
      /\ Cardinality(Unsettled \cup {o}) <= Cardinality(Unsettled) + 1
  BY <1>1, FS_CardinalityType, FS_AddElement
<1>3. /\ Struck \in Nat /\ Struck' \in Nat /\ Struck' >= Struck
      /\ Strikes(kind) => Struck' = Struck + 1
  BY StruckType DEF UnsettledInv, Inv
<1>4. CASE Unsettled' \subseteq Unsettled
  <2>1. Cardinality(Unsettled') <= Cardinality(Unsettled)
    BY <1>1, <1>4, FS_Subset
  <2> QED BY <1>2, <1>3, <2>1 DEF UnsettledInv
<1>5. CASE Strikes(kind) /\ Unsettled' \subseteq Unsettled \cup {o}
  <2>1. Cardinality(Unsettled') <= Cardinality(Unsettled \cup {o})
    BY <1>1, <1>5, FS_Subset
  <2> QED BY <1>2, <1>3, <1>5, <2>1 DEF UnsettledInv
<1> QED BY <1>4, <1>5

(* A step that leaves what requests and orders say alone.                  *)
LEMMA UnsettledStays ==
  ASSUME UnsettledInv, Inv', NEW kind, AllWell \/ Strikes(kind), order' = order,
         \A o \in Order : pc'[o] \in {"answered", "error"} => pc'[o] = pc[o]
  PROVE  UnsettledInv'
<1>1. Unsettled' \subseteq Unsettled
  BY DEF Unsettled, SettledStatus
<1>2. CASE Order # {}
  BY <1>1, <1>2, UnsettledKept
<1>3. CASE Order = {}
  <2>1. Unsettled' = {}
    BY <1>3 DEF Unsettled
  <2>2. Struck' \in Nat
    BY StruckType DEF UnsettledInv, Inv
  <2> QED BY <2>1, <2>2, FS_EmptySet DEF UnsettledInv
<1> QED BY <1>2, <1>3

LEMMA NextUnsettled == UnsettledInv /\ Inv' /\ [Next]_vars => UnsettledInv'
<1> SUFFICES ASSUME UnsettledInv, Inv', [Next]_vars PROVE UnsettledInv'
  OBVIOUS
<1>1. TypeOK
  BY DEF UnsettledInv, Inv
<1>2. ASSUME NEW o \in Order, Request(o) PROVE UnsettledInv'
  <2> USE DEF Goto, Unsettled, SettledStatus, TypeOK, RelayTypeOK
  <2>1. CASE CreateOrder(o) \/ Insert(o)
    <3>1. AllWell /\ Unsettled' \subseteq Unsettled
      BY <1>1, <2>1 DEF CreateOrder, Insert
    <3> QED BY <3>1, UnsettledKept
  <2>2. CASE CreateOrderFails(o) \/ InsertFails(o)
    <3>1. Strikes("db") /\ Unsettled' \subseteq Unsettled \cup {o}
      BY <1>1, <2>2 DEF CreateOrderFails, InsertFails
    <3> QED BY <3>1, UnsettledKept
  <2>3. CASE InsertDone(o) \/ InsertLost(o)
    <3>1. AllWell /\ Unsettled' \subseteq Unsettled
      BY <1>1, <2>3 DEF InsertDone, InsertLost
    <3> QED BY <3>1, UnsettledKept
  <2>4. CASE UpdateOrder(o)
    <3>1. \/ AllWell /\ Unsettled' \subseteq Unsettled
          \/ Strikes("db") /\ Unsettled' \subseteq Unsettled \cup {o}
      BY <1>1, <2>4 DEF UpdateOrder
    <3> QED BY <3>1, UnsettledKept
  <2> QED BY <1>2, <2>1, <2>2, <2>3, <2>4 DEF Request
<1>3. ASSUME NEW r \in Replica, Relay(r) PROVE UnsettledInv'
  <2>1. UNCHANGED <<order, pc>> /\ \E kind : AllWell \/ Strikes(kind)
    BY <1>3 DEF Relay, Fetch, Publish, PublishTwice, PublishFails, PublishRefused, MarkSent, requestVars
  <2> QED BY <2>1, UnsettledStays
<1>4. ASSUME NEW r \in Replica, Crash(r) PROVE UnsettledInv'
  <2>1. /\ order' = order /\ Strikes("crash")
        /\ \A o \in Order : pc'[o] \in {"answered", "error"} => pc'[o] = pc[o]
    BY <1>1, <1>4 DEF Crash, TypeOK, RelayTypeOK
  <2> QED BY <2>1, UnsettledStays
<1>5. CASE Consumer \/ Restart \/ Terminated \/ UNCHANGED vars
  <2>1. UNCHANGED <<requestVars, relayVars>> /\ (AllWell \/ Strikes("consumer"))
    BY <1>5 DEF Consumer, ReadMessage, ReadMessageFails, SaveInbox, SaveNotification, SaveFails,
       Restart, Terminated, vars, AllWell
  <2>2. UNCHANGED <<order, pc>>
    BY <2>1 DEF requestVars
  <2> QED BY <2>1, <2>2, UnsettledStays
<1> QED BY <1>2, <1>3, <1>4, <1>5 DEF Next

LEMMA InitUnsettled == Init => UnsettledInv
<1> SUFFICES ASSUME Init PROVE UnsettledInv
  OBVIOUS
<1>1. Inv /\ Struck = 0
  BY InitInv, OutboxAssumption DEF Struck, Init, RelayInit
<1>2. Unsettled = {}
  BY DEF Unsettled, Init, RelayInit
<1> QED BY <1>1, <1>2, FS_EmptySet DEF UnsettledInv

LEMMA UnsettledInvariance == Spec => []UnsettledInv
<1>1. UnsettledInv => Inv
  BY DEF UnsettledInv
<1>2. UnsettledInv /\ [Next]_vars => UnsettledInv'
  BY <1>1, NextInv, NextUnsettled
<1> QED BY <1>2, InitUnsettled, PTL DEF Spec

-----------------------------------------------------------------------------
(* The pipeline implements the abstract delivery.                          *)

(* The stages of the refinement mapping of Delivery.                       *)
StageBar ==
  [o \in Order |-> CASE o \in notified                  -> "notified"
                     [] o \notin notified /\ Published(o) -> "published"
                     [] ~Published(o) /\ row[o] = "pending" -> "stored"
                     [] OTHER                              -> "absent"]

LEMMA StageAt ==
  ASSUME NotifiedIsPublished, NEW o \in Order
  PROVE  /\ o \in notified => StageBar[o] = "notified"
         /\ o \notin notified /\ Published(o) => StageBar[o] = "published"
         /\ ~Published(o) /\ row[o] = "pending" => StageBar[o] = "stored"
         /\ ~Published(o) /\ row[o] # "pending" => StageBar[o] = "absent"
  BY DEF StageBar, NotifiedIsPublished

(* What the stage of an event depends on.                                  *)
StageStays(q) ==
  /\ q \in notified' <=> q \in notified
  /\ Published(q)' <=> Published(q)
  /\ ~Published(q) => (row'[q] = "pending" <=> row[q] = "pending")

LEMMA StageKept ==
  ASSUME Inv, Inv', NEW q \in Order, StageStays(q)
  PROVE  StageBar'[q] = StageBar[q]
<1>1. NotifiedIsPublished /\ NotifiedIsPublished'
  BY DEF Inv
<1> QED BY <1>1 DEF StageBar, StageStays, NotifiedIsPublished

LEMMA NoStageMoves ==
  ASSUME Inv, Inv', \A q \in Order : StageStays(q)
  PROVE  StageBar' = StageBar
<1>1. \A q \in Order : StageBar'[q] = StageBar[q]
  BY StageKept
<1>2. StageBar = [q \in Order |-> StageBar[q]] /\ StageBar' = [q \in Order |-> StageBar'[q]]
  BY DEF StageBar
<1> HIDE DEF StageBar
<1> QED BY <1>1, <1>2

LEMMA OneStageMoves ==
  ASSUME Inv, Inv', NEW o \in Order, \A q \in Order \ {o} : StageStays(q),
         NEW to, StageBar'[o] = to
  PROVE  StageBar' = [StageBar EXCEPT ![o] = to]
<1>1. \A q \in Order \ {o} : StageBar'[q] = StageBar[q]
  BY StageKept
<1>2. StageBar = [q \in Order |-> StageBar[q]] /\ StageBar' = [q \in Order |-> StageBar'[q]]
  BY DEF StageBar
<1> HIDE DEF StageBar
<1> QED BY <1>1, <1>2

(* An insert that is executed stores the event.                            *)
LEMMA RequestMaps ==
  ASSUME Inv, Inv', NEW o \in Order, Request(o), UNCHANGED consumerVars
  PROVE  Delivery!Next \/ StageBar' = StageBar
<1>1. TypeOK /\ PlaceTellsRow(o) /\ TopicTellsRow(o) /\ NotifiedIsPublished /\ NotifiedIsPublished'
  BY DEF Inv
<1>2. \A q \in Order :
        /\ q \in notified' <=> q \in notified
        /\ Published(q)' <=> Published(q)
        /\ q # o => row'[q] = row[q]
  BY <1>1 DEF Request, CreateOrder, CreateOrderFails, Insert, InsertDone, InsertFails, InsertLost,
     UpdateOrder, consumerVars, relayVars, Published, SetRow, TypeOK, RelayTypeOK
<1>3. CASE InsertDone(o)
  <2>1. row[o] = "inserting" /\ row'[o] = "pending"
    BY <1>1, <1>3 DEF InsertDone, SetRow, TypeOK, RelayTypeOK
  <2>2. ~Published(o) /\ ~Published(o)'
    BY <1>1, <1>2, <2>1 DEF TopicTellsRow, Stored
  <2>3. StageBar[o] = "absent"
    BY <1>1, <2>1, <2>2, StageAt
  <2>4. StageBar'[o] = "stored"
    BY <1>1, <2>1, <2>2 DEF StageBar, NotifiedIsPublished
  <2>5. StageBar' = [StageBar EXCEPT ![o] = "stored"]
    BY <1>2, <2>4, OneStageMoves DEF StageStays
  <2> QED BY <2>3, <2>5 DEF Delivery!Next, Delivery!Advance, StageBar
<1>4. CASE ~InsertDone(o)
  <2>1. row'[o] = row[o] \/ (row[o] # "pending" /\ row'[o] # "pending")
    BY <1>1, <1>4 DEF Request, CreateOrder, CreateOrderFails, Insert, InsertFails, InsertLost,
       UpdateOrder, PlaceTellsRow, SetRow, TypeOK, RelayTypeOK
  <2> QED BY <1>2, <2>1, NoStageMoves DEF StageStays
<1> QED BY <1>3, <1>4

(* The first copy of a record publishes it; marking it shows in no stage.  *)
LEMMA RelayMaps ==
  ASSUME Inv, Inv', NEW r \in Replica, Relay(r) \/ Crash(r), UNCHANGED consumerVars
  PROVE  Delivery!Next \/ StageBar' = StageBar
<1>1. TypeOK /\ NotifiedIsPublished /\ NotifiedIsPublished' /\ notified' = notified
  BY DEF Inv, consumerVars
<1>2. CASE topic' = topic
  <2>1. \A q \in Order : Published(q)' <=> Published(q)
    BY <1>2 DEF Published
  <2>2. CASE MarkSent(r)
    <3>1. FirstRow(batch[r]) \in Order /\ Published(FirstRow(batch[r]))
      BY <2>2, MarkedRecord, NextRecord DEF MarkSent
    <3>2. \A q \in Order : row'[q] = row[q] \/ q = FirstRow(batch[r])
      BY <1>1, <2>2, <3>1 DEF MarkSent, SetRow, TypeOK, RelayTypeOK
    <3> QED BY <1>1, <2>1, <3>1, <3>2, NoStageMoves DEF StageStays
  <2>3. CASE ~MarkSent(r)
    <3>1. row' = row
      BY <2>3 DEF Relay, Crash, Fetch, Publish, PublishTwice, PublishFails, PublishRefused, requestVars
    <3> QED BY <1>1, <2>1, <3>1, NoStageMoves DEF StageStays
  <2> QED BY <2>2, <2>3
<1>3. CASE topic' # topic
  <2> USE DEF Publish, PublishTwice, PublishFails, Publishing, requestVars
  <2>1. Publish(r) \/ PublishTwice(r) \/ PublishFails(r)
    BY <1>3 DEF Relay, Crash, Fetch, PublishRefused, MarkSent
  <2>2. PICK o \in Order : o = FirstRow(batch[r]) /\ Stored(o) /\ TopicTellsRow(o)
    BY <2>1, NextRecord DEF Inv
  <2>3. topic \in Seq(Order) /\ topic' = Append(topic, o) /\ row' = row
    BY <1>1, <1>3, <2>1, <2>2 DEF TypeOK, RelayTypeOK
  <2> HIDE DEF Publish, PublishTwice, PublishFails, Publishing
  <2>4. \A q \in Order : Published(q)' <=> Published(q) \/ q = o
    BY <2>3, Appending
  <2>5. CASE Published(o)
    BY <1>1, <2>3, <2>4, <2>5, NoStageMoves DEF StageStays
  <2>6. CASE ~Published(o)
    <3>1. row[o] = "pending" /\ o \notin notified
      BY <1>1, <2>2, <2>6 DEF Stored, TopicTellsRow, NotifiedIsPublished
    <3>2. StageBar[o] = "stored"
      BY <1>1, <2>6, <3>1, StageAt
    <3>3. StageBar'[o] = "published"
      BY <1>1, <2>4, <3>1 DEF StageBar
    <3>4. StageBar' = [StageBar EXCEPT ![o] = "published"]
      BY <1>1, <2>3, <2>4, <3>3, OneStageMoves DEF StageStays
    <3> QED BY <3>2, <3>4 DEF Delivery!Next, Delivery!Advance, StageBar
  <2> QED BY <2>5, <2>6
<1> QED BY <1>2, <1>3

(* The insert into notifications ends the way of the event.                *)
LEMMA ConsumerMaps ==
  ASSUME Inv, Inv', Consumer \/ Restart
  PROVE  Delivery!Next \/ StageBar' = StageBar
<1>1. TypeOK /\ NotifiedIsPublished /\ NotifiedIsPublished'
  BY DEF Inv
<1>2. UNCHANGED <<requestVars, relayVars>>
  BY DEF Consumer, Restart, ReadMessage, ReadMessageFails, SaveInbox, SaveNotification, SaveFails
<1>3. \A q \in Order : (Published(q)' <=> Published(q)) /\ row'[q] = row[q]
  BY <1>2 DEF Published, requestVars, relayVars
<1>4. CASE notified' = notified
  BY <1>3, <1>4, NoStageMoves DEF StageStays
<1>5. CASE notified' # notified
  <2>1. PICK o \in Order : o \in handling /\ notified' = notified \cup {o}
    BY <1>5 DEF Consumer, Restart, ReadMessage, ReadMessageFails, SaveInbox, SaveNotification, SaveFails
  <2>2. o \notin notified /\ Published(o)
    BY <1>1, <1>5, <2>1 DEF NotifiedIsPublished
  <2>3. StageBar[o] = "published"
    BY <1>1, <2>2, StageAt
  <2>4. StageBar'[o] = "notified"
    BY <1>1, <1>3, <2>1, <2>2 DEF StageBar
  <2>5. StageBar' = [StageBar EXCEPT ![o] = "notified"]
    BY <1>3, <2>1, <2>4, OneStageMoves DEF StageStays
  <2> QED BY <2>3, <2>5 DEF Delivery!Next, Delivery!Advance, StageBar
<1> QED BY <1>4, <1>5

-----------------------------------------------------------------------------
(* What it is for.                                                         *)

(* Every variable of the pipeline keeps its type; no more ids are given    *)
(* than there are orders, and the offsets stay within the topic.           *)
THEOREM TypeCorrect == Spec => []TypeOK
  BY Invariance, PTL DEF Inv

(* A record marked as sent is in Kafka, whatever goes wrong and however    *)
(* many replicas relay the same table.                                     *)
THEOREM SentIsPublishedHolds == Spec => []SentIsPublished
<1>1. Inv => SentIsPublished
  BY CopiesType DEF Inv, TypeOK, RelayTypeOK, TopicTellsRow, SentIsPublished
<1> QED BY <1>1, Invariance, PTL

(* A record is published at most once by each replica and once more for    *)
(* each fault, for any number of replicas and faults.                      *)
THEOREM PublishedAtMostHolds == Spec => []PublishedAtMost
<1>1. CountInv => PublishedAtMost
  <2> SUFFICES ASSUME CountInv, NEW o \in Order
               PROVE  Copies(o) <= Cardinality(Replica) + (MaxFaults - left)
    BY DEF PublishedAtMost
  <2>1. Copies(o) \in Nat /\ Struck \in Nat
    <3>1. topic \in Seq(Order) /\ left \in 0..MaxFaults
      BY DEF CountInv, Inv, TypeOK, RelayTypeOK
    <3>2. Copies(o) \in Nat
      BY <3>1, CopiesType
    <3>3. Struck \in Nat
      BY <3>1, OutboxAssumption DEF Struck
    <3> QED BY <3>2, <3>3
  <2>2. Marking(o) \in SUBSET Replica /\ Waiting(o) \in SUBSET Replica
    BY DEF Marking, Waiting
  <2>3. /\ Cardinality(Marking(o)) \in Nat /\ Cardinality(Waiting(o)) \in Nat
        /\ Cardinality(Replica) \in Nat /\ Cardinality(Marking(o)) <= Cardinality(Replica)
    BY <2>2, ReplicaSets
  <2>4. Copies(o) <= Cardinality(Replica) + Struck
    BY <2>1, <2>3 DEF CountInv, CopiesCounted
  <2> QED BY <2>4 DEF Struck
<1> QED BY <1>1, CountInvariance, PTL

(* An order is only settled when its event is stored, and no more answered *)
(* orders stay unsettled than faults have struck, whatever goes wrong.     *)
THEOREM SettledWithEventHolds == Spec => []SettledWithEvent
<1>1. UnsettledInv => SettledWithEvent
  BY DEF UnsettledInv, Inv, PlaceTellsRow, Stored, Struck, SettledWithEvent
<1> QED BY <1>1, UnsettledInvariance, PTL

(* The outbox, its relays and the consumer implement the abstract delivery:*)
(* events go through their stages in order, whatever goes wrong.           *)
THEOREM DeliversInOrderHolds == Spec => DeliversInOrder
<1>1. Init => Delivery!Init
  <2> SUFFICES ASSUME Init PROVE Delivery!Init
    OBVIOUS
  <2>1. Inv /\ \A o \in Order : row[o] = "none"
    BY InitInv DEF Init, RelayInit
  <2>2. \A o \in Order : ~Published(o)
    BY <2>1 DEF Inv, TopicTellsRow, Stored
  <2>3. \A o \in Order : StageBar[o] = "absent"
    BY <2>1, <2>2, StageAt DEF Inv
  <2>4. StageBar = [o \in Order |-> StageBar[o]]
    BY DEF StageBar
  <2>5. StageBar = [o \in Order |-> "absent"]
    BY <2>3, <2>4
  <2> QED BY <2>5 DEF Delivery!Init, StageBar
<1>2. Inv /\ [Next]_vars => [Delivery!Next]_StageBar
  <2> SUFFICES ASSUME Inv, [Next]_vars PROVE Delivery!Next \/ StageBar' = StageBar
    OBVIOUS
  <2>1. Inv'
    BY NextInv
  <2>2. UNCHANGED vars => StageBar' = StageBar
    BY DEF vars, requestVars, relayVars, consumerVars, StageBar, Published
  <2> QED BY <2>1, <2>2, RequestMaps, RelayMaps, ConsumerMaps DEF Next, Terminated
<1> QED BY <1>1, <1>2, Invariance, PTL DEF Spec, DeliversInOrder, Delivery!Spec, StageBar
==============================================================================
