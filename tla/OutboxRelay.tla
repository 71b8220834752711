----------------------------- MODULE OutboxRelay -----------------------------
(***************************************************************************)
(* The transactional outbox of order-service: the requests that insert an  *)
(* event (modes "outbox" and "saga-chor") and the relay of every replica,  *)
(* which polls the table and publishes to Kafka.  Module Notification      *)
(* composes them with the consumer of the topic.                           *)
(*                                                                         *)
(* An order has one event, whose key is the order, so that the order names *)
(* the event too.  The topic is one partition.                             *)
(***************************************************************************)
EXTENDS Naturals, Sequences, FiniteSets

CONSTANTS
  Order,     \* orders, each with its POST /checkout request and its event
  Replica,   \* processes of order-service
  HomeOf,    \* HomeOf[o]: the replica that serves the request of order o
  TxMode,    \* "outbox" or "saga-chor"
  Batch,     \* OUTBOX_BATCH
  Oversized, \* the sets of orders whose event may be too large for Kafka
  FaultSets, \* the sets of faults a behaviour may have to live with
  MaxFaults  \* bound: how many faults may strike in a behaviour

(* "db":       a statement on the order database may fail, or succeed and  *)
(*             have its acknowledgement lost, the end of a request's       *)
(*             context included                                            *)
(* "kafka":    a publication may fail, succeed and have its acknowledgement*)
(*             lost, or be sent twice by the retry of the writer; events   *)
(*             may be too large, which is no fault that strikes once       *)
(* "crash":    a replica of order-service may die, and is started again    *)
(* "consumer": notification-service may die and be started again, one of   *)
(*             its statements may fail, or the commit of its offset        *)
Fault == {"db", "kafka", "crash", "consumer"}

ASSUME OutboxAssumption ==
  /\ IsFiniteSet(Order) /\ IsFiniteSet(Replica)
  /\ HomeOf \in [Order -> Replica]
  /\ TxMode \in {"outbox", "saga-chor"}
  /\ Batch \in Nat \ {0}
  /\ Oversized \subseteq SUBSET Order
  /\ FaultSets \subseteq SUBSET Fault
  /\ MaxFaults \in Nat

VARIABLES
  faults, left,  \* the faults of this behaviour, and how many may still strike
  oversized,     \* the orders whose event is too large, fixed for a behaviour
  order,         \* orders.status
  pc,            \* where the goroutine of the request stands
  row,           \* the outbox row of the order's event; "inserting" is not visible yet
  rowId,         \* its BIGSERIAL id, 0 for none
  lastId,        \* the last id the sequence has given
  batch,         \* batch[r]: the records the relay of r has yet to publish
  marking,       \* marking[r]: it has published the first one, and not marked it yet
  topic          \* the records in Kafka, in order

requestVars == <<order, pc, row, rowId, lastId, oversized>>
relayVars == <<batch, marking, topic>>

OrderStatus == {"none", "PROCESSING", "CONFIRMED", "PENDING"}
RowState == {"none", "inserting", "pending", "sent"}
Answered == {"answered", "error", "crashed"}
PC == Answered \cup {"start", "created", "inserting", "enqueued"}

RelayInit ==
  /\ faults \in FaultSets
  /\ left = MaxFaults
  /\ oversized \in IF "kafka" \in faults THEN Oversized ELSE {{}}
  /\ order = [o \in Order |-> "none"]
  /\ pc = [o \in Order |-> "start"]
  /\ row = [o \in Order |-> "none"]
  /\ rowId = [o \in Order |-> 0]
  /\ lastId = 0
  /\ batch = [r \in Replica |-> {}]
  /\ marking = [r \in Replica |-> FALSE]
  /\ topic = <<>>

RelayTypeOK ==
  /\ faults \in FaultSets
  /\ left \in 0..MaxFaults
  /\ oversized \subseteq Order
  /\ order \in [Order -> OrderStatus]
  /\ pc \in [Order -> PC]
  /\ row \in [Order -> RowState]
  /\ lastId \in 0..Cardinality(Order)
  /\ rowId \in [Order -> 0..lastId]
  /\ batch \in [Replica -> SUBSET Order]
  /\ marking \in [Replica -> BOOLEAN]
  /\ topic \in Seq(Order)

(* A fault of this kind strikes, or nothing goes wrong.                    *)
Strikes(kind) == kind \in faults /\ left > 0 /\ left' = left - 1 /\ UNCHANGED faults
AllWell == UNCHANGED <<faults, left>>

Goto(o, label) == pc' = [pc EXCEPT ![o] = label]
SetRow(o, state) == row' = [row EXCEPT ![o] = state]

-----------------------------------------------------------------------------
(* The request: createOrder, enqueueOrderEvent, updateOrderStatus.         *)

CreateOrder(o) ==
  /\ pc[o] = "start"
  /\ Goto(o, "created")
  /\ order' = [order EXCEPT ![o] = "PROCESSING"]
  /\ AllWell
  /\ UNCHANGED <<row, rowId, lastId, oversized, relayVars>>

CreateOrderFails(o) ==
  /\ pc[o] = "start"
  /\ Strikes("db")
  /\ Goto(o, "error")
  /\ \E status \in {"none", "PROCESSING"} : order' = [order EXCEPT ![o] = status]
  /\ UNCHANGED <<row, rowId, lastId, oversized, relayVars>>

(* INSERT INTO outbox takes an id at once and becomes visible later, so    *)
(* that rows may become visible in another order than that of their ids.   *)
Insert(o) ==
  /\ pc[o] = "created"
  /\ Goto(o, "inserting")
  /\ SetRow(o, "inserting")
  /\ lastId' = lastId + 1
  /\ rowId' = [rowId EXCEPT ![o] = lastId']
  /\ AllWell
  /\ UNCHANGED <<order, oversized, relayVars>>

(* Mutant: the handler answers without updating the order.                 *)
InsertEndsRequest(o) ==
  /\ row[o] = "inserting"
  /\ SetRow(o, "pending")
  /\ Goto(o, IF pc[o] = "inserting" THEN "answered" ELSE pc[o])
  /\ AllWell
  /\ UNCHANGED <<order, rowId, lastId, oversized, relayVars>>

(* The statement is executed, whether or not its caller is still there.    *)
InsertDone(o) ==
  /\ row[o] = "inserting"
  /\ SetRow(o, "pending")
  /\ Goto(o, IF pc[o] = "inserting" THEN "enqueued" ELSE pc[o])
  /\ AllWell
  /\ UNCHANGED <<order, rowId, lastId, oversized, relayVars>>

(* Mutant: the error of the insert is dropped, as in runTCC.               *)
InsertFailsDropped(o) ==
  /\ pc[o] = "inserting"
  /\ Strikes("db")
  /\ Goto(o, "enqueued")
  /\ UNCHANGED <<order, row, rowId, lastId, oversized, relayVars>>

(* The insert returns an error and the client is answered 500.  The server *)
(* may execute the statement all the same.                                 *)
InsertFails(o) ==
  /\ pc[o] = "inserting"
  /\ Strikes("db")
  /\ Goto(o, "error")
  /\ UNCHANGED <<order, row, rowId, lastId, oversized, relayVars>>

InsertLost(o) ==
  /\ row[o] = "inserting"
  /\ pc[o] # "inserting"
  /\ SetRow(o, "none")
  /\ AllWell
  /\ UNCHANGED <<order, pc, rowId, lastId, oversized, relayVars>>

SettledStatus == IF TxMode = "outbox" THEN "CONFIRMED" ELSE "PENDING"

(* The order is updated, and the client is answered even if that failed.   *)
UpdateOrder(o) ==
  /\ pc[o] = "enqueued"
  /\ Goto(o, "answered")
  /\ \/ AllWell /\ order' = [order EXCEPT ![o] = SettledStatus]
     \/ Strikes("db") /\ UNCHANGED order
  /\ UNCHANGED <<row, rowId, lastId, oversized, relayVars>>

-----------------------------------------------------------------------------
(* The relay: startOutboxRelay.                                            *)

(* Mutants: rows that are not committed yet are seen; the WHERE clause is  *)
(* forgotten.                                                              *)
PendingDirty == {o \in Order : row[o] \in {"inserting", "pending"}}
PendingAll == {o \in Order : row[o] \in {"pending", "sent"}}

Pending == {o \in Order : row[o] = "pending"}

(* ORDER BY id LIMIT n                                                     *)
FirstRows(rows) == {o \in rows : Cardinality({q \in rows : rowId[q] < rowId[o]}) < Batch}
FirstRow(rows) == CHOOSE o \in rows : \A q \in rows : rowId[o] <= rowId[q]

(* Mutant: the relay goes on from the highest id that was sent.            *)
FetchFromCursor(r) ==
  /\ batch[r] = {}
  /\ LET unseen == {o \in Pending : \A q \in Order : row[q] = "sent" => rowId[q] < rowId[o]}
     IN  /\ unseen # {}
         /\ batch' = [batch EXCEPT ![r] = FirstRows(unseen)]
  /\ AllWell
  /\ UNCHANGED <<requestVars, marking, topic>>

(* A tick of the poll.  One that fails or finds nothing changes nothing.   *)
Fetch(r) ==
  /\ batch[r] = {}
  /\ Pending # {}
  /\ batch' = [batch EXCEPT ![r] = FirstRows(Pending)]
  /\ AllWell
  /\ UNCHANGED <<requestVars, marking, topic>>

(* The relay of r stands before WriteMessages with a record Kafka takes.   *)
Publishing(r) == batch[r] # {} /\ ~marking[r] /\ FirstRow(batch[r]) \notin oversized

Publish(r) ==
  /\ Publishing(r)
  /\ topic' = Append(topic, FirstRow(batch[r]))
  /\ marking' = [marking EXCEPT ![r] = TRUE]
  /\ AllWell
  /\ UNCHANGED <<requestVars, batch>>

(* The writer sends the record, misses the answer and sends it again.      *)
PublishTwice(r) ==
  /\ Publishing(r)
  /\ Strikes("kafka")
  /\ topic' = Append(topic, FirstRow(batch[r]))
  /\ UNCHANGED <<requestVars, batch, marking>>

(* Mutant: the error of WriteMessages is dropped.                          *)
PublishFailsDropped(r) ==
  /\ Publishing(r)
  /\ Strikes("kafka")
  /\ marking' = [marking EXCEPT ![r] = TRUE]
  /\ UNCHANGED <<requestVars, batch, topic>>

(* WriteMessages returns an error: the rest of the batch is left to the    *)
(* next tick.  The record may have been stored all the same.               *)
PublishFails(r) ==
  /\ Publishing(r)
  /\ Strikes("kafka")
  /\ batch' = [batch EXCEPT ![r] = {}]
  /\ topic' \in {topic, Append(topic, FirstRow(batch[r]))}
  /\ UNCHANGED <<requestVars, marking>>

(* A record over the size limit fails every time, and ends the batch too.  *)
PublishRefused(r) ==
  /\ batch[r] # {} /\ ~marking[r] /\ FirstRow(batch[r]) \in oversized
  /\ batch' = [batch EXCEPT ![r] = {}]
  /\ AllWell
  /\ UNCHANGED <<requestVars, marking, topic>>

(* MarkSent; its error is dropped and the next record is taken.            *)
MarkSent(r) ==
  /\ marking[r]
  /\ LET o == FirstRow(batch[r])
     IN  /\ batch' = [batch EXCEPT ![r] = @ \ {o}]
         /\ \/ AllWell /\ SetRow(o, "sent")
            \/ Strikes("db") /\ UNCHANGED row
  /\ marking' = [marking EXCEPT ![r] = FALSE]
  /\ UNCHANGED <<order, pc, rowId, lastId, oversized, topic>>

(* A replica dies with its requests and its batch, and is started again.   *)
Crash(r) ==
  /\ Strikes("crash")
  /\ pc' = [o \in Order |-> IF HomeOf[o] = r /\ pc[o] \notin Answered \cup {"start"}
                            THEN "crashed" ELSE pc[o]]
  /\ batch' = [batch EXCEPT ![r] = {}]
  /\ marking' = [marking EXCEPT ![r] = FALSE]
  /\ UNCHANGED <<order, row, rowId, lastId, oversized, topic>>

Request(o) ==
  \/ CreateOrder(o)
  \/ CreateOrderFails(o)
  \/ Insert(o)
  \/ InsertDone(o)
  \/ InsertFails(o)
  \/ InsertLost(o)
  \/ UpdateOrder(o)

Relay(r) ==
  \/ Fetch(r)
  \/ Publish(r)
  \/ PublishTwice(r)
  \/ PublishFails(r)
  \/ PublishRefused(r)
  \/ MarkSent(r)

-----------------------------------------------------------------------------
Copies(o) == Cardinality({i \in DOMAIN topic : topic[i] = o})

(* A record marked as sent is in Kafka: nothing else would publish it.     *)
(* Replicas may fetch the same records, miss answers and die in between.   *)
SentIsPublished == \A o \in Order : row[o] = "sent" => Copies(o) > 0

(* A record is published at most once by each replica and once more for    *)
(* each fault: a relay only repeats itself when something went wrong.      *)
PublishedAtMost ==
  \A o \in Order : Copies(o) <= Cardinality(Replica) + (MaxFaults - left)

(* The orders whose client is told the end although they are not settled.  *)
Unsettled == {o \in Order : pc[o] \in {"answered", "error"} /\ order[o] # SettledStatus}

(* Event and status are two statements, and agree but for what goes wrong: *)
(* an order is only settled when its event is stored, and the event stays; *)
(* and of the orders answered by a living process at most one stays        *)
(* unsettled for each fault, its event stored or not.                      *)
SettledWithEvent ==
  /\ \A o \in Order : order[o] = SettledStatus => row[o] \in {"pending", "sent"}
  /\ Cardinality(Unsettled) <= MaxFaults - left
==============================================================================
