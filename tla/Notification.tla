----------------------------- MODULE Notification -----------------------------
(***************************************************************************)
(* notification-service, the consumer of the topic, composed with the      *)
(* outbox of order-service that fills it.  Its goroutine reads a record    *)
(* with ReadMessage, which commits the offset before it returns, and then  *)
(* inserts into inbox and notifications in two statements.                 *)
(***************************************************************************)
EXTENDS OutboxRelay

VARIABLES
  committed,  \* the offset of the consumer group in Kafka
  position,   \* the offset the running reader has come to
  handling,   \* the events being saved: one or none
  inbox,      \* the events of table inbox
  notified    \* the events of table notifications

consumerVars == <<committed, position, handling, inbox, notified>>
vars == <<faults, left, requestVars, relayVars, consumerVars>>

Init ==
  /\ RelayInit
  /\ committed = 0
  /\ position = 0
  /\ handling = {}
  /\ inbox = {}
  /\ notified = {}

(* Every variable has values of its type.                                  *)
TypeOK ==
  /\ RelayTypeOK
  /\ position \in 0..Len(topic)
  /\ committed \in 0..position
  /\ handling \subseteq Order
  /\ inbox \subseteq Order
  /\ notified \subseteq Order

-----------------------------------------------------------------------------
ReadMessage ==
  /\ handling = {} /\ position < Len(topic)
  /\ position' = position + 1
  /\ committed' = position'
  /\ handling' = {topic[position']}
  /\ AllWell
  /\ UNCHANGED <<requestVars, relayVars, inbox, notified>>

(* The offset cannot be committed: ReadMessage returns an error, and the   *)
(* next one returns the next record.                                       *)
ReadMessageFails ==
  /\ handling = {} /\ position < Len(topic)
  /\ Strikes("consumer")
  /\ position' = position + 1
  /\ UNCHANGED <<requestVars, relayVars, committed, handling, inbox, notified>>

(* Mutant: an event that is in the inbox counts as notified.               *)
SaveInboxEnds(o) ==
  /\ o \in handling
  /\ inbox' = inbox \cup {o}
  /\ handling' = {}
  /\ AllWell
  /\ UNCHANGED <<requestVars, relayVars, committed, position, notified>>

(* INSERT ... ON CONFLICT DO NOTHING, whether or not it inserted           *)
SaveInbox(o) ==
  /\ o \in handling
  /\ o \notin inbox
  /\ inbox' = inbox \cup {o}
  /\ AllWell
  /\ UNCHANGED <<requestVars, relayVars, committed, position, handling, notified>>

SaveNotification(o) ==
  /\ o \in handling
  /\ o \in inbox
  /\ notified' = notified \cup {o}
  /\ handling' = {}
  /\ AllWell
  /\ UNCHANGED <<requestVars, relayVars, committed, position, inbox>>

(* Either statement returns an error, after which the event is dropped.    *)
(* What was inserted, up to and including that statement, stays.           *)
SaveFails(o) ==
  /\ o \in handling
  /\ Strikes("consumer")
  /\ handling' = {}
  /\ \/ inbox' \in {inbox, inbox \cup {o}} /\ UNCHANGED notified
     \/ o \in inbox /\ notified' = notified \cup {o} /\ UNCHANGED inbox
  /\ UNCHANGED <<requestVars, relayVars, committed, position>>

(* Mutant: the reader goes on after the committed offset.                  *)
RestartPastCommitted ==
  /\ Strikes("consumer")
  /\ handling' = {}
  /\ position' = committed + 1
  /\ UNCHANGED <<requestVars, relayVars, committed, inbox, notified>>

(* notification-service dies, and is started again at the committed offset.*)
Restart ==
  /\ Strikes("consumer")
  /\ handling' = {}
  /\ position' = committed
  /\ UNCHANGED <<requestVars, relayVars, committed, inbox, notified>>

Consumer ==
  \/ ReadMessage
  \/ ReadMessageFails
  \/ \E o \in Order : SaveInbox(o) \/ SaveNotification(o) \/ SaveFails(o)

-----------------------------------------------------------------------------
Quiescent ==
  /\ \A o \in Order : pc[o] \in Answered /\ row[o] \in {"none", "sent"}
  /\ \A r \in Replica : batch[r] = {}
  /\ position = Len(topic) /\ handling = {}

Terminated == Quiescent /\ UNCHANGED vars

Next ==
  \/ \E o \in Order : Request(o) /\ UNCHANGED consumerVars
  \/ \E r \in Replica : (Relay(r) \/ Crash(r)) /\ UNCHANGED consumerVars
  \/ Consumer
  \/ Restart
  \/ Terminated

Spec == Init /\ [][Next]_vars

(* Goroutines are scheduled, statements and publications end, and tickers  *)
(* tick.  Nothing makes a fault strike.                                    *)
Fairness ==
  /\ \A o \in Order : WF_vars(Request(o) /\ UNCHANGED consumerVars)
  /\ \A r \in Replica : WF_vars(Relay(r) /\ UNCHANGED consumerVars)
  /\ WF_vars(Consumer)

FairSpec == Spec /\ Fairness

-----------------------------------------------------------------------------
Published(o) == \E i \in DOMAIN topic : topic[i] = o

Delivery == INSTANCE EventDelivery WITH
  stage <- [o \in Order |-> CASE o \in notified                  -> "notified"
                             [] o \notin notified /\ Published(o) -> "published"
                             [] ~Published(o) /\ row[o] = "pending" -> "stored"
                             [] OTHER                              -> "absent"]

(* Events go through their stages in order, none skipped and none taken    *)
(* back, with replicas, crashes, lost answers and repeated records.        *)
DeliversInOrder == Delivery!Spec

(* Liveness, under FairSpec.  Stages are final, so that what must happen   *)
(* to every event is stated of all of them at once.                        *)

(* A record that can never be published keeps back those with higher ids.  *)
HeldBack(o) == \E q \in oversized : row[q] = "pending" /\ rowId[q] <= rowId[o]

(* Every event that is stored is published, whichever faults strike, as    *)
(* long as they come to an end: rows may become visible out of order,      *)
(* replicas compete for them and die with their batch.  Only a record too  *)
(* large for Kafka, and what stands behind it, is never published.         *)
EveryEventPublished ==
  <>[](\A o \in Order : row[o] = "pending" => Published(o) \/ HeldBack(o))

AllNotified == \A o \in Order : Published(o) => o \in notified

(* The outbox delivers reliably: every event that is published is notified.*)
EventsArrive == <>[]AllNotified

(* So it does, unless something goes wrong at notification-service.        *)
EveryEventNotified == "consumer" \notin faults => <>[]AllNotified
==============================================================================
