---------------------------- MODULE CheckoutFront ----------------------------
(***************************************************************************)
(* The front of order-service: what POST /checkout does before and after   *)
(* the transaction mode runs, and GET /orders/{id}.  Every request has a   *)
(* goroutine of its own, in any replica; they meet in the database, where  *)
(* createOrder inserts the order, its items and the idempotency key in one *)
(* transaction.                                                            *)
(*                                                                         *)
(* pc[r] is where the goroutine of request r stands:                       *)
(*   idle -> lookup -> order -> key -> commit -> run -> answered           *)
(* with key -> relook -> answered for the loser of a race on the key.      *)
(* What a mode does in "run" is the matter of TwoPC, TccSaga and           *)
(* OutboxRelay; here it comes to one of its outcomes.                      *)
(***************************************************************************)
CONSTANTS
  Request,    \* the requests clients send
  Key,        \* values of the header Idempotency-Key
  OrderId,    \* ids sent by clients or generated
  NoKey,      \* a request without the header
  NoOrder,    \* an answer that names no order
  Modes,      \* the modes a behaviour may run in, see Mode
  FaultSets   \* the sets of faults a behaviour may have to live with

(* "tcc" stands for saga-orch too, which answers alike, and "twopc" for the*)
(* modes the dispatch does not know.                                       *)
Mode == {"twopc", "tcc", "outbox", "saga-chor"}

(* "db": a statement may fail, a commit may be rolled back, or be done and *)
(* its acknowledgement lost; "ctx": the request context may be cancelled;  *)
(* "crash": a replica may die; "call": a client may lose request or answer.*)
ASSUME FrontAssumption ==
  /\ Modes \subseteq Mode
  /\ FaultSets \subseteq SUBSET {"db", "ctx", "crash", "call"}
  /\ NoKey \notin Key /\ NoOrder \notin OrderId
  /\ OrderId # {}

VARIABLES
  faults, mode, \* chosen once and for all
  pc,
  asked,        \* what the request carries
  ctx,          \* the context of the request, "live" or "dead"
  created,      \* the requests whose createOrder is committed: the rows of
                \* orders, order_items and order_idempotency
  status,       \* orders.status by id, "none" for no row
  answer        \* what was written to the client

frontVars == <<faults, mode, pc, asked, ctx, created, status, answer>>

(* Items are left out: a product listed twice violates the primary key of  *)
(* order_items, which fails the transaction like the fault "db".           *)
Input == [key : Key \cup {NoKey}, id : OrderId]
Answer == [status : {"none", "INVALID", "FAILED", "IDEMPOTENT_REPLAY", "PENDING",
                     "CONFIRMED", "REJECTED", "COMMITTED", "ABORTED"},
           order : OrderId \cup {NoOrder}]

Nothing == [status |-> "none", order |-> NoOrder]
Unasked == [key |-> NoKey, id |-> CHOOSE o \in OrderId : TRUE]

FrontInit ==
  /\ faults \in FaultSets
  /\ mode \in Modes
  /\ pc = [r \in Request |-> "idle"]
  /\ asked = [r \in Request |-> Unasked]
  /\ ctx = [r \in Request |-> "live"]
  /\ created = {}
  /\ status = [o \in OrderId |-> "none"]
  /\ answer = [r \in Request |-> Nothing]

FrontTypeOK ==
  /\ faults \in FaultSets
  /\ mode \in Modes
  /\ pc \in [Request -> {"idle", "lookup", "order", "key", "commit", "relook", "run",
                         "answered", "crashed"}]
  /\ asked \in [Request -> Input]
  /\ ctx \in [Request -> {"live", "dead"}]
  /\ created \subseteq Request
  /\ status \in [OrderId -> {"none", "PROCESSING", "PENDING", "CONFIRMED", "REJECTED"}]
  /\ answer \in [Request -> Answer]

-----------------------------------------------------------------------------
(* The database.                                                           *)

(* The transactions that hold a row inserted and not yet committed: an     *)
(* insert of the same primary key waits for them.                          *)
HoldsOrder(r) == {s \in Request \ {r} : pc[s] \in {"key", "commit"} /\ asked[s].id = asked[r].id}
HoldsKey(r) == {s \in Request \ {r} : pc[s] = "commit" /\ asked[s].key = asked[r].key}

OrderTaken(r) == \E s \in created : asked[s].id = asked[r].id
Keyed(r) == {s \in created : asked[r].key # NoKey /\ asked[s].key = asked[r].key}

(* Whether a statement of the goroutine works.                             *)
Works(r) == IF ctx[r] = "dead" THEN {FALSE}
            ELSE IF "db" \in faults THEN {TRUE, FALSE} ELSE {TRUE}

Goto(r, label) == pc' = [pc EXCEPT ![r] = label] /\ UNCHANGED answer

Reply(r, st, o) ==
  /\ pc' = [pc EXCEPT ![r] = "answered"]
  /\ answer' = [answer EXCEPT ![r] = [status |-> st, order |-> o]]

Fail(r) == Reply(r, "FAILED", NoOrder)

-----------------------------------------------------------------------------
(* The handler.                                                            *)

(* A request is decoded and valid, or refused: no items, a bad item or a   *)
(* negative total.                                                         *)
Arrive(r, input) ==
  /\ pc[r] = "idle"
  /\ asked' = [asked EXCEPT ![r] = input]
  /\ Goto(r, "lookup")
  /\ UNCHANGED <<faults, mode, ctx, created, status>>

Refuse(r) ==
  /\ pc[r] = "idle"
  /\ Reply(r, "INVALID", NoOrder)
  /\ UNCHANGED <<faults, mode, asked, ctx, created, status>>

(* The key is looked up; an error counts as a miss.                        *)
Lookup(r) ==
  /\ pc[r] = "lookup"
  /\ \E works \in Works(r) :
       IF works /\ Keyed(r) # {}
       THEN \E s \in Keyed(r) : Reply(r, "IDEMPOTENT_REPLAY", asked[s].id)
       ELSE Goto(r, "order")
  /\ UNCHANGED <<faults, mode, asked, ctx, created, status>>

(* INSERT INTO orders and order_items.                                     *)
InsertOrder(r) ==
  /\ pc[r] = "order"
  /\ HoldsOrder(r) = {} \/ ctx[r] = "dead"
  /\ \E works \in Works(r) :
       IF ~works \/ OrderTaken(r) THEN Fail(r)
       ELSE Goto(r, IF asked[r].key = NoKey THEN "commit" ELSE "key")
  /\ UNCHANGED <<faults, mode, asked, ctx, created, status>>

(* Mutants: ON CONFLICT DO NOTHING; the violation is not recognized.       *)
InsertKeyOrNothing(r) ==
  /\ pc[r] = "key"
  /\ Goto(r, "commit")
  /\ UNCHANGED <<faults, mode, asked, ctx, created, status>>
InsertKeyUnrecognized(r) ==
  /\ pc[r] = "key"
  /\ HoldsKey(r) = {} \/ ctx[r] = "dead"
  /\ \E works \in Works(r) : IF ~works \/ Keyed(r) # {} THEN Fail(r) ELSE Goto(r, "commit")
  /\ UNCHANGED <<faults, mode, asked, ctx, created, status>>

(* INSERT INTO order_idempotency, whose violation is errIdempotencyRace.   *)
InsertKey(r) ==
  /\ pc[r] = "key"
  /\ HoldsKey(r) = {} \/ ctx[r] = "dead"
  /\ \E works \in Works(r) :
       IF ~works THEN Fail(r) ELSE Goto(r, IF Keyed(r) # {} THEN "relook" ELSE "commit")
  /\ UNCHANGED <<faults, mode, asked, ctx, created, status>>

(* The transaction commits, or not; either may look like a failure.        *)
Commit(r) ==
  /\ pc[r] = "commit"
  /\ \E done \in {TRUE} \cup Works(r), acked \in Works(r) :
       /\ created' = IF done THEN created \cup {r} ELSE created
       /\ status' = IF done THEN [status EXCEPT ![asked[r].id] = "PROCESSING"] ELSE status
       /\ IF done /\ acked THEN Goto(r, "run") ELSE Fail(r)
  /\ UNCHANGED <<faults, mode, asked, ctx>>

(* Mutant: the loser of the race answers with its own order.               *)
RelookOwn(r) ==
  /\ pc[r] = "relook"
  /\ Reply(r, "IDEMPOTENT_REPLAY", asked[r].id)
  /\ UNCHANGED <<faults, mode, asked, ctx, created, status>>

(* Mutant: the loser of the race tries the insert again until it works.    *)
RelookRetries(r) ==
  /\ pc[r] = "relook"
  /\ \E works \in Works(r) :
       IF works /\ Keyed(r) # {}
       THEN \E s \in Keyed(r) : Reply(r, "IDEMPOTENT_REPLAY", asked[s].id)
       ELSE Goto(r, "key")
  /\ UNCHANGED <<faults, mode, asked, ctx, created, status>>

(* The loser of the race answers with the winner's order.                  *)
Relook(r) ==
  /\ pc[r] = "relook"
  /\ \E works \in Works(r) :
       IF works /\ Keyed(r) # {}
       THEN \E s \in Keyed(r) : Reply(r, "IDEMPOTENT_REPLAY", asked[s].id)
       ELSE Fail(r)
  /\ UNCHANGED <<faults, mode, asked, ctx, created, status>>

(* What a mode answers and the status it writes.                           *)
Outcomes == CASE mode = "twopc"     -> {<<"COMMITTED", "CONFIRMED">>, <<"ABORTED", "REJECTED">>}
              [] mode = "tcc"       -> {<<"CONFIRMED", "CONFIRMED">>, <<"REJECTED", "REJECTED">>}
              [] mode = "outbox"    -> {<<"CONFIRMED", "CONFIRMED">>}
              [] mode = "saga-chor" -> {<<"PENDING", "PENDING">>}

(* The mode has run; the error of the status update is dropped.            *)
Settle(r) ==
  /\ pc[r] = "run"
  /\ \E outcome \in Outcomes, works \in Works(r) :
       /\ Reply(r, outcome[1], asked[r].id)
       /\ status' = IF works THEN [status EXCEPT ![asked[r].id] = outcome[2]] ELSE status
  /\ UNCHANGED <<faults, mode, asked, ctx, created>>

(* The event of outbox or saga-chor could not be enqueued.                 *)
RunFails(r) ==
  /\ pc[r] = "run"
  /\ mode \in {"outbox", "saga-chor"}
  /\ FALSE \in Works(r)
  /\ Fail(r)
  /\ UNCHANGED <<faults, mode, asked, ctx, created, status>>

Serve(r) ==
  \/ Lookup(r) \/ InsertOrder(r) \/ InsertKey(r) \/ Commit(r) \/ Relook(r)
  \/ Settle(r) \/ RunFails(r)

Running(r) == pc[r] \notin {"idle", "answered", "crashed"}

ExpireCtx(r) ==
  /\ "ctx" \in faults /\ Running(r) /\ ctx[r] = "live"
  /\ ctx' = [ctx EXCEPT ![r] = "dead"]
  /\ UNCHANGED <<faults, mode, pc, asked, created, status, answer>>

(* The database rolls back what the replica had not committed.             *)
Crash(r) ==
  /\ "crash" \in faults /\ Running(r)
  /\ Goto(r, "crashed")
  /\ UNCHANGED <<faults, mode, asked, ctx, created, status>>

(* What GET /orders/{id} may answer, "none" for 404.                       *)
GetOrder(o) == {status[o]} \cup (IF "db" \in faults THEN {"none"} ELSE {})

FrontTerminated == (\A r \in Request : pc[r] \in {"answered", "crashed"}) /\ UNCHANGED frontVars

FrontNext ==
  \/ \E r \in Request :
       \/ \E input \in Input : Arrive(r, input)
       \/ Refuse(r)
       \/ Serve(r) \/ ExpireCtx(r) \/ Crash(r)
  \/ FrontTerminated

(* The goroutine of a request is scheduled, once the request is there.     *)
FrontSpec == FrontInit /\ [][FrontNext]_frontVars /\ \A r \in Request : WF_frontVars(Serve(r))

-----------------------------------------------------------------------------
(* Whatever fails, a key buys one order: of the requests that carry it, at *)
(* most one is given an order and runs the transaction, and no two         *)
(* requests at all run it for one order id.                                *)
OneRunPerKey ==
  \A r, s \in Request :
    r # s /\ {r, s} \subseteq created =>
      /\ asked[r].id # asked[s].id
      /\ asked[r].key = asked[s].key => asked[r].key = NoKey

(* Whatever fails, all clients that used a key and were told an order were *)
(* told the same one, and it exists.                                       *)
AnswersAgree ==
  \A r \in Request : answer[r].order # NoOrder =>
    /\ status[answer[r].order] # "none"
    /\ \A s \in Request :
         asked[r].key = asked[s].key /\ asked[r].key # NoKey /\ answer[s].order # NoOrder =>
           answer[r].order = answer[s].order

(* Whatever fails, a request that has arrived comes to an end, although it *)
(* may wait for rows of others that wait for rows themselves, whose context*)
(* ends or whose replica dies.  Without faults the end is an answer with an*)
(* order for every valid request whose order id is its own, and that order *)
(* leaves PROCESSING, however the request races with others for its key.   *)
Served ==
  \A r \in Request :
    /\ pc[r] = "lookup" ~> pc[r] \in {"answered", "crashed"}
    /\ faults = {} /\ pc[r] = "lookup" ~>
         \/ \E s \in Request \ {r} : pc[s] # "idle" /\ asked[s].id = asked[r].id
         \/ answer[r].order # NoOrder /\ status[answer[r].order] # "PROCESSING"

(* A repeated request, same key, same order, is told that order.  Not so   *)
(* when the two are concurrent: the second violates the primary key of     *)
(* orders before its key is looked at.                                     *)
RepeatsAreServed ==
  \A r, s \in Request :
    answer[r].status = "FAILED" /\ s \in created =>
      asked[r].key = NoKey \/ asked[r] # asked[s]
==============================================================================
