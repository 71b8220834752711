------------------------------- MODULE TccSaga -------------------------------
(***************************************************************************)
(* The modes "tcc" and "saga-orch" of POST /checkout: the goroutine of the *)
(* request calls /tcc/try at every participant and, in TCC, /tcc/confirm   *)
(* at every participant; the first error makes it call /tcc/cancel, in     *)
(* reverse order, at those that answered the try.                          *)
(*                                                                         *)
(* pc[c] is where the goroutine of checkout c stands:                      *)
(*   start -> try -> confirm (TCC only) -> enqueued -> CONFIRMED           *)
(*   with try, confirm -> cancel -> REJECTED                               *)
(* The loops "try" and "confirm" go up to at[c] = N + 1, the loop "cancel" *)
(* down to 0.  "CONFIRMED" and "REJECTED" have answered the client.        *)
(*                                                                         *)
(* A participant keeps one row of tcc_operations by txid, and every        *)
(* checkout has a txid of its own.                                         *)
(***************************************************************************)
EXTENDS Request

CONSTANT Modes  \* the values of TX_MODE a behaviour may run under

ASSUME TccSagaAssumption == Modes \subseteq {"tcc", "saga-orch"}

VARIABLES
  mode,   \* TX_MODE
  op,     \* op[c][p]: tcc_operations.status at participant p, "none" for no row
  event   \* event[c]: the outbox holds OrderConfirmed of checkout c

Action == {"try", "confirm", "cancel"}
CallState == {"none", "open", "ok", "lost"}  \* handleTCC answers 200 in any case
OpStatus == {"none", "TRY", "CONFIRM", "CANCEL"}
OrderStatus == {"none", "PROCESSING", "CONFIRMED", "REJECTED"}
Finished == {"CONFIRMED", "REJECTED", "error", "crashed"}
PC == Action \cup Finished \cup {"start", "enqueued"}

coordinatorVars == <<order, event, pc, at, ctx, mode, faults>>
vars == <<rpc, op, order, event, pc, at, ctx, mode, faults>>

Init ==
  /\ faults \in FaultSets
  /\ mode \in Modes
  /\ rpc = [c \in Checkout |-> [a \in Action |-> [p \in Participants |-> "none"]]]
  /\ op = [c \in Checkout |-> [p \in Participants |-> "none"]]
  /\ order = [c \in Checkout |-> "none"]
  /\ event = [c \in Checkout |-> FALSE]
  /\ pc = [c \in Checkout |-> "start"]
  /\ at = [c \in Checkout |-> 1]
  /\ ctx = [c \in Checkout |-> "live"]

(* Every variable has values of its type.                                  *)
TypeOK ==
  /\ faults \in FaultSets
  /\ mode \in Modes
  /\ rpc \in [Checkout -> [Action -> [Participants -> CallState]]]
  /\ op \in [Checkout -> [Participants -> OpStatus]]
  /\ order \in [Checkout -> OrderStatus]
  /\ event \in [Checkout -> BOOLEAN]
  /\ pc \in [Checkout -> PC]
  /\ at \in [Checkout -> 0..(N + 1)]
  /\ ctx \in [Checkout -> {"live", "dead"}]

-----------------------------------------------------------------------------
(* The participants: handleTCC.                                            *)

StatusOf(a) == CASE a = "try" -> "TRY" [] a = "confirm" -> "CONFIRM" [] a = "cancel" -> "CANCEL"

(* Mutant: a row is inserted, and never updated.                           *)
UpsertOnce(c, a, p) ==
  /\ rpc[c][a][p] = "open"
  /\ SetCall(c, a, p, "ok")
  /\ \E done \in StatementResults :
       op' = [op EXCEPT ![c][p] = IF done /\ @ = "none" THEN StatusOf(a) ELSE @]
  /\ UNCHANGED coordinatorVars

(* INSERT ... ON CONFLICT (txid) DO UPDATE: the last call to be handled    *)
(* wins.  The error of the statement is dropped.                           *)
Upsert(c, a, p) ==
  /\ rpc[c][a][p] = "open"
  /\ SetCall(c, a, p, "ok")
  /\ \E done \in StatementResults :
       op' = [op EXCEPT ![c][p] = IF done THEN StatusOf(a) ELSE @]
  /\ UNCHANGED coordinatorVars

(* The request is lost, the participant dies, or the handler notices that  *)
(* its caller has hung up.                                                 *)
LoseCall(c, a, p) ==
  /\ "call" \in faults \/ ~Calling(c, a, p)
  /\ rpc[c][a][p] = "open"
  /\ SetCall(c, a, p, "lost")
  /\ UNCHANGED <<op, coordinatorVars>>

-----------------------------------------------------------------------------
(* The loops of runTCC and runSagaOrch, and the two compensations.         *)

Enter(c, loop, p) ==
  /\ Goto(c, loop)
  /\ at' = [at EXCEPT ![c] = p]
  /\ UNCHANGED <<rpc, op, order, event, ctx, mode, faults>>

(* Where a loop stands when participant p is done with.                    *)
After(a, p) == IF a = "cancel" THEN p - 1 ELSE p + 1

PostJSON(c, a, p) ==
  /\ Calling(c, a, p)
  /\ ctx[c] = "live"
  /\ rpc[c][a][p] = "none"
  /\ SetCall(c, a, p, "open")
  /\ UNCHANGED <<op, coordinatorVars>>

(* Mutant: the loops do not wait for the answers.                          *)
CallSucceedsWithoutAnswer(c, a, p) ==
  /\ Calling(c, a, p)
  /\ rpc[c][a][p] # "none"
  /\ Enter(c, a, After(a, p))

CallSucceeds(c, a, p) ==
  /\ Calling(c, a, p)
  /\ rpc[c][a][p] = "ok"
  /\ Enter(c, a, After(a, p))

(* The call of the loop a fails, and the loop goes on at participant q.    *)
FailsTo(c, a, p, loop, q) ==
  /\ Calling(c, a, p)
  /\ CallError(c, a, p)
  /\ Enter(c, loop, q)

(* Mutants: the failed step is compensated too; only the first step is;    *)
(* the last completed step is forgotten.                                   *)
TryFailsWithItself(c, p) == FailsTo(c, "try", p, "cancel", p)
TryFailsUpwards(c, p) == FailsTo(c, "try", p, "cancel", IF p > 1 THEN 1 ELSE 0)
TryFailsShort(c, p) == FailsTo(c, "try", p, "cancel", IF p > 1 THEN p - 2 ELSE 0)

(* The steps completed so far are compensated, the failed one is not among *)
(* them.                                                                   *)
TryFails(c, p) == FailsTo(c, "try", p, "cancel", p - 1)

(* Mutant: the loop drops the error, as the compensation does.             *)
ConfirmFailsDropped(c, p) == FailsTo(c, "confirm", p, "confirm", p + 1)

(* Every step has completed its try, so all are compensated.               *)
ConfirmFails(c, p) == FailsTo(c, "confirm", p, "cancel", N)

(* Mutant: the handler returns the error of a cancel at once.              *)
CancelFailsReturns(c, p) == FailsTo(c, "cancel", p, "REJECTED", p)

(* The compensation drops the error and goes on.                           *)
CancelFails(c, p) == FailsTo(c, "cancel", p, "cancel", p - 1)

StartConfirm(c) ==
  /\ mode = "tcc"
  /\ pc[c] = "try" /\ at[c] = N + 1
  /\ Enter(c, "confirm", 1)

-----------------------------------------------------------------------------
(* The coordinator's own database.                                         *)

(* One transaction inserts the order; there is no log of these modes.      *)
CreateOrder(c) ==
  /\ pc[c] = "start"
  /\ \E result \in CreateResults(c) :
       /\ Goto(c, IF result = "committed" THEN "try" ELSE "error")
       /\ order' = [order EXCEPT ![c] = IF result = "rolledback" THEN @ ELSE "PROCESSING"]
  /\ UNCHANGED <<rpc, op, event, at, ctx, mode, faults>>

(* All loops of the mode are over.                                         *)
LoopsDone(c) ==
  /\ at[c] = N + 1
  /\ pc[c] = IF mode = "tcc" THEN "confirm" ELSE "try"

(* Mutant: the event goes out before the confirm calls.                    *)
EnqueueEarly(c) ==
  /\ pc[c] \in {"try", "confirm"} /\ ~event[c]
  /\ event' = [event EXCEPT ![c] = TRUE]
  /\ IF LoopsDone(c) THEN Goto(c, "enqueued") ELSE UNCHANGED pc
  /\ UNCHANGED <<rpc, op, order, at, ctx, mode, faults>>

(* enqueueOrderEvent(..., "OrderConfirmed", ...); its error is dropped.    *)
Enqueue(c) ==
  /\ LoopsDone(c)
  /\ Goto(c, "enqueued")
  /\ \E done \in Writes(c) : event' = [event EXCEPT ![c] = @ \/ done]
  /\ UNCHANGED <<rpc, op, order, at, ctx, mode, faults>>

(* Mutant: the order is confirmed before its event is enqueued.            *)
ConfirmOrderFirst(c) ==
  /\ LoopsDone(c) \/ pc[c] = "enqueued"
  /\ updateOrderStatus(c, "CONFIRMED")
  /\ IF pc[c] = "enqueued" THEN Goto(c, "CONFIRMED") ELSE UNCHANGED pc
  /\ UNCHANGED <<rpc, op, event, at, ctx, mode, faults>>

ConfirmOrder(c) ==
  /\ pc[c] = "enqueued"
  /\ updateOrderStatus(c, "CONFIRMED")
  /\ Goto(c, "CONFIRMED")
  /\ UNCHANGED <<rpc, op, event, at, ctx, mode, faults>>

RejectOrder(c) ==
  /\ pc[c] = "cancel" /\ at[c] = 0
  /\ updateOrderStatus(c, "REJECTED")
  /\ Goto(c, "REJECTED")
  /\ UNCHANGED <<rpc, op, event, at, ctx, mode, faults>>

(* The client hangs up, or the 10 s of the request are over.               *)
ExpireCtx(c) ==
  /\ "ctx" \in faults
  /\ pc[c] \notin Finished
  /\ ctx[c] = "live"
  /\ ctx' = [ctx EXCEPT ![c] = "dead"]
  /\ UNCHANGED <<rpc, op, order, event, pc, at, mode, faults>>

Crash(c) ==
  /\ "crash" \in faults
  /\ pc[c] \notin Finished
  /\ Goto(c, "crashed")
  /\ UNCHANGED <<rpc, op, order, event, at, ctx, mode, faults>>

-----------------------------------------------------------------------------
Coordinator(c) ==
  \/ CreateOrder(c)
  \/ StartConfirm(c)
  \/ Enqueue(c)
  \/ ConfirmOrder(c)
  \/ RejectOrder(c)
  \/ \E a \in Action, p \in Participants : PostJSON(c, a, p) \/ CallSucceeds(c, a, p)
  \/ \E p \in Participants : TryFails(c, p) \/ ConfirmFails(c, p) \/ CancelFails(c, p)

Quiescent ==
  /\ \A c \in Checkout : pc[c] \in Finished
  /\ \A c \in Checkout, a \in Action, p \in Participants : rpc[c][a][p] # "open"

Terminated == Quiescent /\ UNCHANGED vars

Next ==
  \/ \E c \in Checkout :
       \/ Coordinator(c)
       \/ ExpireCtx(c)
       \/ Crash(c)
       \/ \E a \in Action, p \in Participants : Upsert(c, a, p) \/ LoseCall(c, a, p)
  \/ Terminated

Spec == Init /\ [][Next]_vars

(* The goroutine of a checkout is scheduled, and its timeouts keep it from *)
(* waiting forever; so is the goroutine of every handler.                  *)
Fairness ==
  /\ \A c \in Checkout : WF_vars(Coordinator(c))
  /\ \A c \in Checkout, a \in Action, p \in Participants : WF_vars(Upsert(c, a, p))

FairSpec == Spec /\ Fairness

-----------------------------------------------------------------------------
(* Safety.                                                                 *)

DoneStatus == IF mode = "tcc" THEN "CONFIRM" ELSE "TRY"

(* An order that is confirmed, or announced as confirmed, has its work     *)
(* finished at every participant, although calls that failed may still be  *)
(* handled and the last one to be handled wins.  Not so when statements    *)
(* fail: the handlers drop the error and answer 200.                       *)
ConfirmedIsBacked ==
  "db" \notin faults =>
    \A c \in Checkout : order[c] = "CONFIRMED" \/ event[c] =>
      \A p \in Participants : op[c][p] = DoneStatus

(* The event and the order are two statements whose errors are dropped,    *)
(* with a context that may end between them.  Still, no compensation runs  *)
(* for an order announced as confirmed, and it is never rejected.          *)
EventAgrees ==
  \A c \in Checkout : event[c] =>
    /\ order[c] # "REJECTED"
    /\ \A p \in Participants : rpc[c]["cancel"][p] = "none"

(* A confirmed order has been announced, if statements do not fail, even   *)
(* when the process died or the context ended between the two statements.  *)
ConfirmedIsAnnounced ==
  "db" \notin faults => \A c \in Checkout : order[c] = "CONFIRMED" => event[c]

Tried(c, p) == rpc[c]["try"][p] # "none"
Cancelled(c, p) == rpc[c]["cancel"][p] # "none"

(* Compensation runs backwards: when a step is cancelled, every later one  *)
(* has been, but for the last one called, whose try may be the one that    *)
(* failed.                                                                 *)
CancelsInReverse ==
  \A c \in Checkout, p, q \in Participants :
    p < q /\ Cancelled(c, p) /\ Tried(c, q) =>
      Cancelled(c, q) \/ \A r \in Participants : r > q => ~Tried(c, r)

(* A client that is told REJECTED has had every step cancelled but the     *)
(* last one tried, unless its context has expired: the cancel calls use    *)
(* the context whose end made the step fail.                               *)
RejectedIsCancelled ==
  "ctx" \notin faults =>
    \A c \in Checkout, p, q \in Participants :
      pc[c] = "REJECTED" /\ p < q /\ Tried(c, q) => Cancelled(c, p)

(* A cancelled step stays cancelled when statements do not fail, although  *)
(* calls given up on may be handled after the cancel and overwrite it.     *)
(* The one exception is the step whose confirm failed, the last one that   *)
(* was called to confirm.                                                  *)
CancelSticks ==
  "db" \notin faults =>
    \A c \in Checkout, p \in Participants :
      rpc[c]["cancel"][p] = "ok" =>
        \/ op[c][p] = "CANCEL"
        \/ /\ op[c][p] = "CONFIRM"
           /\ \A q \in Participants : q > p => rpc[c]["confirm"][q] = "none"

(* Steps that have passed their try are cancelled when an order is         *)
(* rejected.                                                               *)
EveryTryIsCancelled ==
  \A c \in Checkout, p \in Participants :
    pc[c] = "REJECTED" /\ rpc[c]["try"][p] = "ok" => Cancelled(c, p)

(* A settled order never changes, and no handler still running touches the *)
(* rows of a confirmed or announced one.                                   *)
OutcomeIsFinal ==
  [][\A c \in Checkout :
       /\ order[c] \in {"CONFIRMED", "REJECTED"} => order'[c] = order[c]
       /\ order[c] = "CONFIRMED" \/ event[c] => op'[c] = op[c]]_vars

-----------------------------------------------------------------------------
(* Liveness, under FairSpec.                                               *)

(* An order is settled when no context expires, no process crashes and no  *)
(* statement fails.                                                        *)
OrderSettles ==
  faults \subseteq {"tx", "call"} =>
    \A c \in Checkout : order[c] = "PROCESSING" ~> order[c] \in {"CONFIRMED", "REJECTED"}

-----------------------------------------------------------------------------
(* TCC makes the promise of the two-phase commit: a row of tcc_operations  *)
(* is the work a service holds.                                            *)
WorkOf(status) == CASE status = "none"    -> "absent"
                    [] status = "TRY"     -> "held"
                    [] status = "CONFIRM" -> "done"
                    [] status = "CANCEL"  -> "undone"

VerdictOf(status) == CASE status = "CONFIRMED" -> "confirmed"
                       [] status = "REJECTED"  -> "rejected"
                       [] OTHER                -> "open"

Promise == INSTANCE AtomicCheckout WITH
  work <- [c \in Checkout |-> [p \in Participants |-> WorkOf(op[c][p])]],
  verdict <- [c \in Checkout |-> VerdictOf(order[c])]

(* Every step of TCC is a step of AtomicCheckout, when statements do not   *)
(* fail.  A saga finishes its work at the first call and makes no such     *)
(* promise.                                                                *)
TccKeepsPromise == [][mode = "tcc" /\ "db" \notin faults => Promise!Step]_vars
==============================================================================
