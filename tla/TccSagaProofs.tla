---------------------------- MODULE TccSagaProofs ----------------------------
(***************************************************************************)
(* Proofs about TccSaga, in both modes, for every set of checkouts, every  *)
(* number of participants and every set of faults.                         *)
(***************************************************************************)
EXTENDS TccSaga, TLAPS

-----------------------------------------------------------------------------
(* The inductive invariant, of one checkout.                               *)

(* The calls of a loop are made one after the other, each when the one     *)
(* before it was answered.                                                 *)
InOrder(c, a) ==
  \A p, q \in Participants : p < q /\ rpc[c][a][q] # "none" => rpc[c][a][p] = "ok"

(* A participant is called to confirm when all have answered the try, and  *)
(* to cancel when it has answered its own and the loops have been left.    *)
CallsAfterTry(c) ==
  \A p \in Participants :
    /\ rpc[c]["confirm"][p] # "none" =>
         mode = "tcc" /\ \A q \in Participants : rpc[c]["try"][q] = "ok"
    /\ rpc[c]["cancel"][p] # "none" =>
         pc[c] \in {"cancel", "REJECTED", "crashed"} /\ rpc[c]["try"][p] = "ok"

(* Every call that a confirmed order needs was answered, none undone.      *)
DoneCalls(c) ==
  \A p \in Participants :
    /\ rpc[c]["try"][p] = "ok"
    /\ mode = "tcc" => rpc[c]["confirm"][p] = "ok"
    /\ rpc[c]["cancel"][p] = "none"

(* The steps after place k of the compensation have been cancelled, but    *)
(* for the last one tried, unless the context ended.                       *)
CancelledDownTo(c, k) ==
  \A q \in Participants :
    k < q /\ Tried(c, q) =>
      Cancelled(c, q) \/ ctx[c] = "dead" \/ \A r \in Participants : r > q => ~Tried(c, r)

(* What the place of the goroutine says about the calls.                   *)
PlaceTellsCalls(c) ==
  /\ pc[c] \in {"start", "error"} =>
       \A a \in Action, p \in Participants : rpc[c][a][p] = "none"
  /\ pc[c] = "try" => \A p \in Participants :
       /\ p < at[c] => rpc[c]["try"][p] = "ok"
       /\ p > at[c] => rpc[c]["try"][p] = "none"
       /\ rpc[c]["confirm"][p] = "none"
  /\ pc[c] = "confirm" =>
       /\ mode = "tcc"
       /\ \A p \in Participants :
            /\ rpc[c]["try"][p] = "ok"
            /\ p < at[c] => rpc[c]["confirm"][p] = "ok"
            /\ p > at[c] => rpc[c]["confirm"][p] = "none"
  /\ pc[c] \in {"enqueued", "CONFIRMED"} => DoneCalls(c)
  /\ pc[c] = "cancel" => \A p \in Participants :
       /\ p <= at[c] => rpc[c]["try"][p] = "ok"
       /\ p < at[c] => rpc[c]["cancel"][p] = "none"
  /\ pc[c] \in {"cancel", "REJECTED"} => CancelledDownTo(c, at[c])
  /\ pc[c] = "REJECTED" => at[c] = 0
  /\ pc[c] = "start" => at[c] = 1
  /\ pc[c] \in {"try", "confirm"} => at[c] >= 1

(* What order and event say about the place and the calls.                 *)
OutcomeTellsPlace(c) ==
  /\ pc[c] = "start" => order[c] = "none"
  /\ order[c] = "CONFIRMED" => pc[c] = "CONFIRMED"
  /\ order[c] = "REJECTED" => pc[c] = "REJECTED"
  /\ event[c] => pc[c] \in {"enqueued", "CONFIRMED", "crashed"} /\ DoneCalls(c)

Reversed(c) ==
  \A p, q \in Participants :
    p < q /\ Cancelled(c, p) /\ Tried(c, q) =>
      Cancelled(c, q) \/ \A r \in Participants : r > q => ~Tried(c, r)

(* A row is there because of a call that was handled.                      *)
RowsTellCalls(c) ==
  \A p \in Participants :
    /\ op[c][p] # "none" => rpc[c]["try"][p] = "ok"
    /\ op[c][p] = "CONFIRM" => rpc[c]["confirm"][p] = "ok"
    /\ op[c][p] = "CANCEL" => rpc[c]["cancel"][p] = "ok"

(* When statements do not fail, a call that was handled left its mark.     *)
CallsTellRows(c) ==
  "db" \notin faults =>
    \A p \in Participants :
      /\ rpc[c]["try"][p] = "ok" => op[c][p] # "none"
      /\ rpc[c]["confirm"][p] = "ok" /\ rpc[c]["cancel"][p] = "none" => op[c][p] = "CONFIRM"
      /\ rpc[c]["cancel"][p] = "ok" =>
           \/ op[c][p] = "CANCEL"
           \/ /\ op[c][p] = "CONFIRM"
              /\ \A q \in Participants : q > p => rpc[c]["confirm"][q] = "none"

Announced(c) ==
  "db" \notin faults =>
    /\ pc[c] = "enqueued" => event[c] \/ ctx[c] = "dead"
    /\ order[c] = "CONFIRMED" => event[c]

ContextLives(c) == "ctx" \notin faults => ctx[c] = "live"

CheckoutInv(c) ==
  /\ InOrder(c, "try") /\ InOrder(c, "confirm") /\ CallsAfterTry(c)
  /\ PlaceTellsCalls(c) /\ OutcomeTellsPlace(c) /\ Reversed(c)
  /\ RowsTellCalls(c) /\ CallsTellRows(c) /\ Announced(c) /\ ContextLives(c)

Inv == TypeOK /\ \A c \in Checkout : CheckoutInv(c)

-----------------------------------------------------------------------------
(* The types.                                                              *)

LEMMA StatusOfType == \A a \in Action : StatusOf(a) \in {"TRY", "CONFIRM", "CANCEL"}
  BY DEF Action, StatusOf

LEMMA SetCallType ==
  ASSUME TypeOK, NEW c \in Checkout, NEW a \in Action, NEW p \in Participants,
         NEW state \in CallState, SetCall(c, a, p, state)
  PROVE  rpc' \in [Checkout -> [Action -> [Participants -> CallState]]]
  BY DEF TypeOK, SetCall

LEMMA EnterType ==
  ASSUME TypeOK, NEW c \in Checkout, NEW loop \in PC, NEW p \in 0..(N + 1),
         Enter(c, loop, p)
  PROVE  TypeOK'
  BY DEF TypeOK, Enter, Goto

LEMMA CoordinatorTypes ==
  ASSUME TypeOK, NEW c \in Checkout, Coordinator(c)
  PROVE  TypeOK'
<1>1. CASE CreateOrder(c)
  BY <1>1 DEF CreateOrder, Goto, TypeOK, PC, Action, Finished, OrderStatus
<1>2. CASE StartConfirm(c)
  <2>1. "confirm" \in PC /\ 1 \in 0..(N + 1)
    BY RequestAssumption DEF PC, Action
  <2> QED BY <1>2, <2>1, EnterType DEF StartConfirm
<1>3. CASE Enqueue(c)
  <2>1. PICK done \in Writes(c) : event' = [event EXCEPT ![c] = @ \/ done]
    BY <1>3 DEF Enqueue
  <2>2. done \in BOOLEAN
    BY DEF Writes, StatementResults
  <2>3. event' \in [Checkout -> BOOLEAN]
    BY <2>1, <2>2 DEF TypeOK
  <2> QED BY <1>3, <2>3 DEF Enqueue, Goto, TypeOK, PC
<1>4. CASE ConfirmOrder(c) \/ RejectOrder(c)
  BY <1>4 DEF ConfirmOrder, RejectOrder, updateOrderStatus, Goto, TypeOK, PC, Finished, OrderStatus
<1>5. ASSUME NEW a \in Action, NEW p \in Participants, PostJSON(c, a, p)
      PROVE  TypeOK'
  BY <1>5, SetCallType DEF PostJSON, CallState, coordinatorVars, TypeOK
<1>6. \A a \in Action, p \in Participants :
        a \in PC /\ After(a, p) \in 0..(N + 1) /\ p - 1 \in 0..(N + 1) /\ N \in 0..(N + 1)
  BY RequestAssumption DEF PC, After, Participants
<1>7. ASSUME NEW a \in Action, NEW p \in Participants, CallSucceeds(c, a, p)
      PROVE  TypeOK'
  BY <1>6, <1>7, EnterType DEF CallSucceeds
<1>8. ASSUME NEW p \in Participants, TryFails(c, p) \/ ConfirmFails(c, p) \/ CancelFails(c, p)
      PROVE  TypeOK'
  <2>1. "cancel" \in PC /\ "try" \in Action
    BY DEF PC, Action
  <2>2. Enter(c, "cancel", p - 1) \/ Enter(c, "cancel", N)
    BY <1>8 DEF TryFails, ConfirmFails, CancelFails, FailsTo
  <2> QED BY <1>6, <2>1, <2>2, EnterType
<1> QED BY <1>1, <1>2, <1>3, <1>4, <1>5, <1>7, <1>8 DEF Coordinator

LEMMA UpsertTypes ==
  ASSUME TypeOK, NEW c \in Checkout, NEW a \in Action, NEW p \in Participants, Upsert(c, a, p)
  PROVE  TypeOK'
<1>1. rpc' \in [Checkout -> [Action -> [Participants -> CallState]]]
  BY SetCallType DEF Upsert, CallState
<1>2. StatusOf(a) \in OpStatus
  BY StatusOfType DEF OpStatus
<1>3. op' \in [Checkout -> [Participants -> OpStatus]]
  BY <1>2 DEF Upsert, TypeOK
<1> QED BY <1>1, <1>3 DEF Upsert, coordinatorVars, TypeOK

LEMMA LoseCallTypes ==
  ASSUME TypeOK, NEW c \in Checkout, NEW a \in Action, NEW p \in Participants, LoseCall(c, a, p)
  PROVE  TypeOK'
<1>1. rpc' \in [Checkout -> [Action -> [Participants -> CallState]]]
  BY SetCallType DEF LoseCall, CallState
<1> QED BY <1>1 DEF LoseCall, coordinatorVars, TypeOK

LEMMA NextTypes == TypeOK /\ [Next]_vars => TypeOK'
<1> SUFFICES ASSUME TypeOK, [Next]_vars PROVE TypeOK'
  OBVIOUS
<1>1. ASSUME NEW c \in Checkout, ExpireCtx(c) PROVE TypeOK'
  BY <1>1 DEF ExpireCtx, TypeOK
<1>2. ASSUME NEW c \in Checkout, Crash(c) PROVE TypeOK'
  BY <1>2 DEF Crash, Goto, TypeOK, PC, Finished
<1>3. CASE UNCHANGED vars \/ Terminated
  BY <1>3 DEF vars, Terminated, TypeOK
<1> QED BY <1>1, <1>2, <1>3, CoordinatorTypes, UpsertTypes, LoseCallTypes DEF Next

LEMMA InitTypes == Init => TypeOK
  BY RequestAssumption DEF Init, TypeOK, CallState, OpStatus, OrderStatus, PC

-----------------------------------------------------------------------------
(* What the steps change.                                                  *)

FlagsStay == mode' = mode /\ faults' = faults
RowsStay(c) == op'[c] = op[c]
OutcomeStays(c) == order'[c] = order[c] /\ event'[c] = event[c]
PlaceStays(c) == pc'[c] = pc[c] /\ at'[c] = at[c]

(* Nothing changes for checkout d.                                         *)
Stays(d) ==
  /\ rpc'[d] = rpc[d] /\ ctx'[d] = ctx[d]
  /\ RowsStay(d) /\ OutcomeStays(d) /\ PlaceStays(d)

OthersStay(c) == FlagsStay /\ \A d \in Checkout \ {c} : Stays(d)

(* Only the call (a, p) changes.                                           *)
CallMoves(c, a, p) ==
  \A b \in Action, q \in Participants : (b = a /\ q = p) \/ rpc'[c][b][q] = rpc[c][b][q]

(* The call is sent.                                                       *)
Sends(c, a, p) ==
  /\ pc[c] = a /\ at[c] = p /\ ctx[c] = "live"
  /\ rpc[c][a][p] = "none" /\ rpc'[c][a][p] = "open"
  /\ CallMoves(c, a, p) /\ ctx'[c] = ctx[c]
  /\ RowsStay(c) /\ OutcomeStays(c) /\ PlaceStays(c)

(* The call is lost.                                                       *)
Loses(c, a, p) ==
  /\ rpc[c][a][p] = "open" /\ rpc'[c][a][p] = "lost"
  /\ CallMoves(c, a, p) /\ ctx'[c] = ctx[c]
  /\ RowsStay(c) /\ OutcomeStays(c) /\ PlaceStays(c)

(* The call is handled.                                                    *)
Handles(c, a, p) ==
  /\ rpc[c][a][p] = "open" /\ rpc'[c][a][p] = "ok"
  /\ CallMoves(c, a, p) /\ ctx'[c] = ctx[c]
  /\ \A q \in Participants : q = p \/ op'[c][q] = op[c][q]
  /\ op'[c][p] = StatusOf(a) \/ ("db" \in faults /\ op'[c][p] = op[c][p])
  /\ OutcomeStays(c) /\ PlaceStays(c)

(* The goroutine goes to place k of a loop.                                *)
Walks(c, loop, k) ==
  /\ pc'[c] = loop /\ at'[c] = k
  /\ rpc'[c] = rpc[c] /\ ctx'[c] = ctx[c]
  /\ RowsStay(c) /\ OutcomeStays(c)

(* The goroutine goes on to label, and may have written order and event.   *)
Writing(c, label) ==
  /\ pc'[c] = label /\ at'[c] = at[c]
  /\ rpc'[c] = rpc[c] /\ ctx'[c] = ctx[c]
  /\ RowsStay(c)

LEMMA SendEffect ==
  ASSUME TypeOK, NEW c \in Checkout, NEW a \in Action, NEW p \in Participants, PostJSON(c, a, p)
  PROVE  Sends(c, a, p) /\ OthersStay(c)
  BY DEF PostJSON, Calling, SetCall, TypeOK, coordinatorVars, Sends, OthersStay, FlagsStay,
         CallMoves, Stays, RowsStay, OutcomeStays, PlaceStays

LEMMA LoseEffect ==
  ASSUME TypeOK, NEW c \in Checkout, NEW a \in Action, NEW p \in Participants, LoseCall(c, a, p)
  PROVE  Loses(c, a, p) /\ OthersStay(c)
  BY DEF LoseCall, SetCall, TypeOK, coordinatorVars, Loses, OthersStay, FlagsStay,
         CallMoves, Stays, RowsStay, OutcomeStays, PlaceStays

LEMMA HandleEffect ==
  ASSUME TypeOK, NEW c \in Checkout, NEW a \in Action, NEW p \in Participants, Upsert(c, a, p)
  PROVE  Handles(c, a, p) /\ OthersStay(c)
<1>1. PICK done \in StatementResults :
        op' = [op EXCEPT ![c][p] = IF done THEN StatusOf(a) ELSE @]
  BY DEF Upsert
<1>2. done = TRUE \/ (done = FALSE /\ "db" \in faults)
  BY DEF StatementResults
<1>3. /\ \A d \in Checkout \ {c} : op'[d] = op[d]
      /\ \A q \in Participants : q = p \/ op'[c][q] = op[c][q]
      /\ op'[c][p] = StatusOf(a) \/ ("db" \in faults /\ op'[c][p] = op[c][p])
  BY <1>1, <1>2 DEF TypeOK
<1>4. /\ rpc[c][a][p] = "open" /\ rpc'[c][a][p] = "ok" /\ CallMoves(c, a, p)
      /\ \A d \in Checkout \ {c} : rpc'[d] = rpc[d]
  BY DEF Upsert, SetCall, TypeOK, CallMoves
<1> QED BY <1>3, <1>4 DEF Upsert, coordinatorVars, Handles, OthersStay, FlagsStay, Stays,
                         RowsStay, OutcomeStays, PlaceStays

LEMMA EnterEffect ==
  ASSUME TypeOK, NEW c \in Checkout, NEW loop, NEW k, Enter(c, loop, k)
  PROVE  Walks(c, loop, k) /\ OthersStay(c)
  BY DEF Enter, Goto, TypeOK, Walks, OthersStay, FlagsStay, Stays, RowsStay, OutcomeStays,
         PlaceStays

(* A write with a live context takes effect if statements do not fail.     *)
LEMMA WritesEffect ==
  ASSUME NEW c \in Checkout
  PROVE  /\ Writes(c) \subseteq BOOLEAN
         /\ TRUE \in Writes(c) => ctx[c] # "dead"
         /\ FALSE \in Writes(c) => ctx[c] = "dead" \/ "db" \in faults
  BY DEF Writes, StatementResults

LEMMA EnqueueEffect ==
  ASSUME TypeOK, NEW c \in Checkout, Enqueue(c)
  PROVE  /\ Writing(c, "enqueued") /\ OthersStay(c)
         /\ LoopsDone(c) /\ order'[c] = order[c]
         /\ event'[c] \in BOOLEAN /\ (event[c] => event'[c])
         /\ event'[c] \/ ctx[c] = "dead" \/ "db" \in faults
<1>1. PICK done \in Writes(c) : event' = [event EXCEPT ![c] = @ \/ done]
  BY DEF Enqueue
<1>2. done \in BOOLEAN /\ (~done => ctx[c] = "dead" \/ "db" \in faults)
  BY WritesEffect
<1>3. /\ \A d \in Checkout \ {c} : event'[d] = event[d]
      /\ event'[c] = (event[c] \/ done)
  BY <1>1 DEF TypeOK
<1>4. event[c] \in BOOLEAN
  BY DEF TypeOK
<1>5. Writing(c, "enqueued") /\ OthersStay(c) /\ LoopsDone(c) /\ order'[c] = order[c]
  BY <1>3 DEF Enqueue, Goto, TypeOK, Writing, OthersStay, FlagsStay, Stays, RowsStay,
              OutcomeStays, PlaceStays
<1> QED BY <1>2, <1>3, <1>4, <1>5

(* The order and the goroutine after one of the two last updates.          *)
LEMMA SettleEffect ==
  ASSUME TypeOK, NEW c \in Checkout, NEW st \in {"CONFIRMED", "REJECTED"},
         updateOrderStatus(c, st), Goto(c, st), UNCHANGED <<rpc, op, event, at, ctx, mode, faults>>
  PROVE  /\ Writing(c, st) /\ OthersStay(c) /\ event'[c] = event[c]
         /\ order'[c] = order[c] \/ (order'[c] = st /\ ctx[c] # "dead")
<1>1. PICK done \in Writes(c) : order' = [order EXCEPT ![c] = IF done THEN st ELSE @]
  BY DEF updateOrderStatus
<1>2. done \in BOOLEAN /\ (done => ctx[c] # "dead")
  BY WritesEffect
<1>3. /\ \A d \in Checkout \ {c} : order'[d] = order[d]
      /\ order'[c] = IF done THEN st ELSE order[c]
  BY <1>1 DEF TypeOK
<1>4. Writing(c, st) /\ OthersStay(c) /\ event'[c] = event[c]
  BY <1>3 DEF Goto, TypeOK, Writing, OthersStay, FlagsStay, Stays, RowsStay, OutcomeStays,
              PlaceStays
<1> QED BY <1>2, <1>3, <1>4

LEMMA CreateEffect ==
  ASSUME TypeOK, NEW c \in Checkout, CreateOrder(c)
  PROVE  /\ pc[c] = "start" /\ \E label \in {"try", "error"} : Writing(c, label)
         /\ OthersStay(c) /\ event'[c] = event[c]
         /\ order'[c] \in {order[c], "PROCESSING"}
  BY DEF CreateOrder, Goto, TypeOK, Writing, OthersStay, FlagsStay, Stays, RowsStay,
         OutcomeStays, PlaceStays

-----------------------------------------------------------------------------
(* The invariant is inductive.                                             *)

LEMMA InvOfOthers ==
  ASSUME NEW d \in Checkout, CheckoutInv(d), FlagsStay, Stays(d)
  PROVE  CheckoutInv(d)'
<1> USE DEF FlagsStay, Stays, RowsStay, OutcomeStays, PlaceStays
<1>1. InOrder(d, "try")' /\ InOrder(d, "confirm")' /\ CallsAfterTry(d)'
  BY DEF CheckoutInv, InOrder, CallsAfterTry
<1>2. PlaceTellsCalls(d)'
  BY DEF CheckoutInv, PlaceTellsCalls, DoneCalls, CancelledDownTo, Tried, Cancelled
<1>3. OutcomeTellsPlace(d)' /\ Reversed(d)'
  BY DEF CheckoutInv, OutcomeTellsPlace, DoneCalls, Reversed, Tried, Cancelled
<1>4. RowsTellCalls(d)' /\ CallsTellRows(d)' /\ Announced(d)' /\ ContextLives(d)'
  BY DEF CheckoutInv, RowsTellCalls, CallsTellRows, Announced, ContextLives
<1> QED BY <1>1, <1>2, <1>3, <1>4 DEF CheckoutInv

LEMMA InitInv == Init => Inv
<1> SUFFICES ASSUME Init PROVE Inv
  OBVIOUS
<1> SUFFICES ASSUME NEW c \in Checkout PROVE CheckoutInv(c)
  BY InitTypes DEF Inv
<1>1. /\ \A a \in Action, p \in Participants : rpc[c][a][p] = "none"
      /\ \A p \in Participants : op[c][p] = "none"
      /\ order[c] = "none" /\ event[c] = FALSE
      /\ pc[c] = "start" /\ at[c] = 1 /\ ctx[c] = "live"
  BY DEF Init
<1>2. "try" \in Action /\ "confirm" \in Action /\ "cancel" \in Action
  BY DEF Action
<1> QED BY <1>1, <1>2
        DEF CheckoutInv, InOrder, CallsAfterTry, PlaceTellsCalls, OutcomeTellsPlace, Reversed,
            RowsTellCalls, CallsTellRows, Announced, ContextLives, Tried, Cancelled

LEMMA SendKeepsInv ==
  ASSUME Inv, NEW c \in Checkout, NEW a \in Action, NEW p \in Participants,
         FlagsStay, Sends(c, a, p)
  PROVE  CheckoutInv(c)'
<1> USE DEF FlagsStay, Sends, RowsStay, OutcomeStays, PlaceStays
<1>0. CheckoutInv(c) /\ N \in Nat /\ (a = "try" \/ a = "confirm" \/ a = "cancel")
  BY RequestAssumption DEF Inv, Action
<1>1. \A b \in Action, q \in Participants :
        /\ rpc[c][b][q] # "none" => rpc'[c][b][q] = rpc[c][b][q]
        /\ rpc'[c][b][q] = "ok" => rpc[c][b][q] = "ok"
        /\ rpc'[c][b][q] = "none" => rpc[c][b][q] = "none"
        /\ (b = a /\ q = p) \/ rpc'[c][b][q] = rpc[c][b][q]
  BY DEF CallMoves
<1>2. "try" \in Action /\ "confirm" \in Action /\ "cancel" \in Action
  BY DEF Action
<1>3. InOrder(c, "try")' /\ InOrder(c, "confirm")'
  BY <1>0, <1>1, <1>2 DEF CheckoutInv, InOrder, PlaceTellsCalls, Participants
<1>4. CallsAfterTry(c)'
  BY <1>0, <1>1, <1>2 DEF CheckoutInv, CallsAfterTry, PlaceTellsCalls, Participants
<1>5. Reversed(c)'
  BY <1>0, <1>1, <1>2 DEF CheckoutInv, Reversed, CallsAfterTry, PlaceTellsCalls,
     CancelledDownTo, Tried, Cancelled, Participants
<1>6. PlaceTellsCalls(c)'
  BY <1>0, <1>1, <1>2 DEF CheckoutInv, CallsAfterTry, PlaceTellsCalls, DoneCalls,
     CancelledDownTo, Tried, Cancelled, Participants
<1>7. OutcomeTellsPlace(c)' /\ RowsTellCalls(c)' /\ Announced(c)' /\ ContextLives(c)'
  BY <1>0, <1>1, <1>2 DEF CheckoutInv, OutcomeTellsPlace, DoneCalls, RowsTellCalls,
     Announced, ContextLives
<1>8. CallsTellRows(c)'
  BY <1>0, <1>1, <1>2 DEF CheckoutInv, CallsTellRows, CallsAfterTry
<1> QED BY <1>3, <1>4, <1>5, <1>6, <1>7, <1>8 DEF CheckoutInv

LEMMA LoseKeepsInv ==
  ASSUME Inv, NEW c \in Checkout, NEW a \in Action, NEW p \in Participants,
         FlagsStay, Loses(c, a, p)
  PROVE  CheckoutInv(c)'
<1> USE DEF FlagsStay, Loses, RowsStay, OutcomeStays, PlaceStays
<1>0. CheckoutInv(c)
  BY DEF Inv
<1>1. \A b \in Action, q \in Participants :
        /\ rpc'[c][b][q] = "ok" <=> rpc[c][b][q] = "ok"
        /\ rpc'[c][b][q] = "none" <=> rpc[c][b][q] = "none"
  BY DEF CallMoves
<1>2. "try" \in Action /\ "confirm" \in Action /\ "cancel" \in Action
  BY DEF Action
<1>3. InOrder(c, "try")' /\ InOrder(c, "confirm")' /\ CallsAfterTry(c)' /\ Reversed(c)'
  BY <1>0, <1>1, <1>2 DEF CheckoutInv, InOrder, CallsAfterTry, Reversed, Tried, Cancelled
<1>4. PlaceTellsCalls(c)'
  BY <1>0, <1>1, <1>2 DEF CheckoutInv, PlaceTellsCalls, DoneCalls,
     CancelledDownTo, Tried, Cancelled
<1>5. OutcomeTellsPlace(c)' /\ RowsTellCalls(c)' /\ Announced(c)' /\ ContextLives(c)'
  BY <1>0, <1>1, <1>2 DEF CheckoutInv, OutcomeTellsPlace, DoneCalls, RowsTellCalls,
     Announced, ContextLives
<1>6. CallsTellRows(c)'
  BY <1>0, <1>1, <1>2 DEF CheckoutInv, CallsTellRows
<1> QED BY <1>3, <1>4, <1>5, <1>6 DEF CheckoutInv

LEMMA HandleKeepsInv ==
  ASSUME Inv, NEW c \in Checkout, NEW a \in Action, NEW p \in Participants,
         FlagsStay, Handles(c, a, p)
  PROVE  CheckoutInv(c)'
<1> USE DEF FlagsStay, Handles, OutcomeStays, PlaceStays
<1>0. CheckoutInv(c) /\ N \in Nat /\ (a = "try" \/ a = "confirm" \/ a = "cancel")
  BY RequestAssumption DEF Inv, Action
<1>1. \A b \in Action, q \in Participants :
        /\ rpc[c][b][q] = "ok" => rpc'[c][b][q] = "ok"
        /\ rpc'[c][b][q] = "none" <=> rpc[c][b][q] = "none"
        /\ (b = a /\ q = p) \/ rpc'[c][b][q] = rpc[c][b][q]
  BY DEF CallMoves
<1>2. "try" \in Action /\ "confirm" \in Action /\ "cancel" \in Action
  BY DEF Action
<1>3. /\ a = "try" => StatusOf(a) = "TRY"
      /\ a = "confirm" => StatusOf(a) = "CONFIRM"
      /\ a = "cancel" => StatusOf(a) = "CANCEL"
  BY DEF StatusOf
<1>4. InOrder(c, "try")' /\ InOrder(c, "confirm")' /\ CallsAfterTry(c)' /\ Reversed(c)'
  BY <1>0, <1>1, <1>2 DEF CheckoutInv, InOrder, CallsAfterTry, Reversed, Tried, Cancelled
<1>5. PlaceTellsCalls(c)'
  BY <1>0, <1>1, <1>2 DEF CheckoutInv, PlaceTellsCalls, DoneCalls,
     CancelledDownTo, Tried, Cancelled
<1>6. OutcomeTellsPlace(c)' /\ Announced(c)' /\ ContextLives(c)'
  BY <1>0, <1>1, <1>2 DEF CheckoutInv, OutcomeTellsPlace, DoneCalls, Announced, ContextLives
<1>7. RowsTellCalls(c)'
  BY <1>0, <1>1, <1>2, <1>3 DEF CheckoutInv, RowsTellCalls, CallsAfterTry
<1>8. CallsTellRows(c)'
  BY <1>0, <1>1, <1>2, <1>3 DEF CheckoutInv, CallsTellRows, CallsAfterTry, InOrder, Participants
<1> QED BY <1>4, <1>5, <1>6, <1>7, <1>8 DEF CheckoutInv

(* A step that neither calls nor handles disturbs four conjuncts only.     *)
LEMMA QuietStep ==
  ASSUME NEW c \in Checkout, CheckoutInv(c), FlagsStay, rpc'[c] = rpc[c], RowsStay(c),
         ctx'[c] = ctx[c] \/ (ctx'[c] = "dead" /\ "ctx" \in faults),
         CallsAfterTry(c)', PlaceTellsCalls(c)', OutcomeTellsPlace(c)', Announced(c)'
  PROVE  CheckoutInv(c)'
  BY DEF CheckoutInv, FlagsStay, RowsStay, InOrder, Reversed, Tried, Cancelled, RowsTellCalls,
         CallsTellRows, ContextLives

(* The goroutine goes to its next place in a loop.                         *)
LEMMA WalkKeepsInv ==
  ASSUME Inv, NEW c \in Checkout, NEW loop, NEW k, FlagsStay, Walks(c, loop, k),
         loop \in Action, pc[c] \in Action, pc[c] = "cancel" => loop = "cancel",
         PlaceTellsCalls(c)'
  PROVE  CheckoutInv(c)'
<1> USE DEF FlagsStay, Walks, RowsStay, OutcomeStays
<1>0. CheckoutInv(c) /\ N \in Nat
  BY RequestAssumption DEF Inv
<1>1. CallsAfterTry(c)'
  BY <1>0 DEF CheckoutInv, CallsAfterTry, Action
<1>2. OutcomeTellsPlace(c)' /\ Announced(c)'
  BY <1>0 DEF CheckoutInv, OutcomeTellsPlace, Announced, Action
<1> QED BY <1>0, <1>1, <1>2, QuietStep

LEMMA SucceedKeepsInv ==
  ASSUME Inv, NEW c \in Checkout, NEW a \in Action, NEW p \in Participants,
         FlagsStay, Walks(c, a, After(a, p)), Calling(c, a, p), rpc[c][a][p] = "ok"
  PROVE  CheckoutInv(c)'
<1> USE DEF FlagsStay, Walks, RowsStay, OutcomeStays, Calling
<1>0. CheckoutInv(c) /\ N \in Nat
  BY RequestAssumption DEF Inv
<1>1. "try" \in Action /\ "confirm" \in Action /\ "cancel" \in Action
  BY DEF Action
<1>2. PlaceTellsCalls(c)'
  <2>1. CASE a = "try"
    BY <1>0, <1>1, <2>1 DEF CheckoutInv, PlaceTellsCalls, After, Participants
  <2>2. CASE a = "confirm"
    BY <1>0, <1>1, <2>2 DEF CheckoutInv, PlaceTellsCalls, After, Participants
  <2>3. CASE a = "cancel"
    BY <1>0, <1>1, <2>3 DEF CheckoutInv, PlaceTellsCalls, After, Participants,
       CancelledDownTo, Tried, Cancelled
  <2> QED BY <2>1, <2>2, <2>3 DEF Action
<1> QED BY <1>2, WalkKeepsInv

LEMMA FailKeepsInv ==
  ASSUME Inv, NEW c \in Checkout, NEW p \in Participants,
         TryFails(c, p) \/ ConfirmFails(c, p) \/ CancelFails(c, p)
  PROVE  CheckoutInv(c)' /\ OthersStay(c)
<1>0. CheckoutInv(c) /\ N \in Nat /\ TypeOK
  BY RequestAssumption DEF Inv
<1>1. "try" \in Action /\ "confirm" \in Action /\ "cancel" \in Action
  BY DEF Action
<1>2. CASE TryFails(c, p)
  <2>1. Calling(c, "try", p) /\ Enter(c, "cancel", p - 1)
    BY <1>2 DEF TryFails, FailsTo
  <2>2. Walks(c, "cancel", p - 1) /\ OthersStay(c)
    BY <1>0, <2>1, EnterEffect
  <2>3. PlaceTellsCalls(c)'
    BY <1>0, <1>1, <2>1, <2>2 DEF CheckoutInv, PlaceTellsCalls, CallsAfterTry, CancelledDownTo,
       Tried, Cancelled, Participants, Calling, Walks, OthersStay, FlagsStay
  <2> QED BY <1>1, <2>1, <2>2, <2>3, WalkKeepsInv DEF Calling, OthersStay
<1>3. CASE ConfirmFails(c, p)
  <2>1. Calling(c, "confirm", p) /\ Enter(c, "cancel", N)
    BY <1>3 DEF ConfirmFails, FailsTo
  <2>2. Walks(c, "cancel", N) /\ OthersStay(c)
    BY <1>0, <2>1, EnterEffect
  <2>3. PlaceTellsCalls(c)'
    BY <1>0, <1>1, <2>1, <2>2 DEF CheckoutInv, PlaceTellsCalls, CallsAfterTry, CancelledDownTo,
       Tried, Cancelled, Participants, Calling, Walks, OthersStay, FlagsStay
  <2> QED BY <1>1, <2>1, <2>2, <2>3, WalkKeepsInv DEF Calling, OthersStay
<1>4. CASE CancelFails(c, p)
  <2>1. Calling(c, "cancel", p) /\ Enter(c, "cancel", p - 1) /\ CallError(c, "cancel", p)
    BY <1>4 DEF CancelFails, FailsTo
  <2>2. Walks(c, "cancel", p - 1) /\ OthersStay(c)
    BY <1>0, <2>1, EnterEffect
  <2>3. ctx[c] = "dead" \/ Cancelled(c, p)
    BY <1>0, <2>1 DEF CallError, Cancelled, TypeOK, CallState
  <2>4. PlaceTellsCalls(c)'
    BY <1>0, <1>1, <2>1, <2>2, <2>3 DEF CheckoutInv, PlaceTellsCalls, CallsAfterTry,
       CancelledDownTo, Tried, Cancelled, Participants, Calling, Walks, OthersStay, FlagsStay
  <2> QED BY <1>1, <2>1, <2>2, <2>4, WalkKeepsInv DEF Calling, OthersStay
<1> QED BY <1>2, <1>3, <1>4

LEMMA StartConfirmKeepsInv ==
  ASSUME Inv, NEW c \in Checkout, StartConfirm(c)
  PROVE  CheckoutInv(c)' /\ OthersStay(c)
<1>0. CheckoutInv(c) /\ N \in Nat /\ TypeOK
  BY RequestAssumption DEF Inv
<1>1. "try" \in Action /\ "confirm" \in Action /\ "cancel" \in Action
  BY DEF Action
<1>2. Walks(c, "confirm", 1) /\ OthersStay(c)
  BY <1>0, EnterEffect DEF StartConfirm
<1>3. PlaceTellsCalls(c)'
  BY <1>0, <1>1, <1>2 DEF StartConfirm, CheckoutInv, PlaceTellsCalls, Participants, Walks,
     OthersStay, FlagsStay
<1> QED BY <1>1, <1>2, <1>3, WalkKeepsInv DEF StartConfirm, OthersStay

LEMMA EnqueueKeepsInv ==
  ASSUME Inv, NEW c \in Checkout, Enqueue(c)
  PROVE  CheckoutInv(c)' /\ OthersStay(c)
<1>0. CheckoutInv(c) /\ N \in Nat /\ TypeOK
  BY RequestAssumption DEF Inv
<1>1. /\ Writing(c, "enqueued") /\ OthersStay(c)
      /\ LoopsDone(c) /\ order'[c] = order[c]
      /\ event'[c] \in BOOLEAN /\ (event[c] => event'[c])
      /\ event'[c] \/ ctx[c] = "dead" \/ "db" \in faults
  BY <1>0, EnqueueEffect
<1>2. "try" \in Action /\ "confirm" \in Action /\ "cancel" \in Action
  BY DEF Action
<1> USE DEF Writing, OthersStay, FlagsStay, RowsStay
<1>3. (pc[c] = "try" \/ pc[c] = "confirm") /\ at[c] = N + 1
  BY <1>1 DEF LoopsDone
<1>4. DoneCalls(c)
  BY <1>0, <1>1, <1>2, <1>3
     DEF LoopsDone, CheckoutInv, PlaceTellsCalls, CallsAfterTry, DoneCalls, Participants
<1>5. DoneCalls(c)'
  BY <1>1, <1>4 DEF DoneCalls
<1>6. CallsAfterTry(c)' /\ PlaceTellsCalls(c)'
  BY <1>0, <1>1, <1>3, <1>5 DEF CheckoutInv, CallsAfterTry, PlaceTellsCalls
<1>7. OutcomeTellsPlace(c)' /\ Announced(c)'
  BY <1>0, <1>1, <1>3, <1>5 DEF CheckoutInv, OutcomeTellsPlace, Announced
<1> QED BY <1>0, <1>1, <1>6, <1>7, QuietStep

LEMMA SettleKeepsInv ==
  ASSUME Inv, NEW c \in Checkout, ConfirmOrder(c) \/ RejectOrder(c)
  PROVE  CheckoutInv(c)' /\ OthersStay(c)
<1>0. CheckoutInv(c) /\ N \in Nat /\ TypeOK
  BY RequestAssumption DEF Inv
<1>1. "try" \in Action /\ "confirm" \in Action /\ "cancel" \in Action
  BY DEF Action
<1>2. CASE ConfirmOrder(c)
  <2>1. /\ Writing(c, "CONFIRMED") /\ OthersStay(c) /\ event'[c] = event[c]
        /\ order'[c] = order[c] \/ (order'[c] = "CONFIRMED" /\ ctx[c] # "dead")
    BY <1>0, <1>2, SettleEffect DEF ConfirmOrder
  <2>2. pc[c] = "enqueued"
    BY <1>2 DEF ConfirmOrder
  <2> USE DEF Writing, OthersStay, FlagsStay, RowsStay
  <2>3. DoneCalls(c) /\ DoneCalls(c)'
    BY <1>0, <2>1, <2>2 DEF CheckoutInv, PlaceTellsCalls, DoneCalls
  <2>4. CallsAfterTry(c)' /\ PlaceTellsCalls(c)'
    BY <1>0, <2>1, <2>2, <2>3 DEF CheckoutInv, CallsAfterTry, PlaceTellsCalls
  <2>5. OutcomeTellsPlace(c)' /\ Announced(c)'
    BY <1>0, <2>1, <2>2, <2>3 DEF CheckoutInv, OutcomeTellsPlace, Announced
  <2> QED BY <1>0, <2>1, <2>4, <2>5, QuietStep
<1>3. CASE RejectOrder(c)
  <2>1. /\ Writing(c, "REJECTED") /\ OthersStay(c) /\ event'[c] = event[c]
        /\ order'[c] = order[c] \/ (order'[c] = "REJECTED" /\ ctx[c] # "dead")
    BY <1>0, <1>3, SettleEffect DEF RejectOrder
  <2>2. pc[c] = "cancel" /\ at[c] = 0
    BY <1>3 DEF RejectOrder
  <2> USE DEF Writing, OthersStay, FlagsStay, RowsStay
  <2>3. CallsAfterTry(c)' /\ PlaceTellsCalls(c)'
    BY <1>0, <2>1, <2>2 DEF CheckoutInv, CallsAfterTry, PlaceTellsCalls, CancelledDownTo,
       Tried, Cancelled
  <2>4. OutcomeTellsPlace(c)' /\ Announced(c)'
    BY <1>0, <2>1, <2>2 DEF CheckoutInv, OutcomeTellsPlace, Announced
  <2> QED BY <1>0, <2>1, <2>3, <2>4, QuietStep
<1> QED BY <1>2, <1>3

LEMMA CreateKeepsInv ==
  ASSUME Inv, NEW c \in Checkout, CreateOrder(c)
  PROVE  CheckoutInv(c)' /\ OthersStay(c)
<1>0. CheckoutInv(c) /\ N \in Nat /\ TypeOK
  BY RequestAssumption DEF Inv
<1>1. /\ pc[c] = "start" /\ \E label \in {"try", "error"} : Writing(c, label)
      /\ OthersStay(c) /\ event'[c] = event[c]
      /\ order'[c] \in {order[c], "PROCESSING"}
  BY <1>0, CreateEffect
<1>2. "try" \in Action /\ "confirm" \in Action /\ "cancel" \in Action
  BY DEF Action
<1> USE DEF Writing, OthersStay, FlagsStay, RowsStay
<1>3. CallsAfterTry(c)' /\ PlaceTellsCalls(c)'
  BY <1>0, <1>1, <1>2 DEF CheckoutInv, CallsAfterTry, PlaceTellsCalls, Participants
<1>4. OutcomeTellsPlace(c)' /\ Announced(c)'
  BY <1>0, <1>1 DEF CheckoutInv, OutcomeTellsPlace, Announced
<1> QED BY <1>0, <1>1, <1>3, <1>4, QuietStep

LEMMA StopKeepsInv ==
  ASSUME Inv, NEW c \in Checkout, ExpireCtx(c) \/ Crash(c)
  PROVE  CheckoutInv(c)' /\ OthersStay(c)
<1>0. CheckoutInv(c) /\ TypeOK
  BY DEF Inv
<1>1. CASE ExpireCtx(c)
  <2>1. ctx'[c] = "dead" /\ "ctx" \in faults
    BY <1>0, <1>1 DEF ExpireCtx, TypeOK
  <2>2. /\ OthersStay(c) /\ rpc'[c] = rpc[c] /\ RowsStay(c) /\ OutcomeStays(c)
        /\ PlaceStays(c)
    BY <1>0, <1>1 DEF ExpireCtx, TypeOK, OthersStay, FlagsStay, Stays, RowsStay, OutcomeStays,
       PlaceStays
  <2> USE DEF OthersStay, FlagsStay, RowsStay, OutcomeStays, PlaceStays
  <2>3. CallsAfterTry(c)' /\ PlaceTellsCalls(c)'
    BY <1>0, <2>1, <2>2 DEF CheckoutInv, CallsAfterTry, PlaceTellsCalls, DoneCalls,
       CancelledDownTo, Tried, Cancelled
  <2>4. OutcomeTellsPlace(c)' /\ Announced(c)'
    BY <1>0, <2>1, <2>2 DEF CheckoutInv, OutcomeTellsPlace, DoneCalls, Announced
  <2> QED BY <1>0, <2>1, <2>2, <2>3, <2>4, QuietStep
<1>2. CASE Crash(c)
  <2>1. Writing(c, "crashed") /\ OthersStay(c) /\ OutcomeStays(c) /\ pc[c] \notin Finished
    BY <1>0, <1>2 DEF Crash, Goto, TypeOK, Writing, OthersStay, FlagsStay, Stays, RowsStay,
       OutcomeStays, PlaceStays
  <2> USE DEF Writing, OthersStay, FlagsStay, RowsStay, OutcomeStays
  <2>2. CallsAfterTry(c)' /\ PlaceTellsCalls(c)'
    BY <1>0, <2>1 DEF CheckoutInv, CallsAfterTry, PlaceTellsCalls
  <2>3. OutcomeTellsPlace(c)' /\ Announced(c)'
    BY <1>0, <2>1 DEF CheckoutInv, OutcomeTellsPlace, DoneCalls, Announced, Finished
  <2> QED BY <1>0, <2>1, <2>2, <2>3, QuietStep
<1> QED BY <1>1, <1>2

LEMMA StepKeepsInv ==
  ASSUME Inv, NEW c \in Checkout,
         \/ Coordinator(c) \/ ExpireCtx(c) \/ Crash(c)
         \/ \E a \in Action, p \in Participants : Upsert(c, a, p) \/ LoseCall(c, a, p)
  PROVE  CheckoutInv(c)' /\ OthersStay(c)
<1>0. TypeOK
  BY DEF Inv
<1>1. ASSUME NEW a \in Action, NEW p \in Participants, PostJSON(c, a, p)
      PROVE  CheckoutInv(c)' /\ OthersStay(c)
  BY <1>0, <1>1, SendEffect, SendKeepsInv DEF OthersStay
<1>2. ASSUME NEW a \in Action, NEW p \in Participants, CallSucceeds(c, a, p)
      PROVE  CheckoutInv(c)' /\ OthersStay(c)
  <2>1. Calling(c, a, p) /\ rpc[c][a][p] = "ok" /\ Enter(c, a, After(a, p))
    BY <1>2 DEF CallSucceeds
  <2>2. Walks(c, a, After(a, p)) /\ OthersStay(c)
    BY <1>0, <2>1, EnterEffect
  <2> QED BY <2>1, <2>2, SucceedKeepsInv DEF OthersStay
<1>3. ASSUME NEW a \in Action, NEW p \in Participants, Upsert(c, a, p)
      PROVE  CheckoutInv(c)' /\ OthersStay(c)
  BY <1>0, <1>3, HandleEffect, HandleKeepsInv DEF OthersStay
<1>4. ASSUME NEW a \in Action, NEW p \in Participants, LoseCall(c, a, p)
      PROVE  CheckoutInv(c)' /\ OthersStay(c)
  BY <1>0, <1>4, LoseEffect, LoseKeepsInv DEF OthersStay
<1> QED BY <1>1, <1>2, <1>3, <1>4, CreateKeepsInv, StartConfirmKeepsInv, EnqueueKeepsInv,
        SettleKeepsInv, FailKeepsInv, StopKeepsInv DEF Coordinator

LEMMA NextInv == Inv /\ [Next]_vars => Inv'
<1> SUFFICES ASSUME Inv, [Next]_vars PROVE Inv'
  OBVIOUS
<1>1. TypeOK'
  BY NextTypes DEF Inv
<1>2. CASE UNCHANGED vars \/ Terminated
  <2>1. FlagsStay /\ \A d \in Checkout : Stays(d)
    BY <1>2 DEF vars, Terminated, FlagsStay, Stays, RowsStay, OutcomeStays, PlaceStays
  <2> QED BY <1>1, <2>1, InvOfOthers DEF Inv
<1>3. ASSUME NEW c \in Checkout,
             \/ Coordinator(c) \/ ExpireCtx(c) \/ Crash(c)
             \/ \E a \in Action, p \in Participants : Upsert(c, a, p) \/ LoseCall(c, a, p)
      PROVE  Inv'
  <2>1. CheckoutInv(c)' /\ OthersStay(c)
    BY <1>3, StepKeepsInv
  <2>2. ASSUME NEW d \in Checkout, d # c PROVE CheckoutInv(d)'
    BY <2>1, <2>2, InvOfOthers DEF OthersStay, Inv
  <2> QED BY <1>1, <2>1, <2>2 DEF Inv
<1> QED BY <1>2, <1>3 DEF Next

LEMMA Invariance == Spec => []Inv
  BY InitInv, NextInv, PTL DEF Spec

-----------------------------------------------------------------------------
(* What it is for.                                                         *)

(* Every variable of the two modes keeps its type.                         *)
THEOREM TypeCorrect == Spec => []TypeOK
  BY Invariance, PTL DEF Inv

(* A confirmed or announced order has its work finished at every           *)
(* participant, however late the calls are handled, as long as statements  *)
(* do not fail.                                                            *)
THEOREM ConfirmedIsBackedHolds == Spec => []ConfirmedIsBacked
<1>1. Inv => ConfirmedIsBacked
  <2> SUFFICES ASSUME Inv, "db" \notin faults, NEW c \in Checkout,
                      order[c] = "CONFIRMED" \/ event[c], NEW p \in Participants
               PROVE  op[c][p] = DoneStatus
    BY DEF ConfirmedIsBacked
  <2>1. CheckoutInv(c) /\ op[c][p] \in OpStatus
    BY DEF Inv, TypeOK
  <2>2. DoneCalls(c)
    BY <2>1 DEF CheckoutInv, OutcomeTellsPlace, PlaceTellsCalls
  <2>3. CASE mode = "tcc"
    BY <2>1, <2>2, <2>3 DEF CheckoutInv, CallsTellRows, DoneCalls, DoneStatus
  <2>4. CASE mode # "tcc"
    BY <2>1, <2>2, <2>4
       DEF CheckoutInv, CallsTellRows, RowsTellCalls, CallsAfterTry, DoneCalls, DoneStatus, OpStatus
  <2> QED BY <2>3, <2>4
<1> QED BY <1>1, Invariance, PTL

(* No compensation runs for an order announced as confirmed, which is      *)
(* never rejected, whatever goes wrong.                                    *)
THEOREM EventAgreesHolds == Spec => []EventAgrees
<1>1. Inv => EventAgrees
  BY DEF Inv, CheckoutInv, OutcomeTellsPlace, DoneCalls, EventAgrees
<1> QED BY <1>1, Invariance, PTL

(* A confirmed order has been announced, if statements do not fail.        *)
THEOREM ConfirmedIsAnnouncedHolds == Spec => []ConfirmedIsAnnounced
<1>1. Inv => ConfirmedIsAnnounced
  BY DEF Inv, CheckoutInv, Announced, ConfirmedIsAnnounced
<1> QED BY <1>1, Invariance, PTL

(* Compensation runs backwards, whatever goes wrong.                       *)
THEOREM CancelsInReverseHolds == Spec => []CancelsInReverse
<1>1. Inv => CancelsInReverse
  BY DEF Inv, CheckoutInv, Reversed, CancelsInReverse
<1> QED BY <1>1, Invariance, PTL

(* A client is told REJECTED after every step but the last one tried has   *)
(* been cancelled, unless its context has ended.                           *)
THEOREM RejectedIsCancelledHolds == Spec => []RejectedIsCancelled
<1>1. Inv => RejectedIsCancelled
  <2> SUFFICES ASSUME Inv, "ctx" \notin faults, NEW c \in Checkout,
                      NEW p \in Participants, NEW q \in Participants,
                      pc[c] = "REJECTED", p < q, Tried(c, q)
               PROVE  Cancelled(c, p)
    BY DEF RejectedIsCancelled
  <2>1. CheckoutInv(c) /\ N \in Nat
    BY RequestAssumption DEF Inv
  <2>2. CancelledDownTo(c, 0) /\ ctx[c] = "live" /\ Tried(c, p)
    BY <2>1 DEF CheckoutInv, PlaceTellsCalls, ContextLives, InOrder, Tried
  <2> QED BY <2>1, <2>2 DEF CancelledDownTo, Participants
<1> QED BY <1>1, Invariance, PTL

(* A cancelled step stays cancelled, but for the one whose confirm failed, *)
(* if statements do not fail.                                              *)
THEOREM CancelSticksHolds == Spec => []CancelSticks
<1>1. Inv => CancelSticks
  BY DEF Inv, CheckoutInv, CallsTellRows, CancelSticks
<1> QED BY <1>1, Invariance, PTL

-----------------------------------------------------------------------------
(* A call that is still open belongs to an order that is neither confirmed *)
(* nor announced.                                                          *)
LEMMA OpenCallIsEarly ==
  ASSUME Inv, NEW c \in Checkout, NEW a \in Action, NEW p \in Participants,
         rpc[c][a][p] = "open"
  PROVE  order[c] # "CONFIRMED" /\ ~event[c]
<1>1. CheckoutInv(c)
  BY DEF Inv
<1>2. ~DoneCalls(c)
  BY <1>1 DEF CheckoutInv, DoneCalls, CallsAfterTry, Action
<1> QED BY <1>1, <1>2 DEF CheckoutInv, OutcomeTellsPlace, PlaceTellsCalls

(* The steps that touch neither rows nor orders.                           *)
SilentStep(c) ==
  \/ StartConfirm(c) \/ Enqueue(c) \/ ExpireCtx(c) \/ Crash(c)
  \/ \E a \in Action, p \in Participants :
       PostJSON(c, a, p) \/ CallSucceeds(c, a, p) \/ LoseCall(c, a, p)
  \/ \E p \in Participants : TryFails(c, p) \/ ConfirmFails(c, p) \/ CancelFails(c, p)

LEMMA SilentStepEffect ==
  ASSUME NEW c \in Checkout, SilentStep(c)
  PROVE  op' = op /\ order' = order
  BY DEF SilentStep, StartConfirm, Enqueue, ExpireCtx, Crash, PostJSON, CallSucceeds, LoseCall,
     TryFails, ConfirmFails, CancelFails, FailsTo, Enter, coordinatorVars

(* What a step does to the rows and to a settled order.                    *)
LEMMA StepIsFinal ==
  ASSUME Inv, [Next]_vars, NEW c \in Checkout
  PROVE  /\ order[c] \in {"CONFIRMED", "REJECTED"} => order'[c] = order[c]
         /\ order[c] = "CONFIRMED" \/ event[c] => op'[c] = op[c]
<1>1. TypeOK /\ CheckoutInv(c)
  BY DEF Inv
<1>2. ASSUME NEW d \in Checkout, NEW a \in Action, NEW p \in Participants, Upsert(d, a, p)
      PROVE  order' = order /\ (order[c] = "CONFIRMED" \/ event[c] => op'[c] = op[c])
  <2>1. Handles(d, a, p) /\ OthersStay(d) /\ order' = order
    BY <1>1, <1>2, HandleEffect DEF Upsert, coordinatorVars
  <2>2. CASE c = d
    BY <2>1, <2>2, OpenCallIsEarly DEF Handles
  <2>3. CASE c # d
    BY <2>1, <2>3 DEF OthersStay, Stays, RowsStay
  <2> QED BY <2>1, <2>2, <2>3
<1>3. ASSUME NEW d \in Checkout, ConfirmOrder(d) \/ RejectOrder(d)
      PROVE  op' = op /\ (order[c] \in {"CONFIRMED", "REJECTED"} => order'[c] = order[c])
  <2>1. op' = op /\ OthersStay(d) /\ pc[d] \in {"enqueued", "cancel"}
    BY <1>3, SettleKeepsInv DEF ConfirmOrder, RejectOrder
  <2>2. CASE c = d
    BY <1>1, <2>1, <2>2 DEF CheckoutInv, OutcomeTellsPlace
  <2>3. CASE c # d
    BY <2>1, <2>3 DEF OthersStay, Stays, OutcomeStays
  <2> QED BY <2>1, <2>2, <2>3
<1>4. ASSUME NEW d \in Checkout, CreateOrder(d)
      PROVE  op' = op /\ (order[c] \in {"CONFIRMED", "REJECTED"} => order'[c] = order[c])
  <2>1. op' = op /\ OthersStay(d) /\ pc[d] = "start"
    BY <1>4, CreateKeepsInv DEF CreateOrder
  <2>2. CASE c = d
    BY <1>1, <2>1, <2>2 DEF CheckoutInv, OutcomeTellsPlace
  <2>3. CASE c # d
    BY <2>1, <2>3 DEF OthersStay, Stays, OutcomeStays
  <2> QED BY <2>1, <2>2, <2>3
<1>5. ASSUME NEW d \in Checkout, SilentStep(d) PROVE op' = op /\ order' = order
  BY <1>5, SilentStepEffect
<1>6. CASE UNCHANGED vars \/ Terminated
  BY <1>6 DEF vars, Terminated
<1> QED BY <1>2, <1>3, <1>4, <1>5, <1>6 DEF Next, Coordinator, SilentStep

(* A settled order never changes, and no handler still running touches the *)
(* rows of a confirmed or announced one, whatever goes wrong.              *)
THEOREM OutcomeIsFinalHolds == Spec => OutcomeIsFinal
<1>1. Inv /\ [Next]_vars =>
        [\A c \in Checkout :
           /\ order[c] \in {"CONFIRMED", "REJECTED"} => order'[c] = order[c]
           /\ order[c] = "CONFIRMED" \/ event[c] => op'[c] = op[c]]_vars
  BY StepIsFinal
<1> QED BY <1>1, Invariance, PTL DEF Spec, OutcomeIsFinal

-----------------------------------------------------------------------------
(* TCC implements AtomicCheckout.                                          *)

WorkBar == [c \in Checkout |-> [p \in Participants |-> WorkOf(op[c][p])]]
VerdictBar == [c \in Checkout |-> VerdictOf(order[c])]

LEMMA WorkOfValues ==
  /\ WorkOf("none") = "absent" /\ WorkOf("TRY") = "held"
  /\ WorkOf("CONFIRM") = "done" /\ WorkOf("CANCEL") = "undone"
  BY DEF WorkOf

LEMMA VerdictOfValues ==
  /\ VerdictOf("none") = "open" /\ VerdictOf("PROCESSING") = "open"
  /\ VerdictOf("CONFIRMED") = "confirmed" /\ VerdictOf("REJECTED") = "rejected"
  BY DEF VerdictOf

(* What the invariant says of a call that is handled.                      *)
LEMMA OpenCallTellsRows ==
  ASSUME Inv, mode = "tcc", "db" \notin faults, NEW c \in Checkout, NEW a \in Action,
         NEW p \in Participants, rpc[c][a][p] = "open"
  PROVE  /\ a = "try" => op[c][p] = "none"
         /\ a = "confirm" => /\ op[c][p] \in {"TRY", "CANCEL"}
                            /\ \A q \in Participants : op[c][q] # "none"
         /\ a = "cancel" => op[c][p] \in {"TRY", "CONFIRM"}
<1>1. CheckoutInv(c) /\ op[c][p] \in OpStatus
  BY DEF Inv, TypeOK
<1> QED BY <1>1 DEF CheckoutInv, RowsTellCalls, CallsTellRows, CallsAfterTry, OpStatus

(* The work after one call is handled, and the verdict after one update.   *)
LEMMA WorkMoves ==
  ASSUME NEW c \in Checkout, NEW p \in Participants,
         \A d \in Checkout, q \in Participants : (d = c /\ q = p) \/ op'[d][q] = op[d][q]
  PROVE  WorkBar' = [WorkBar EXCEPT ![c][p] = WorkOf(op'[c][p])]
<1> DEFINE new == WorkOf(op'[c][p])
           old(d, q) == WorkOf(op[d][q])
<1>1. \A d \in Checkout, q \in Participants :
        WorkOf(op'[d][q]) = IF d = c /\ q = p THEN new ELSE old(d, q)
  OBVIOUS
<1>2. WorkBar = [d \in Checkout |-> [q \in Participants |-> old(d, q)]]
  BY DEF WorkBar
<1>3. WorkBar' = [d \in Checkout |-> [q \in Participants |->
                   IF d = c /\ q = p THEN new ELSE old(d, q)]]
  BY <1>1 DEF WorkBar
<1> HIDE DEF new, old
<1>4. [WorkBar EXCEPT ![c][p] = new] =
        [d \in Checkout |-> [q \in Participants |->
           IF d = c /\ q = p THEN new ELSE old(d, q)]]
  BY <1>2
<1> QED BY <1>3, <1>4 DEF new

LEMMA VerdictMoves ==
  ASSUME TypeOK, NEW c \in Checkout, NEW status \in OrderStatus,
         order' = [order EXCEPT ![c] = status]
  PROVE  VerdictBar' = [VerdictBar EXCEPT ![c] = VerdictOf(status)]
<1>1. \A d \in Checkout : VerdictOf(order'[d]) = IF d = c THEN VerdictOf(status)
                                                ELSE VerdictOf(order[d])
  BY DEF TypeOK
<1> QED BY <1>1 DEF VerdictBar

(* A handled call is work that is reserved, finished or undone.            *)
LEMMA UpsertMaps ==
  ASSUME Inv, mode = "tcc", "db" \notin faults, NEW c \in Checkout, NEW a \in Action,
         NEW p \in Participants, Upsert(c, a, p)
  PROVE  Promise!Next
<1>1. /\ rpc[c][a][p] = "open" /\ op' = [op EXCEPT ![c][p] = StatusOf(a)]
      /\ order' = order /\ TypeOK
  BY DEF Inv, Upsert, StatementResults, coordinatorVars
<1>2. order[c] \in {"none", "PROCESSING", "REJECTED"}
  BY <1>1, OpenCallIsEarly DEF TypeOK, OrderStatus
<1>3. VerdictBar' = VerdictBar /\ VerdictBar[c] # "confirmed"
  BY <1>1, <1>2, VerdictOfValues DEF VerdictBar
<1>4. WorkBar' = [WorkBar EXCEPT ![c][p] = WorkOf(StatusOf(a))]
  <2>1. /\ op'[c][p] = StatusOf(a)
        /\ \A d \in Checkout, q \in Participants : (d = c /\ q = p) \/ op'[d][q] = op[d][q]
    BY <1>1 DEF TypeOK
  <2>2. WorkBar' = [WorkBar EXCEPT ![c][p] = WorkOf(op'[c][p])]
    BY <2>1, WorkMoves
  <2> QED BY <2>1, <2>2
<1>5. \A q \in Participants : WorkBar[c][q] = WorkOf(op[c][q]) /\ op[c][q] \in OpStatus
  BY <1>1 DEF WorkBar, TypeOK
<1>6. CASE a = "try"
  <2>1. WorkBar[c][p] = "absent" /\ WorkOf(StatusOf(a)) = "held"
    BY <1>1, <1>5, <1>6, OpenCallTellsRows, WorkOfValues DEF StatusOf
  <2>2. Promise!Hold(c, p)
    BY <1>3, <1>4, <2>1 DEF Promise!Hold, WorkBar, VerdictBar
  <2> QED BY <2>2 DEF Promise!Next
<1>7. CASE a = "confirm"
  <2>1. /\ WorkBar[c][p] \in {"held", "undone"} /\ WorkOf(StatusOf(a)) = "done"
        /\ \A q \in Participants : WorkBar[c][q] # "absent"
    BY <1>1, <1>5, <1>7, OpenCallTellsRows, WorkOfValues DEF StatusOf, OpStatus
  <2>2. Promise!Finish(c, p)
    BY <1>3, <1>4, <2>1 DEF Promise!Finish, WorkBar, VerdictBar
  <2> QED BY <2>2 DEF Promise!Next
<1>8. CASE a = "cancel"
  <2>1. WorkBar[c][p] \in {"held", "done"} /\ WorkOf(StatusOf(a)) = "undone"
    BY <1>1, <1>5, <1>8, OpenCallTellsRows, WorkOfValues DEF StatusOf
  <2>2. Promise!Undo(c, p)
    BY <1>3, <1>4, <2>1 DEF Promise!Undo, WorkBar, VerdictBar
  <2> QED BY <2>2 DEF Promise!Next
<1> QED BY <1>6, <1>7, <1>8 DEF Action

(* A write of the order is a verdict, or is not seen.                      *)
LEMMA WritesMap ==
  ASSUME Inv, mode = "tcc", "db" \notin faults, NEW c \in Checkout,
         CreateOrder(c) \/ ConfirmOrder(c) \/ RejectOrder(c)
  PROVE  Promise!Next \/ UNCHANGED <<WorkBar, VerdictBar>>
<1>1. /\ TypeOK /\ CheckoutInv(c) /\ op' = op
      /\ order \in [Checkout -> OrderStatus] /\ op \in [Checkout -> [Participants -> OpStatus]]
  BY DEF Inv, TypeOK, CreateOrder, ConfirmOrder, RejectOrder
<1>2. WorkBar' = WorkBar /\ (order' = order => VerdictBar' = VerdictBar)
  BY <1>1 DEF WorkBar, VerdictBar
<1>3. pc[c] \in {"start", "enqueued", "cancel"}
  BY DEF CreateOrder, ConfirmOrder, RejectOrder
<1>4. order[c] \in {"none", "PROCESSING"}
  BY <1>1, <1>3 DEF CheckoutInv, OutcomeTellsPlace, OrderStatus
<1>5. VerdictBar[c] = "open"
  BY <1>4, VerdictOfValues DEF VerdictBar
<1>6. CASE CreateOrder(c)
  <2>1. order' = order \/ order' = [order EXCEPT ![c] = "PROCESSING"]
    BY <1>1, <1>6 DEF CreateOrder
  <2>2. CASE order' = [order EXCEPT ![c] = "PROCESSING"]
    <3>1. VerdictBar' = [VerdictBar EXCEPT ![c] = "open"]
      BY <1>1, <2>2, VerdictMoves, VerdictOfValues DEF OrderStatus
    <3> QED BY <1>2, <1>5, <3>1 DEF VerdictBar
  <2> QED BY <1>2, <2>1, <2>2
<1>7. CASE ConfirmOrder(c)
  <2>1. order' = order \/ order' = [order EXCEPT ![c] = "CONFIRMED"]
    BY <1>1, <1>7 DEF ConfirmOrder, updateOrderStatus
  <2>2. CASE order' = [order EXCEPT ![c] = "CONFIRMED"]
    <3>1. VerdictBar' = [VerdictBar EXCEPT ![c] = "confirmed"]
      BY <1>1, <2>2, VerdictMoves, VerdictOfValues DEF OrderStatus
    <3>2. \A p \in Participants : op[c][p] = "CONFIRM"
      BY <1>1, <1>7 DEF ConfirmOrder, CheckoutInv, PlaceTellsCalls, DoneCalls, CallsTellRows
    <3>3. \A p \in Participants : WorkBar[c][p] = "done"
      BY <3>2, WorkOfValues DEF WorkBar
    <3>4. Promise!Confirm(c)
      BY <1>2, <1>5, <3>1, <3>3 DEF Promise!Confirm, WorkBar, VerdictBar
    <3> QED BY <3>4 DEF Promise!Next
  <2> QED BY <1>2, <2>1, <2>2
<1>8. CASE RejectOrder(c)
  <2>1. order' = order \/ order' = [order EXCEPT ![c] = "REJECTED"]
    BY <1>1, <1>8 DEF RejectOrder, updateOrderStatus
  <2>2. CASE order' = [order EXCEPT ![c] = "REJECTED"]
    <3>1. VerdictBar' = [VerdictBar EXCEPT ![c] = "rejected"]
      BY <1>1, <2>2, VerdictMoves, VerdictOfValues DEF OrderStatus
    <3>2. Promise!Reject(c)
      BY <1>2, <1>5, <3>1 DEF Promise!Reject, WorkBar, VerdictBar
    <3> QED BY <3>2 DEF Promise!Next
  <2> QED BY <1>2, <2>1, <2>2
<1> QED BY <1>6, <1>7, <1>8

(* Mode tcc implements the abstract checkout, for every number of          *)
(* checkouts and participants, as long as statements do not fail: the      *)
(* other faults may strike at any time.                                    *)
THEOREM TccKeepsPromiseHolds == Spec => Promise!Init /\ TccKeepsPromise
<1>1. Init => Promise!Init
  <2> SUFFICES ASSUME Init PROVE Promise!Init
    OBVIOUS
  <2>1. /\ \A c \in Checkout, p \in Participants : op[c][p] = "none"
        /\ \A c \in Checkout : order[c] = "none"
    BY DEF Init
  <2> QED BY <2>1, WorkOfValues, VerdictOfValues DEF Promise!Init
<1>2. Inv /\ [Next]_vars => [mode = "tcc" /\ "db" \notin faults => Promise!Step]_vars
  <2> SUFFICES ASSUME Inv, [Next]_vars, mode = "tcc", "db" \notin faults
               PROVE  Promise!Next \/ UNCHANGED <<WorkBar, VerdictBar>>
    BY DEF Promise!Step, WorkBar, VerdictBar
  <2>1. op' = op /\ order' = order => UNCHANGED <<WorkBar, VerdictBar>>
    BY DEF WorkBar, VerdictBar
  <2>2. ASSUME NEW d \in Checkout, SilentStep(d) PROVE op' = op /\ order' = order
    BY <2>2, SilentStepEffect
  <2>3. CASE UNCHANGED vars \/ Terminated
    BY <2>1, <2>3 DEF vars, Terminated
  <2> QED BY <2>1, <2>2, <2>3, UpsertMaps, WritesMap DEF Next, Coordinator, SilentStep
<1> QED BY <1>1, <1>2, Invariance, PTL DEF Spec, TccKeepsPromise
==============================================================================
