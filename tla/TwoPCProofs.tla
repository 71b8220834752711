----------------------------- MODULE TwoPCProofs -----------------------------
(***************************************************************************)
(* Proofs about TwoPC, for every set of checkouts, every number of         *)
(* participants and every set of faults.                                   *)
(***************************************************************************)
EXTENDS TwoPC, ParticipantProofs, TLAPS

-----------------------------------------------------------------------------
(* Type correctness.                                                       *)

LEMMA InitTypeOK == Init => TypeOK
  BY RequestAssumption, ParticipantAssumption
     DEF Init, TypeOK, ParticipantInit, ParticipantTypeOK, CallState, RowStatus,
         OrderStatus, LogStatus, PC, Finished, TxID, Participants

(* The steps that move calls keep the types.                               *)
LEMMA CallsTypeOK ==
  ASSUME TypeOK, NEW c \in Checkout, NEW a \in Action, NEW p \in Participants,
         HandlerStep(c, a, p) \/ LoseCall(c, a, p) \/ PostJSON(c, a, p)
  PROVE  TypeOK'
<1>1. coordinatorVars' = coordinatorVars
  BY DEF HandlerStep, LoseCall, PostJSON
<1>2. ParticipantTypeOK'
  BY <1>1, PrepareEffect, UpdatePreparedEffect, UpdateBusinessEffect, LoseEffect, SendEffect
     DEF HandlerStep, Handler, TypeOK, LoseCall, PostJSON
<1> QED BY <1>1, <1>2 DEF TypeOK, coordinatorVars

(* So do the steps of the coordinator proper, and those of its environment.*)
CoordinatorWrites(c) ==
  \/ CreateOrder(c) \/ MarkPreparing(c) \/ MarkCommitting(c) \/ MarkAborting(c)
  \/ ConfirmOrder(c) \/ RejectOrder(c) \/ CloseCommitted(c) \/ CloseAborted(c)

CoordinatorMoves(c) ==
  \/ \E a \in Action, p \in Participants :
       CallSucceeds(c, a, p) \/ PrepareOrCommitFails(c, a, p)
  \/ \E p \in Participants : AbortFails(c, p)
  \/ ExpireCtx(c)
  \/ Crash(c)

LEMMA WritesTypeOK ==
  ASSUME TypeOK, NEW c \in Checkout, CoordinatorWrites(c)
  PROVE  TypeOK'
<1> USE DEF TypeOK, PC, Finished, OrderStatus, LogStatus, Goto, Enter
<1>1. TxOf(c) \in TxID /\ 1 \in 1..(N + 1)
  BY TxOfType, RequestAssumption, ParticipantAssumption
<1>2. ParticipantTypeOK'
  BY DEF CoordinatorWrites, CreateOrder, MarkPreparing, MarkCommitting, MarkAborting,
         ConfirmOrder, RejectOrder, CloseCommitted, CloseAborted, participantVars,
         ParticipantTypeOK
<1>3. CASE CreateOrder(c)
  BY <1>1, <1>2, <1>3 DEF CreateOrder
<1>4. CASE MarkPreparing(c) \/ MarkCommitting(c) \/ MarkAborting(c)
  BY <1>1, <1>2, <1>4 DEF MarkPreparing, MarkCommitting, MarkAborting, updateTxStatus, Action
<1>5. CASE ConfirmOrder(c) \/ RejectOrder(c)
  BY <1>1, <1>2, <1>5 DEF ConfirmOrder, RejectOrder, updateOrderStatus
<1>6. CASE CloseCommitted(c) \/ CloseAborted(c)
  BY <1>1, <1>2, <1>6 DEF CloseCommitted, CloseAborted, updateTxStatus
<1> QED BY <1>3, <1>4, <1>5, <1>6 DEF CoordinatorWrites

LEMMA MovesTypeOK ==
  ASSUME TypeOK, NEW c \in Checkout, CoordinatorMoves(c)
  PROVE  TypeOK'
<1> USE DEF TypeOK, PC, Finished, Goto
<1>1. \A p \in Participants : p + 1 \in 1..(N + 1)
  BY RequestAssumption, ParticipantAssumption DEF Participants
<1>2. ParticipantTypeOK'
  BY DEF CoordinatorMoves, CallSucceeds, PrepareOrCommitFails, AbortFails, ExpireCtx, Crash,
         participantVars, ParticipantTypeOK
<1> QED BY <1>1, <1>2 DEF CoordinatorMoves, CallSucceeds, PrepareOrCommitFails, AbortFails,
                          ExpireCtx, Crash

(* Every step is one of these.                                             *)
LEMMA NextCases ==
  ASSUME [Next]_vars
  PROVE  \/ UNCHANGED vars
         \/ \E c \in Checkout :
              \/ CoordinatorWrites(c)
              \/ CoordinatorMoves(c)
              \/ \E a \in Action, p \in Participants :
                   HandlerStep(c, a, p) \/ LoseCall(c, a, p) \/ PostJSON(c, a, p)
  BY DEF Next, Coordinator, CoordinatorWrites, CoordinatorMoves, Terminated

(* In every state of every behaviour the variables have values of their    *)
(* types.                                                                  *)
THEOREM TypeCorrect == Spec => []TypeOK
<1>1. TypeOK /\ [Next]_vars => TypeOK'
  <2> SUFFICES ASSUME TypeOK, [Next]_vars PROVE TypeOK'
    OBVIOUS
  <2>1. CASE UNCHANGED vars
    BY <2>1 DEF vars, TypeOK, ParticipantTypeOK
  <2> QED BY <2>1, NextCases, CallsTypeOK, WritesTypeOK, MovesTypeOK
<1> QED BY InitTypeOK, <1>1, PTL DEF Spec

-----------------------------------------------------------------------------
(* The inductive invariant.                                                *)

(* The calls follow the program: which calls checkout c can have made at   *)
(* each place its goroutine may stand, and with what answers.              *)
CallsFollow(c) ==
  \A p \in Participants :
    /\ rpc[c]["prepare"][p] # "half"
    /\ pc[c] \in {"start", "created", "error"} => rpc[c]["prepare"][p] = "none"
    /\ pc[c] = "prepare" => /\ p < at[c] => rpc[c]["prepare"][p] = "ok"
                            /\ p > at[c] => rpc[c]["prepare"][p] = "none"
    /\ pc[c] \in {"start", "created", "error", "prepare"} => rpc[c]["commit"][p] = "none"
    /\ pc[c] = "commit" => /\ rpc[c]["prepare"][p] = "ok"
                           /\ p < at[c] => rpc[c]["commit"][p] = "ok"
                           /\ p > at[c] => rpc[c]["commit"][p] = "none"
    /\ \A q \in Participants : rpc[c]["commit"][q] # "none" => rpc[c]["prepare"][p] = "ok"
    /\ pc[c] \in {"confirmed", "COMMITTED"} => rpc[c]["commit"][p] = "ok"
    /\ pc[c] \notin {"abort", "rejected", "ABORTED", "crashed"} => rpc[c]["abort"][p] = "none"
    /\ pc[c] = "abort" /\ p > at[c] => rpc[c]["abort"][p] = "none"

(* The order and the log entry of c are behind or level with its goroutine.*)
StatusFollows(c) ==
  /\ order[c] = "CONFIRMED" =>
       /\ pc[c] \in {"confirmed", "COMMITTED", "crashed"}
       /\ \A p \in Participants : rpc[c]["commit"][p] = "ok" /\ rpc[c]["abort"][p] = "none"
  /\ order[c] = "REJECTED" => pc[c] \in {"rejected", "ABORTED", "crashed"}
  /\ txlog[c] = "COMMITTED" => pc[c] = "COMMITTED"
  /\ txlog[c] \in {"ABORTING", "ABORTED"} =>
       /\ pc[c] \in {"abort", "rejected", "ABORTED", "crashed"}
       /\ order[c] # "CONFIRMED"
  /\ txlog[Empty] = "none"

(* The two rows of a txid come together, a 200 to prepare means that they  *)
(* are there, and a committed row means that commit was called.            *)
RowsFollow ==
  \A p \in Participants :
    /\ \A t \in TxID :
         /\ prepared[p][t] = "none" <=> business[p][t] = "none"
         /\ prepared[p][t] = "COMMITTED" \/ business[p][t] = "COMMITTED" =>
              \E c \in Checkout : TxOf(c) = t /\ rpc[c]["commit"][p] # "none"
    /\ \A c \in Checkout : rpc[c]["prepare"][p] = "ok" => business[p][TxOf(c)] # "none"

CallsInv == \A c \in Checkout : CallsFollow(c)
StatusInv == \A c \in Checkout : StatusFollows(c)

Inv == TypeOK /\ CallsInv /\ StatusInv /\ RowsFollow

LEMMA InitInv == Init => Inv
<1> SUFFICES ASSUME Init PROVE Inv
  OBVIOUS
<1>1. /\ \A c \in Checkout, a \in Action, p \in Participants : rpc[c][a][p] = "none"
      /\ \A p \in Participants, t \in TxID : prepared[p][t] = "none" /\ business[p][t] = "none"
      /\ \A c \in Checkout : pc[c] = "start" /\ order[c] = "none"
      /\ \A t \in TxID : txlog[t] = "none"
  BY DEF Init, ParticipantInit
<1>2. CallsInv
  BY <1>1 DEF CallsInv, CallsFollow, Action
<1>3. StatusInv
  BY <1>1 DEF StatusInv, StatusFollows, TxID
<1>4. RowsFollow
  BY <1>1, TxOfType DEF RowsFollow, Action
<1> QED BY InitTypeOK, <1>2, <1>3, <1>4 DEF Inv

(* A call that was open goes on.                                           *)
LEMMA CallProceeds ==
  ASSUME Inv, NEW c \in Checkout, NEW a \in Action, NEW p \in Participants,
         NEW From, NEW To, CallMoves(c, a, p, From, To), UNCHANGED coordinatorVars,
         From \subseteq {"open", "half"}, To \subseteq {"half", "ok", "no", "lost"},
         a = "prepare" => "half" \notin To
  PROVE  CallsInv' /\ StatusInv'
<1>1. UNCHANGED <<order, txlog, pc, at>>
  BY DEF coordinatorVars
<1>2. \A d \in Checkout, b \in Action, q \in Participants :
        /\ rpc[d][b][q] = "none" <=> rpc'[d][b][q] = "none"
        /\ rpc[d][b][q] = "ok" => rpc'[d][b][q] = "ok"
        /\ b = "prepare" /\ rpc[d][b][q] # "half" => rpc'[d][b][q] # "half"
  BY DEF CallMoves
<1>3. ASSUME NEW d \in Checkout PROVE CallsFollow(d)'
  <2>1. CallsFollow(d)
    BY DEF Inv, CallsInv
  <2> QED BY <1>1, <1>2, <2>1 DEF CallsFollow, Action
<1>4. ASSUME NEW d \in Checkout PROVE StatusFollows(d)'
  <2>1. StatusFollows(d)
    BY DEF Inv, StatusInv
  <2> QED BY <1>1, <1>2, <2>1 DEF StatusFollows, Action
<1> QED BY <1>3, <1>4 DEF CallsInv, StatusInv

(* /2pc/prepare adds a row, if it changes any.                             *)
LEMMA PrepareKeepsInv ==
  ASSUME Inv, NEW c \in Checkout, NEW p \in Participants,
         HandlePrepare(c, p), UNCHANGED coordinatorVars
  PROVE  Inv'
<1> DEFINE t == TxOf(c)
<1>1. TypeOK /\ RowsFollow /\ t \in TxID /\ "prepare" \in Action /\ "commit" \in Action
  BY TxOfType DEF Inv, Action
<1>2. /\ ParticipantTypeOK'
      /\ CallMoves(c, "prepare", p, {"open"}, {"ok", "no"})
      /\ RowMoves(prepared, prepared', p, t)
      /\ RowMoves(business, business', p, t)
      /\ \/ rpc'[c]["prepare"][p] = "no" /\ UNCHANGED <<prepared, business>>
         \/ /\ prepared'[p][t] = IF prepared[p][t] = "none" THEN "PREPARED" ELSE prepared[p][t]
            /\ business'[p][t] = IF business[p][t] = "none" THEN "PREPARED" ELSE business[p][t]
  BY <1>1, PrepareEffect DEF TypeOK
<1>3. CallsInv' /\ StatusInv'
  BY <1>1, <1>2, CallProceeds
<1>4. TypeOK'
  BY <1>1, <1>2 DEF TypeOK, coordinatorVars
<1> HIDE DEF t
<1>5. ASSUME NEW q \in Participants, NEW u \in TxID
      PROVE  /\ (prepared[q][u] = "none" <=> business[q][u] = "none")'
             /\ prepared'[q][u] = "COMMITTED" => prepared[q][u] = "COMMITTED"
             /\ business'[q][u] = "COMMITTED" => business[q][u] = "COMMITTED"
             /\ business[q][u] # "none" => business'[q][u] # "none"
  <2>1. prepared[q][u] = "none" <=> business[q][u] = "none"
    BY <1>1 DEF RowsFollow
  <2>2. CASE q = p /\ u = t
    BY <1>2, <2>1, <2>2
  <2>3. CASE ~(q = p /\ u = t)
    BY <1>2, <2>1, <2>3 DEF RowMoves
  <2> QED BY <2>2, <2>3
<1>6. \A d \in Checkout, q \in Participants :
        /\ rpc[d]["commit"][q] # "none" => rpc'[d]["commit"][q] # "none"
        /\ rpc'[d]["prepare"][q] = "ok" => business'[q][TxOf(d)] # "none"
  <2> TAKE d \in Checkout, q \in Participants
  <2>1. TxOf(d) \in TxID
    BY TxOfType
  <2>2. CASE d = c /\ q = p
    <3>1. prepared[p][t] = "none" <=> business[p][t] = "none"
      BY <1>1 DEF RowsFollow
    <3>2. rpc'[c]["prepare"][p] = "ok" => business'[p][t] # "none"
      BY <1>2, <3>1
    <3> QED BY <1>1, <1>2, <2>2, <3>2 DEF CallMoves, t
  <2>3. CASE ~(d = c /\ q = p)
    <3>1. /\ rpc'[d]["prepare"][q] = rpc[d]["prepare"][q]
          /\ rpc'[d]["commit"][q] = rpc[d]["commit"][q]
      BY <1>1, <1>2, <2>3 DEF CallMoves
    <3> QED BY <1>1, <1>5, <2>1, <3>1 DEF RowsFollow
  <2> QED BY <2>2, <2>3
<1>7. RowsFollow'
  BY <1>1, <1>5, <1>6 DEF RowsFollow
<1> QED BY <1>3, <1>4, <1>7 DEF Inv

(* The UPDATEs change the status of a row that exists, and write COMMITTED *)
(* only for a commit call.                                                 *)
LEMMA UpdateKeepsRows ==
  ASSUME Inv, NEW c \in Checkout, NEW a \in Action, NEW p \in Participants,
         NEW From, NEW To, CallMoves(c, a, p, From, To), "none" \notin From, "none" \notin To,
         a \in {"commit", "abort"},
         RowMoves(prepared, prepared', p, TxOf(c)),
         RowMoves(business, business', p, TxOf(c)),
         prepared'[p][TxOf(c)] \in {prepared[p][TxOf(c)],
           IF prepared[p][TxOf(c)] = "none" THEN "none" ELSE FinalStatus(a)},
         business'[p][TxOf(c)] \in {business[p][TxOf(c)],
           IF business[p][TxOf(c)] = "none" THEN "none" ELSE FinalStatus(a)}
  PROVE  RowsFollow'
<1> DEFINE t == TxOf(c)
<1>1. RowsFollow /\ t \in TxID /\ {"prepare", "commit"} \subseteq Action
  BY TxOfType DEF Inv, Action
<1>2. FinalStatus(a) # "none" /\ (FinalStatus(a) = "COMMITTED" => a = "commit")
  BY DEF FinalStatus
<1>3. \A d \in Checkout, q \in Participants :
        /\ rpc[d]["commit"][q] # "none" => rpc'[d]["commit"][q] # "none"
        /\ rpc'[d]["prepare"][q] = rpc[d]["prepare"][q]
  BY <1>1 DEF CallMoves
<1>4. ASSUME NEW q \in Participants, NEW u \in TxID
      PROVE  /\ prepared'[q][u] = "none" <=> prepared[q][u] = "none"
             /\ business'[q][u] = "none" <=> business[q][u] = "none"
             /\ prepared'[q][u] = "COMMITTED" \/ business'[q][u] = "COMMITTED" =>
                  \/ prepared[q][u] = "COMMITTED" \/ business[q][u] = "COMMITTED"
                  \/ q = p /\ u = t /\ a = "commit"
  <2>1. CASE q = p /\ u = t
    BY <1>2, <2>1
  <2>2. CASE ~(q = p /\ u = t)
    BY <2>2 DEF RowMoves
  <2> QED BY <2>1, <2>2
<1>5. a = "commit" => rpc'[c]["commit"][p] # "none"
  BY <1>1, <1>3 DEF CallMoves
<1> HIDE DEF t
<1>6. ASSUME NEW q \in Participants, NEW u \in TxID,
             prepared'[q][u] = "COMMITTED" \/ business'[q][u] = "COMMITTED"
      PROVE  \E d \in Checkout : TxOf(d) = u /\ rpc'[d]["commit"][q] # "none"
  <2>1. CASE prepared[q][u] = "COMMITTED" \/ business[q][u] = "COMMITTED"
    <3>1. PICK d \in Checkout : TxOf(d) = u /\ rpc[d]["commit"][q] # "none"
      BY <1>1, <2>1 DEF RowsFollow
    <3> QED BY <1>3, <3>1
  <2>2. CASE q = p /\ u = t /\ a = "commit"
    BY <1>5, <2>2 DEF t
  <2> QED BY <1>4, <1>6, <2>1, <2>2
<1>7. \A d \in Checkout, q \in Participants :
        rpc'[d]["prepare"][q] = "ok" => business'[q][TxOf(d)] # "none"
  BY <1>1, <1>3, <1>4, TxOfType DEF RowsFollow
<1>8. \A q \in Participants, u \in TxID : (prepared[q][u] = "none" <=> business[q][u] = "none")'
  BY <1>1, <1>4 DEF RowsFollow
<1> QED BY <1>6, <1>7, <1>8 DEF RowsFollow

LEMMA UpdatePreparedKeepsInv ==
  ASSUME Inv, NEW c \in Checkout, NEW a \in Action, NEW p \in Participants,
         UpdatePrepared(c, a, p), UNCHANGED coordinatorVars
  PROVE  Inv'
<1>1. /\ ParticipantTypeOK'
      /\ a \in {"commit", "abort"}
      /\ CallMoves(c, a, p, {"open"}, {"half"})
      /\ UNCHANGED business
      /\ RowMoves(prepared, prepared', p, TxOf(c))
      /\ prepared'[p][TxOf(c)] \in {prepared[p][TxOf(c)],
           IF prepared[p][TxOf(c)] = "none" THEN "none" ELSE FinalStatus(a)}
  BY UpdatePreparedEffect DEF Inv, TypeOK
<1>2. CallsInv' /\ StatusInv'
  BY <1>1, CallProceeds
<1>3. TypeOK'
  BY <1>1 DEF Inv, TypeOK, coordinatorVars
<1>4. RowMoves(business, business', p, TxOf(c))
  BY <1>1 DEF RowMoves
<1>5. RowsFollow'
  BY <1>1, <1>4, UpdateKeepsRows
<1> QED BY <1>2, <1>3, <1>5 DEF Inv

LEMMA UpdateBusinessKeepsInv ==
  ASSUME Inv, NEW c \in Checkout, NEW a \in Action, NEW p \in Participants,
         UpdateBusiness(c, a, p), UNCHANGED coordinatorVars
  PROVE  Inv'
<1>1. /\ ParticipantTypeOK'
      /\ CallMoves(c, a, p, {"half"}, {"ok"})
      /\ UNCHANGED prepared
      /\ RowMoves(business, business', p, TxOf(c))
      /\ business'[p][TxOf(c)] \in {business[p][TxOf(c)],
           IF business[p][TxOf(c)] = "none" THEN "none" ELSE FinalStatus(a)}
  BY UpdateBusinessEffect DEF Inv, TypeOK
<1>2. CallsInv' /\ StatusInv'
  BY <1>1, CallProceeds
<1>3. TypeOK'
  BY <1>1 DEF Inv, TypeOK, coordinatorVars
<1>4. RowMoves(prepared, prepared', p, TxOf(c))
  BY <1>1 DEF RowMoves
<1>5. a \in {"commit", "abort"}
  <2>1. CallsFollow(c)
    BY DEF Inv, CallsInv
  <2> QED BY <1>1, <2>1 DEF CallsFollow, CallMoves, Action
<1>6. RowsFollow'
  BY <1>1, <1>4, <1>5, UpdateKeepsRows
<1> QED BY <1>2, <1>3, <1>6 DEF Inv

LEMMA LoseKeepsInv ==
  ASSUME Inv, NEW c \in Checkout, NEW a \in Action, NEW p \in Participants,
         LoseCall(c, a, p)
  PROVE  Inv'
<1>1. UNCHANGED coordinatorVars
  BY DEF LoseCall
<1>2. /\ ParticipantTypeOK'
      /\ CallMoves(c, a, p, {"open", "half"}, {"lost"})
      /\ UNCHANGED <<prepared, business>>
  BY LoseEffect DEF Inv, TypeOK, LoseCall
<1>3. CallsInv' /\ StatusInv'
  BY <1>1, <1>2, CallProceeds
<1>4. TypeOK'
  BY <1>1, <1>2 DEF Inv, TypeOK, coordinatorVars
<1>5. \A d \in Checkout, b \in Action, q \in Participants :
        /\ rpc[d][b][q] # "none" => rpc'[d][b][q] # "none"
        /\ rpc'[d][b][q] = "ok" => rpc[d][b][q] = "ok"
  BY <1>2 DEF CallMoves
<1>6. RowsFollow'
  BY <1>2, <1>5 DEF Inv, RowsFollow, Action
<1> QED BY <1>3, <1>4, <1>6 DEF Inv

(* A call is sent where the goroutine stands.                              *)
LEMMA SendKeepsInv ==
  ASSUME Inv, NEW c \in Checkout, NEW a \in Action, NEW p \in Participants,
         PostJSON(c, a, p)
  PROVE  Inv'
<1>1. UNCHANGED <<order, txlog, pc, at>> /\ pc[c] = a /\ at[c] = p /\ UNCHANGED coordinatorVars
  BY DEF PostJSON, coordinatorVars, Calling
<1>2. /\ ParticipantTypeOK'
      /\ CallMoves(c, a, p, {"none"}, {"open"})
      /\ UNCHANGED <<prepared, business>>
  BY SendEffect DEF Inv, TypeOK, PostJSON
<1>3. TypeOK'
  BY <1>1, <1>2 DEF Inv, TypeOK, coordinatorVars
<1>4. \A d \in Checkout, b \in Action, q \in Participants :
        \/ rpc'[d][b][q] = rpc[d][b][q]
        \/ /\ d = c /\ b = a /\ q = p
           /\ rpc[d][b][q] = "none" /\ rpc'[d][b][q] = "open"
  BY <1>2 DEF CallMoves
<1>5. ASSUME NEW d \in Checkout PROVE CallsFollow(d)'
  <2>1. CallsFollow(d)
    BY DEF Inv, CallsInv
  <2>2. \A q \in Participants : q \in Nat
    BY RequestAssumption, ParticipantAssumption DEF Participants
  <2> QED BY <1>1, <1>4, <2>1, <2>2 DEF CallsFollow, Action
<1>6. ASSUME NEW d \in Checkout PROVE StatusFollows(d)'
  <2>1. StatusFollows(d)
    BY DEF Inv, StatusInv
  <2> QED BY <1>1, <1>4, <2>1 DEF StatusFollows, Action
<1>7. RowsFollow'
  BY <1>2, <1>4 DEF Inv, RowsFollow, Action
<1> QED BY <1>3, <1>5, <1>6, <1>7 DEF Inv, CallsInv, StatusInv

(* The coordinator's own steps leave calls and rows alone.                 *)
LEMMA WritesKeepInv ==
  ASSUME Inv, NEW c \in Checkout, CoordinatorWrites(c)
  PROVE  Inv'
<1> USE DEF Goto, Enter
<1>1. /\ UNCHANGED <<rpc, prepared, business>>
      /\ TxOf(c) \in {c, Empty}
  BY DEF CoordinatorWrites, CreateOrder, MarkPreparing, MarkCommitting, MarkAborting,
         ConfirmOrder, RejectOrder, CloseCommitted, CloseAborted, participantVars, TxOf
<1>2. TypeOK'
  BY WritesTypeOK DEF Inv
<1>3. RowsFollow'
  BY <1>1 DEF Inv, RowsFollow
<1>4. ASSUME NEW d \in Checkout PROVE CallsFollow(d)' /\ StatusFollows(d)'
  <2>1. CallsFollow(d) /\ StatusFollows(d)
    BY DEF Inv, CallsInv, StatusInv
  <2>2. /\ pc \in [Checkout -> PC] /\ at \in [Checkout -> 1..(N + 1)]
        /\ order \in [Checkout -> OrderStatus] /\ txlog \in [TxID -> LogStatus]
        /\ d \in TxID /\ Empty \in TxID /\ Empty # d /\ Empty # c
    BY RequestAssumption, ParticipantAssumption DEF Inv, TypeOK, TxID, Participants, Action
  <2>11. N \in Nat /\ Participants = 1..N
    BY RequestAssumption DEF Participants
  <2>3. CASE CreateOrder(c)
    <3>1. /\ rpc'[d] = rpc[d] /\ txlog'[Empty] = "none"
          /\ d # c => /\ pc'[d] = pc[d] /\ at'[d] = at[d]
                      /\ order'[d] = order[d] /\ txlog'[d] = txlog[d]
          /\ d = c => /\ pc[d] = "start" /\ pc'[d] \in {"created", "error"} /\ at'[d] = at[d]
                      /\ order'[d] \in {order[d], "PROCESSING"} /\ txlog'[d] \in {txlog[d], "STARTED"}
      BY <1>1, <2>1, <2>2, <2>3 DEF CreateOrder, StatusFollows
    <3>2. CASE d # c
      BY <2>1, <3>1, <3>2 DEF CallsFollow, StatusFollows
    <3>3. CASE d = c
      <4>1. CallsFollow(d)'
        BY <2>1, <2>11, <3>1, <3>3 DEF CallsFollow
      <4>2. StatusFollows(d)'
        BY <2>1, <2>11, <3>1, <3>3 DEF StatusFollows, CallsFollow
      <4> QED BY <4>1, <4>2
    <3> QED BY <3>2, <3>3
  <2>4. CASE MarkPreparing(c)
    <3>1. /\ rpc'[d] = rpc[d] /\ txlog'[Empty] = "none"
          /\ d # c => /\ pc'[d] = pc[d] /\ at'[d] = at[d]
                      /\ order'[d] = order[d] /\ txlog'[d] = txlog[d]
          /\ d = c => /\ pc[d] = "created" /\ pc'[d] = "prepare" /\ at'[d] = 1
                      /\ order'[d] = order[d] /\ txlog'[d] \in {txlog[d], "PREPARING"}
      BY <1>1, <2>1, <2>2, <2>4 DEF MarkPreparing, updateTxStatus, StatusFollows
    <3>2. CASE d # c
      BY <2>1, <3>1, <3>2 DEF CallsFollow, StatusFollows
    <3>3. CASE d = c
      <4>1. CallsFollow(d)'
        BY <2>1, <2>11, <3>1, <3>3 DEF CallsFollow
      <4>2. StatusFollows(d)'
        BY <2>1, <2>11, <3>1, <3>3 DEF StatusFollows, CallsFollow
      <4> QED BY <4>1, <4>2
    <3> QED BY <3>2, <3>3
  <2>5. CASE MarkCommitting(c)
    <3>1. /\ rpc'[d] = rpc[d] /\ txlog'[Empty] = "none"
          /\ d # c => /\ pc'[d] = pc[d] /\ at'[d] = at[d]
                      /\ order'[d] = order[d] /\ txlog'[d] = txlog[d]
          /\ d = c => /\ pc[d] = "prepare" /\ at[d] = N + 1 /\ pc'[d] = "commit" /\ at'[d] = 1
                      /\ order'[d] = order[d] /\ txlog'[d] \in {txlog[d], "COMMITTING"}
      BY <1>1, <2>1, <2>2, <2>5 DEF MarkCommitting, updateTxStatus, StatusFollows
    <3>2. CASE d # c
      BY <2>1, <3>1, <3>2 DEF CallsFollow, StatusFollows
    <3>3. CASE d = c
      <4>1. CallsFollow(d)'
        BY <2>1, <2>11, <3>1, <3>3 DEF CallsFollow
      <4>2. StatusFollows(d)'
        BY <2>1, <2>11, <3>1, <3>3 DEF StatusFollows, CallsFollow
      <4> QED BY <4>1, <4>2
    <3> QED BY <3>2, <3>3
  <2>6. CASE MarkAborting(c)
    <3>1. /\ rpc'[d] = rpc[d] /\ txlog'[Empty] = "none"
          /\ d # c => /\ pc'[d] = pc[d] /\ at'[d] = at[d]
                      /\ order'[d] = order[d] /\ txlog'[d] = txlog[d]
          /\ d = c => /\ pc[d] = "aborting" /\ pc'[d] = "abort" /\ at'[d] = 1
                      /\ order'[d] = order[d] /\ txlog'[d] \in {txlog[d], "ABORTING"}
      BY <1>1, <2>1, <2>2, <2>6 DEF MarkAborting, updateTxStatus, StatusFollows
    <3>2. CASE d # c
      BY <2>1, <3>1, <3>2 DEF CallsFollow, StatusFollows
    <3>3. CASE d = c
      <4>1. CallsFollow(d)'
        BY <2>1, <2>11, <3>1, <3>3 DEF CallsFollow
      <4>2. StatusFollows(d)'
        BY <2>1, <2>11, <3>1, <3>3 DEF StatusFollows, CallsFollow
      <4> QED BY <4>1, <4>2
    <3> QED BY <3>2, <3>3
  <2>7. CASE ConfirmOrder(c)
    <3>1. /\ rpc'[d] = rpc[d] /\ txlog'[Empty] = "none"
          /\ d # c => /\ pc'[d] = pc[d] /\ at'[d] = at[d]
                      /\ order'[d] = order[d] /\ txlog'[d] = txlog[d]
          /\ d = c => /\ pc[d] = "commit" /\ at[d] = N + 1 /\ pc'[d] = "confirmed" /\ at'[d] = at[d]
                      /\ order'[d] \in {order[d], "CONFIRMED"} /\ txlog'[d] = txlog[d]
      BY <1>1, <2>1, <2>2, <2>7 DEF ConfirmOrder, updateOrderStatus, StatusFollows
    <3>2. CASE d # c
      BY <2>1, <3>1, <3>2 DEF CallsFollow, StatusFollows
    <3>3. CASE d = c
      <4>1. CallsFollow(d)'
        BY <2>1, <2>11, <3>1, <3>3 DEF CallsFollow
      <4>2. StatusFollows(d)'
        BY <2>1, <2>11, <3>1, <3>3 DEF StatusFollows, CallsFollow
      <4> QED BY <4>1, <4>2
    <3> QED BY <3>2, <3>3
  <2>8. CASE RejectOrder(c)
    <3>1. /\ rpc'[d] = rpc[d] /\ txlog'[Empty] = "none"
          /\ d # c => /\ pc'[d] = pc[d] /\ at'[d] = at[d]
                      /\ order'[d] = order[d] /\ txlog'[d] = txlog[d]
          /\ d = c => /\ pc[d] = "abort" /\ at[d] = N + 1 /\ pc'[d] = "rejected" /\ at'[d] = at[d]
                      /\ order'[d] \in {order[d], "REJECTED"} /\ txlog'[d] = txlog[d]
      BY <1>1, <2>1, <2>2, <2>8 DEF RejectOrder, updateOrderStatus, StatusFollows
    <3>2. CASE d # c
      BY <2>1, <3>1, <3>2 DEF CallsFollow, StatusFollows
    <3>3. CASE d = c
      <4>1. CallsFollow(d)'
        BY <2>1, <2>11, <3>1, <3>3 DEF CallsFollow
      <4>2. StatusFollows(d)'
        BY <2>1, <2>11, <3>1, <3>3 DEF StatusFollows, CallsFollow
      <4> QED BY <4>1, <4>2
    <3> QED BY <3>2, <3>3
  <2>9. CASE CloseCommitted(c)
    <3>1. /\ rpc'[d] = rpc[d] /\ txlog'[Empty] = "none"
          /\ d # c => /\ pc'[d] = pc[d] /\ at'[d] = at[d]
                      /\ order'[d] = order[d] /\ txlog'[d] = txlog[d]
          /\ d = c => /\ pc[d] = "confirmed" /\ pc'[d] = "COMMITTED" /\ at'[d] = at[d]
                      /\ order'[d] = order[d] /\ txlog'[d] \in {txlog[d], "COMMITTED"}
      BY <1>1, <2>1, <2>2, <2>9 DEF CloseCommitted, updateTxStatus, StatusFollows
    <3>2. CASE d # c
      BY <2>1, <3>1, <3>2 DEF CallsFollow, StatusFollows
    <3>3. CASE d = c
      <4>1. CallsFollow(d)'
        BY <2>1, <2>11, <3>1, <3>3 DEF CallsFollow
      <4>2. StatusFollows(d)'
        BY <2>1, <2>11, <3>1, <3>3 DEF StatusFollows, CallsFollow
      <4> QED BY <4>1, <4>2
    <3> QED BY <3>2, <3>3
  <2>10. CASE CloseAborted(c)
    <3>1. /\ rpc'[d] = rpc[d] /\ txlog'[Empty] = "none"
          /\ d # c => /\ pc'[d] = pc[d] /\ at'[d] = at[d]
                      /\ order'[d] = order[d] /\ txlog'[d] = txlog[d]
          /\ d = c => /\ pc[d] = "rejected" /\ pc'[d] = "ABORTED" /\ at'[d] = at[d]
                      /\ order'[d] = order[d] /\ txlog'[d] \in {txlog[d], "ABORTED"}
      BY <1>1, <2>1, <2>2, <2>10 DEF CloseAborted, updateTxStatus, StatusFollows
    <3>2. CASE d # c
      BY <2>1, <3>1, <3>2 DEF CallsFollow, StatusFollows
    <3>3. CASE d = c
      <4>1. CallsFollow(d)'
        BY <2>1, <2>11, <3>1, <3>3 DEF CallsFollow
      <4>2. StatusFollows(d)'
        BY <2>1, <2>11, <3>1, <3>3 DEF StatusFollows, CallsFollow
      <4> QED BY <4>1, <4>2
    <3> QED BY <3>2, <3>3
  <2> QED BY <2>3, <2>4, <2>5, <2>6, <2>7, <2>8, <2>9, <2>10 DEF CoordinatorWrites
<1> QED BY <1>2, <1>3, <1>4 DEF Inv, CallsInv, StatusInv

LEMMA MovesKeepInv ==
  ASSUME Inv, NEW c \in Checkout, CoordinatorMoves(c)
  PROVE  Inv'
<1> USE DEF Goto
<1>1. UNCHANGED <<rpc, prepared, business, order, txlog>>
  BY DEF CoordinatorMoves, CallSucceeds, PrepareOrCommitFails, AbortFails, ExpireCtx, Crash,
         participantVars
<1>2. TypeOK'
  BY MovesTypeOK DEF Inv
<1>3. RowsFollow'
  BY <1>1 DEF Inv, RowsFollow
<1>4. ASSUME NEW d \in Checkout PROVE CallsFollow(d)' /\ StatusFollows(d)'
  <2>1. CallsFollow(d) /\ StatusFollows(d)
    BY DEF Inv, CallsInv, StatusInv
  <2>2. /\ pc \in [Checkout -> PC] /\ at \in [Checkout -> 1..(N + 1)]
        /\ N \in Nat /\ Participants = 1..N /\ Action = {"prepare", "commit", "abort"}
    BY RequestAssumption, ParticipantAssumption DEF Inv, TypeOK, Participants, Action
  <2>3. ASSUME NEW a \in Action, NEW p \in Participants, CallSucceeds(c, a, p)
        PROVE  CallsFollow(d)' /\ StatusFollows(d)'
    <3>1. CallsFollow(d)'
      BY <1>1, <2>1, <2>2, <2>3 DEF CallSucceeds, Calling, CallsFollow
    <3> QED BY <1>1, <2>1, <2>3, <3>1 DEF CallSucceeds, StatusFollows
  <2>4. ASSUME NEW a \in Action, NEW p \in Participants, PrepareOrCommitFails(c, a, p)
        PROVE  CallsFollow(d)' /\ StatusFollows(d)'
    BY <1>1, <2>1, <2>2, <2>4 DEF PrepareOrCommitFails, Calling, CallsFollow, StatusFollows
  <2>5. ASSUME NEW p \in Participants, AbortFails(c, p)
        PROVE  CallsFollow(d)' /\ StatusFollows(d)'
    BY <1>1, <2>1, <2>2, <2>5 DEF AbortFails, Calling, CallsFollow, StatusFollows
  <2>6. CASE ExpireCtx(c)
    BY <1>1, <2>1, <2>6 DEF ExpireCtx, CallsFollow, StatusFollows
  <2>7. CASE Crash(c)
    BY <1>1, <2>1, <2>2, <2>7 DEF Crash, Finished, CallsFollow, StatusFollows
  <2> QED BY <2>3, <2>4, <2>5, <2>6, <2>7 DEF CoordinatorMoves
<1> QED BY <1>2, <1>3, <1>4 DEF Inv, CallsInv, StatusInv

LEMMA NextKeepsInv == Inv /\ [Next]_vars => Inv'
<1> SUFFICES ASSUME Inv, [Next]_vars PROVE Inv'
  OBVIOUS
<1>1. CASE UNCHANGED vars
  BY <1>1 DEF vars, Inv, TypeOK, ParticipantTypeOK, CallsInv, CallsFollow, StatusInv,
              StatusFollows, RowsFollow
<1>2. ASSUME NEW c \in Checkout, NEW a \in Action, NEW p \in Participants, HandlerStep(c, a, p)
      PROVE  Inv'
  BY <1>2, PrepareKeepsInv, UpdatePreparedKeepsInv, UpdateBusinessKeepsInv
     DEF HandlerStep, Handler
<1> QED BY <1>1, <1>2, NextCases, LoseKeepsInv, SendKeepsInv, WritesKeepInv, MovesKeepInv

LEMMA Invariance == Spec => []Inv
  BY InitInv, NextKeepsInv, PTL DEF Spec

-----------------------------------------------------------------------------
(* What holds under all faults.                                            *)

(* No participant has a committed row unless every participant has one.    *)
THEOREM CommitNeedsEveryVoteHolds == Spec => []CommitNeedsEveryVote
<1>1. Inv => CommitNeedsEveryVote
  <2> SUFFICES ASSUME Inv, NEW c \in Checkout, NEW p \in Participants,
                      business[p][TxOf(c)] = "COMMITTED", NEW q \in Participants
               PROVE  business[q][TxOf(c)] # "none"
    BY DEF CommitNeedsEveryVote
  <2>1. PICK d \in Checkout : TxOf(d) = TxOf(c) /\ rpc[d]["commit"][p] # "none"
    BY TxOfType DEF Inv, RowsFollow
  <2>2. rpc[d]["prepare"][q] = "ok"
    BY <2>1 DEF Inv, CallsInv, CallsFollow
  <2> QED BY <2>1, <2>2 DEF Inv, RowsFollow
<1> QED BY Invariance, <1>1, PTL

(* The order, the log and the calls never tell opposite stories.           *)
THEOREM LogAgreesHolds == Spec => []LogAgrees
<1>1. Inv => LogAgrees
  <2> SUFFICES ASSUME Inv, NEW c \in Checkout
               PROVE  /\ order[c] = "CONFIRMED" \/ txlog[TxOf(c)] = "COMMITTED" =>
                           \A p \in Participants :
                             rpc[c]["commit"][p] = "ok" /\ rpc[c]["abort"][p] = "none"
                      /\ order[c] = "CONFIRMED" => txlog[TxOf(c)] \notin {"ABORTING", "ABORTED"}
                      /\ order[c] = "REJECTED" => txlog[TxOf(c)] # "COMMITTED"
    BY DEF LogAgrees
  <2>1. CallsFollow(c) /\ StatusFollows(c) /\ TxOf(c) \in {c, Empty}
    BY DEF Inv, CallsInv, StatusInv, TxOf
  <2> QED BY <2>1 DEF CallsFollow, StatusFollows
<1> QED BY Invariance, <1>1, PTL

(* In mode "twopc" rows of a txid are written by the calls of its checkout.*)
LEMMA RowsOfOthers ==
  ASSUME TxMode = "twopc", TypeOK, NEW c \in Checkout, NEW d \in Checkout, d # c,
         NEW a \in Action, NEW p \in Participants,
         HandlerStep(c, a, p) \/ LoseCall(c, a, p) \/ PostJSON(c, a, p)
  PROVE  \A q \in Participants : /\ prepared'[q][d] = prepared[q][d]
                                 /\ business'[q][d] = business[q][d]
<1>1. TxOf(c) = c /\ c \in TxID /\ d \in TxID
  BY DEF TxOf, TxID
<1>2. UNCHANGED coordinatorVars
  BY DEF HandlerStep, LoseCall, PostJSON
<1>3. CASE HandlePrepare(c, p)
  BY <1>1, <1>2, <1>3, PrepareEffect DEF RowMoves, TypeOK
<1>4. CASE UpdatePrepared(c, a, p)
  BY <1>1, <1>2, <1>4, UpdatePreparedEffect DEF RowMoves, TypeOK
<1>5. CASE UpdateBusiness(c, a, p)
  BY <1>1, <1>2, <1>5, UpdateBusinessEffect DEF RowMoves, TypeOK
<1>6. CASE LoseCall(c, a, p) \/ PostJSON(c, a, p)
  BY <1>6, LoseEffect, SendEffect DEF TypeOK, LoseCall, PostJSON
<1> QED BY <1>3, <1>4, <1>5, <1>6 DEF HandlerStep, Handler

(* A settled order never changes, and a confirmed one freezes its rows.    *)
THEOREM OutcomeIsFinalHolds == ASSUME TxMode = "twopc" PROVE Spec => OutcomeIsFinal
<1> DEFINE Final ==
      \A c \in Checkout :
        /\ order[c] \in {"CONFIRMED", "REJECTED"} => order'[c] = order[c]
        /\ order[c] = "CONFIRMED" =>
             \A p \in Participants : /\ prepared'[p][TxOf(c)] = prepared[p][TxOf(c)]
                                     /\ business'[p][TxOf(c)] = business[p][TxOf(c)]
<1>1. Inv /\ [Next]_vars => Final
  <2> SUFFICES ASSUME Inv, [Next]_vars, NEW c \in Checkout,
                      order[c] \in {"CONFIRMED", "REJECTED"}
               PROVE  /\ order'[c] = order[c]
                      /\ order[c] = "CONFIRMED" =>
                           \A p \in Participants : /\ prepared'[p][c] = prepared[p][c]
                                                   /\ business'[p][c] = business[p][c]
    BY DEF TxOf
  <2>1. TypeOK /\ CallsFollow(c) /\ StatusFollows(c)
    BY DEF Inv, CallsInv, StatusInv
  <2>2. CASE UNCHANGED vars
    BY <2>2 DEF vars
  <2>3. ASSUME NEW d \in Checkout, CoordinatorWrites(d)
        PROVE  order'[c] = order[c] /\ UNCHANGED <<prepared, business>>
    <3>1. order \in [Checkout -> OrderStatus]
      BY <2>1 DEF TypeOK
    <3> QED BY <2>1, <2>3, <3>1
            DEF CoordinatorWrites, CreateOrder, MarkPreparing, MarkCommitting, MarkAborting,
                ConfirmOrder, RejectOrder, CloseCommitted, CloseAborted, updateOrderStatus,
                participantVars, StatusFollows
  <2>4. ASSUME NEW d \in Checkout, CoordinatorMoves(d)
        PROVE  UNCHANGED <<order, prepared, business>>
    BY <2>4 DEF CoordinatorMoves, CallSucceeds, PrepareOrCommitFails, AbortFails, ExpireCtx,
                Crash, participantVars
  <2>5. ASSUME NEW d \in Checkout, NEW a \in Action, NEW p \in Participants,
               HandlerStep(d, a, p) \/ LoseCall(d, a, p) \/ PostJSON(d, a, p)
        PROVE  /\ order' = order
               /\ order[c] = "CONFIRMED" =>
                    \A q \in Participants : /\ prepared'[q][c] = prepared[q][c]
                                            /\ business'[q][c] = business[q][c]
    <3>1. order' = order
      BY <2>5 DEF HandlerStep, LoseCall, PostJSON, coordinatorVars
    <3>2. CASE d # c
      BY <2>1, <2>5, <3>1, <3>2, RowsOfOthers
    <3>3. CASE d = c /\ order[c] = "CONFIRMED"
      <4>1. rpc[c][a][p] \notin {"open", "half"}
        BY <2>1, <3>3 DEF StatusFollows, CallsFollow, Action
      <4>2. ~HandlerStep(c, a, p)
        BY <4>1 DEF HandlerStep, Handler, HandlePrepare, UpdatePrepared, UpdateBusiness
      <4> QED BY <2>1, <2>5, <3>1, <3>3, <4>2, LoseEffect, SendEffect DEF TypeOK, LoseCall, PostJSON
    <3> QED BY <3>1, <3>2, <3>3
  <2> QED BY <2>2, <2>3, <2>4, <2>5, NextCases
<1> QED BY Invariance, <1>1, PTL DEF Spec, OutcomeIsFinal

-----------------------------------------------------------------------------
(* What holds as long as some faults stay away.  The second invariant is   *)
(* about mode "twopc", where the txid of checkout c is c.                  *)

Decided == {"COMMITTING", "ABORTING", "COMMITTED", "ABORTED"}

(* Statements do not fail: a 200 to commit means committed rows, and the   *)
(* log carries the decision before any commit is called.                   *)
StatementsSucceed(c) ==
  /\ pc[c] \notin {"start", "error", "crashed"} => txlog[c] # "none"
  /\ pc[c] = "commit" /\ ctx[c] = "live" => txlog[c] \in Decided
  /\ \A p \in Participants :
       /\ rpc[c]["commit"][p] # "none" => txlog[c] \in Decided
       /\ rpc[c]["abort"][p] = "none" =>
            /\ rpc[c]["commit"][p] \in {"half", "ok"} => prepared[p][c] = "COMMITTED"
            /\ rpc[c]["commit"][p] = "ok" => business[p][c] = "COMMITTED"

(* Calls are not lost: an abort is only sent when a vote was no, so that   *)
(* no prepare is under way and no commit was called.                       *)
CallsArrive(c) ==
  \A p, q \in Participants :
    /\ rpc[c]["commit"][p] # "no"
    /\ rpc[c]["abort"][p] # "none" => /\ rpc[c]["commit"][q] = "none"
                                      /\ rpc[c]["prepare"][q] # "open"
    /\ pc[c] \in {"aborting", "abort"} /\ ctx[c] = "live" =>
         rpc[c]["commit"][p] = "none" /\ rpc[c]["prepare"][p] # "open"

(* Contexts do not expire: the loop of twopcAbort calls everybody.         *)
ContextLives(c) ==
  /\ ctx[c] = "live"
  /\ \A p \in Participants :
       \/ pc[c] = "abort" /\ p < at[c]
       \/ pc[c] \in {"rejected", "ABORTED"}
       => rpc[c]["abort"][p] # "none"

FaultInv ==
  \A c \in Checkout :
    /\ "db" \notin faults => StatementsSucceed(c)
    /\ "call" \notin faults => CallsArrive(c)
    /\ "ctx" \notin faults => ContextLives(c)
    /\ {"db", "call"} \cap faults = {} =>
         \A p \in Participants : rpc[c]["abort"][p] = "ok" => business[p][c] # "PREPARED"

StrongInv == Inv /\ FaultInv

LEMMA InitFaultInv == Init => FaultInv
<1> SUFFICES ASSUME Init, NEW c \in Checkout
             PROVE  /\ StatementsSucceed(c) /\ CallsArrive(c) /\ ContextLives(c)
                    /\ \A p \in Participants :
                         rpc[c]["abort"][p] = "ok" => business[p][c] # "PREPARED"
  BY DEF FaultInv
<1>1. /\ \A a \in Action, p \in Participants : rpc[c][a][p] = "none"
      /\ pc[c] = "start" /\ ctx[c] = "live"
  BY DEF Init, ParticipantInit
<1> QED BY <1>1 DEF StatementsSucceed, CallsArrive, ContextLives, Action

(* The calls of one checkout do not disturb what is said of another.       *)
LEMMA OthersKeepFaultInv ==
  ASSUME TxMode = "twopc", StrongInv, NEW c \in Checkout, NEW a \in Action,
         NEW p \in Participants, NEW d \in Checkout, d # c,
         HandlerStep(c, a, p) \/ LoseCall(c, a, p) \/ PostJSON(c, a, p)
  PROVE  /\ StatementsSucceed(d) => StatementsSucceed(d)'
         /\ CallsArrive(d) => CallsArrive(d)'
         /\ ContextLives(d) => ContextLives(d)'
         /\ \A q \in Participants : /\ rpc'[d]["abort"][q] = rpc[d]["abort"][q]
                                    /\ business'[q][d] = business[q][d]
<1>1. TypeOK
  BY DEF StrongInv, Inv
<1>2. \A q \in Participants : prepared'[q][d] = prepared[q][d] /\ business'[q][d] = business[q][d]
  BY <1>1, RowsOfOthers
<1>3. UNCHANGED coordinatorVars
  BY DEF HandlerStep, LoseCall, PostJSON
<1>4. \A b \in Action, q \in Participants : rpc'[d][b][q] = rpc[d][b][q]
  <2>1. CASE HandlePrepare(c, p)
    BY <1>1, <1>3, <2>1, PrepareEffect DEF CallMoves, TypeOK
  <2>2. CASE UpdatePrepared(c, a, p)
    BY <1>1, <1>3, <2>2, UpdatePreparedEffect DEF CallMoves, TypeOK
  <2>3. CASE UpdateBusiness(c, a, p)
    BY <1>1, <1>3, <2>3, UpdateBusinessEffect DEF CallMoves, TypeOK
  <2>4. CASE LoseCall(c, a, p)
    BY <1>1, <2>4, LoseEffect DEF CallMoves, TypeOK, LoseCall
  <2>5. CASE PostJSON(c, a, p)
    BY <1>1, <2>5, SendEffect DEF CallMoves, TypeOK, PostJSON
  <2> QED BY <2>1, <2>2, <2>3, <2>4, <2>5 DEF HandlerStep, Handler
<1> QED BY <1>2, <1>3, <1>4
        DEF StatementsSucceed, CallsArrive, ContextLives, coordinatorVars, Action

(* Those of the same checkout keep it, one handler step at a time.         *)
LEMMA PrepareKeepsFaultInv ==
  ASSUME TxMode = "twopc", StrongInv, NEW c \in Checkout, NEW p \in Participants,
         HandlePrepare(c, p), UNCHANGED coordinatorVars
  PROVE  /\ StatementsSucceed(c) => StatementsSucceed(c)'
         /\ CallsArrive(c) => CallsArrive(c)'
         /\ ContextLives(c) => ContextLives(c)'
         /\ CallsArrive(c) =>
              \A q \in Participants : rpc'[c]["abort"][q] = "ok" => business'[q][c] # "PREPARED"
<1>1. /\ CallMoves(c, "prepare", p, {"open"}, {"ok", "no"})
      /\ RowMoves(prepared, prepared', p, c)
      /\ RowMoves(business, business', p, c)
      /\ \/ UNCHANGED <<prepared, business>>
         \/ /\ prepared'[p][c] = IF prepared[p][c] = "none" THEN "PREPARED" ELSE prepared[p][c]
            /\ business'[p][c] = IF business[p][c] = "none" THEN "PREPARED" ELSE business[p][c]
  BY PrepareEffect DEF StrongInv, Inv, TxOf, TypeOK
<1>2. UNCHANGED <<order, txlog, pc, at, ctx, faults>> /\ c \in TxID
      /\ {"prepare", "commit", "abort"} = Action
  BY DEF coordinatorVars, TxID, Action
<1>3. /\ \A b \in Action, q \in Participants :
           ~(b = "prepare" /\ q = p) => rpc'[c][b][q] = rpc[c][b][q]
      /\ rpc[c]["prepare"][p] = "open" /\ rpc'[c]["prepare"][p] # "open"
  BY <1>1 DEF CallMoves
<1>4. \A q \in Participants :
        /\ prepared[q][c] = "COMMITTED" => prepared'[q][c] = "COMMITTED"
        /\ business[q][c] = "COMMITTED" => business'[q][c] = "COMMITTED"
  BY <1>1, <1>2 DEF RowMoves
<1>5. StatementsSucceed(c) => StatementsSucceed(c)'
  BY <1>2, <1>3, <1>4 DEF StatementsSucceed
<1>6. CallsArrive(c) => CallsArrive(c)'
  BY <1>2, <1>3 DEF CallsArrive
<1>7. ContextLives(c) => ContextLives(c)'
  BY <1>2, <1>3 DEF ContextLives
<1>8. CallsArrive(c) => \A q \in Participants : rpc'[c]["abort"][q] = "none"
  BY <1>2, <1>3 DEF CallsArrive
<1> QED BY <1>5, <1>6, <1>7, <1>8

LEMMA UpdatePreparedKeepsFaultInv ==
  ASSUME TxMode = "twopc", StrongInv, NEW c \in Checkout, NEW a \in Action,
         NEW p \in Participants, UpdatePrepared(c, a, p), UNCHANGED coordinatorVars
  PROVE  /\ "db" \notin faults /\ StatementsSucceed(c) => StatementsSucceed(c)'
         /\ CallsArrive(c) => CallsArrive(c)'
         /\ ContextLives(c) => ContextLives(c)'
         /\ business' = business
         /\ \A q \in Participants : rpc'[c]["abort"][q] = "ok" => rpc[c]["abort"][q] = "ok"
<1>1. /\ a \in {"commit", "abort"}
      /\ CallMoves(c, a, p, {"open"}, {"half"})
      /\ UNCHANGED business
      /\ RowMoves(prepared, prepared', p, c)
      /\ \/ "db" \in faults
         \/ prepared'[p][c] = IF prepared[p][c] = "none" THEN "none" ELSE FinalStatus(a)
  BY UpdatePreparedEffect DEF StrongInv, Inv, TxOf, TypeOK
<1>2. UNCHANGED <<order, txlog, pc, at, ctx, faults>> /\ c \in TxID
      /\ {"prepare", "commit", "abort"} = Action
  BY DEF coordinatorVars, TxID, Action
<1>3. \A b \in Action, q \in Participants :
        IF b = a /\ q = p THEN rpc[c][b][q] = "open" /\ rpc'[c][b][q] = "half"
                          ELSE rpc'[c][b][q] = rpc[c][b][q]
  BY <1>1 DEF CallMoves
<1>4. a = "commit" => prepared[p][c] # "none"
  BY <1>2, <1>3 DEF StrongInv, Inv, CallsInv, CallsFollow, RowsFollow, TxOf
<1>5. "db" \notin faults /\ StatementsSucceed(c) => StatementsSucceed(c)'
  <2> SUFFICES ASSUME "db" \notin faults, StatementsSucceed(c), NEW q \in Participants
               PROVE  /\ rpc'[c]["commit"][q] # "none" => txlog[c] \in Decided
                      /\ rpc'[c]["abort"][q] = "none" =>
                           /\ rpc'[c]["commit"][q] \in {"half", "ok"} =>
                                prepared'[q][c] = "COMMITTED"
                           /\ rpc'[c]["commit"][q] = "ok" => business[q][c] = "COMMITTED"
    BY <1>1, <1>2 DEF StatementsSucceed
  <2>1. CASE q = p
    BY <1>1, <1>2, <1>3, <1>4, <2>1 DEF StatementsSucceed, FinalStatus
  <2>2. CASE q # p
    BY <1>1, <1>2, <1>3, <2>2 DEF StatementsSucceed, RowMoves
  <2> QED BY <2>1, <2>2
<1>6. CallsArrive(c) => CallsArrive(c)'
  BY <1>1, <1>2, <1>3 DEF CallsArrive
<1>7. ContextLives(c) => ContextLives(c)'
  BY <1>2, <1>3 DEF ContextLives
<1> QED BY <1>1, <1>2, <1>3, <1>5, <1>6, <1>7

LEMMA UpdateBusinessKeepsFaultInv ==
  ASSUME TxMode = "twopc", StrongInv, NEW c \in Checkout, NEW a \in Action,
         NEW p \in Participants, UpdateBusiness(c, a, p), UNCHANGED coordinatorVars
  PROVE  /\ "db" \notin faults /\ StatementsSucceed(c) => StatementsSucceed(c)'
         /\ CallsArrive(c) => CallsArrive(c)'
         /\ ContextLives(c) => ContextLives(c)'
         /\ \A q \in Participants :
              /\ "db" \notin faults
              /\ rpc[c]["abort"][q] = "ok" => business[q][c] # "PREPARED"
              => (rpc'[c]["abort"][q] = "ok" => business'[q][c] # "PREPARED")
<1>1. /\ CallMoves(c, a, p, {"half"}, {"ok"})
      /\ UNCHANGED prepared
      /\ RowMoves(business, business', p, c)
      /\ \/ "db" \in faults
         \/ business'[p][c] = IF business[p][c] = "none" THEN "none" ELSE FinalStatus(a)
  BY UpdateBusinessEffect DEF StrongInv, Inv, TxOf, TypeOK
<1>2. UNCHANGED <<order, txlog, pc, at, ctx, faults>> /\ c \in TxID
      /\ {"prepare", "commit", "abort"} = Action
  BY DEF coordinatorVars, TxID, Action
<1>3. \A b \in Action, q \in Participants :
        IF b = a /\ q = p THEN rpc[c][b][q] = "half" /\ rpc'[c][b][q] = "ok"
                          ELSE rpc'[c][b][q] = rpc[c][b][q]
  BY <1>1 DEF CallMoves
<1>4. /\ a # "prepare"
      /\ a = "commit" => business[p][c] # "none"
  BY <1>2, <1>3 DEF StrongInv, Inv, CallsInv, CallsFollow, RowsFollow, TxOf
<1>5. "db" \notin faults /\ StatementsSucceed(c) => StatementsSucceed(c)'
  <2> SUFFICES ASSUME "db" \notin faults, StatementsSucceed(c), NEW q \in Participants
               PROVE  /\ rpc'[c]["commit"][q] # "none" => txlog[c] \in Decided
                      /\ rpc'[c]["abort"][q] = "none" =>
                           /\ rpc'[c]["commit"][q] \in {"half", "ok"} =>
                                prepared[q][c] = "COMMITTED"
                           /\ rpc'[c]["commit"][q] = "ok" => business'[q][c] = "COMMITTED"
    BY <1>1, <1>2 DEF StatementsSucceed
  <2>1. CASE q = p
    BY <1>1, <1>2, <1>3, <1>4, <2>1 DEF StatementsSucceed, FinalStatus
  <2>2. CASE q # p
    BY <1>1, <1>2, <1>3, <2>2 DEF StatementsSucceed, RowMoves
  <2> QED BY <2>1, <2>2
<1>6. CallsArrive(c) => CallsArrive(c)'
  BY <1>2, <1>3 DEF CallsArrive
<1>7. ContextLives(c) => ContextLives(c)'
  BY <1>2, <1>3 DEF ContextLives
<1>8. ASSUME NEW q \in Participants, "db" \notin faults,
             rpc[c]["abort"][q] = "ok" => business[q][c] # "PREPARED",
             rpc'[c]["abort"][q] = "ok"
      PROVE  business'[q][c] # "PREPARED"
  <2>1. CASE q = p
    <3>1. FinalStatus(a) # "PREPARED"
      BY DEF FinalStatus
    <3> QED BY <1>1, <1>8, <2>1, <3>1
  <2>2. CASE q # p
    BY <1>1, <1>2, <1>3, <1>8, <2>2 DEF RowMoves
  <2> QED BY <2>1, <2>2
<1> QED BY <1>5, <1>6, <1>7, <1>8

LEMMA LoseKeepsFaultInv ==
  ASSUME StrongInv, NEW c \in Checkout, NEW a \in Action, NEW p \in Participants,
         LoseCall(c, a, p)
  PROVE  /\ StatementsSucceed(c) => StatementsSucceed(c)'
         /\ CallsArrive(c) => CallsArrive(c)'
         /\ ContextLives(c) => ContextLives(c)'
         /\ business' = business
         /\ \A q \in Participants : rpc'[c]["abort"][q] = "ok" => rpc[c]["abort"][q] = "ok"
<1>1. /\ CallMoves(c, a, p, {"open", "half"}, {"lost"})
      /\ UNCHANGED <<prepared, business>>
  BY LoseEffect DEF StrongInv, Inv, TypeOK, LoseCall
<1>2. UNCHANGED <<order, txlog, pc, at, ctx, faults>>
      /\ {"prepare", "commit", "abort"} = Action
  BY DEF coordinatorVars, LoseCall, Action
<1>3. \A b \in Action, q \in Participants :
        IF b = a /\ q = p THEN rpc[c][b][q] # "none" /\ rpc'[c][b][q] = "lost"
                          ELSE rpc'[c][b][q] = rpc[c][b][q]
  BY <1>1 DEF CallMoves
<1>4. StatementsSucceed(c) => StatementsSucceed(c)'
  BY <1>1, <1>2, <1>3 DEF StatementsSucceed
<1>5. CallsArrive(c) => CallsArrive(c)'
  BY <1>2, <1>3 DEF CallsArrive
<1>6. ContextLives(c) => ContextLives(c)'
  BY <1>2, <1>3 DEF ContextLives
<1> QED BY <1>1, <1>2, <1>3, <1>4, <1>5, <1>6

(* A call is sent with a live context, from where the goroutine stands.    *)
LEMMA SendKeepsFaultInv ==
  ASSUME StrongInv, NEW c \in Checkout, NEW a \in Action, NEW p \in Participants,
         PostJSON(c, a, p)
  PROVE  /\ StatementsSucceed(c) => StatementsSucceed(c)'
         /\ CallsArrive(c) => CallsArrive(c)'
         /\ ContextLives(c) => ContextLives(c)'
         /\ business' = business
         /\ \A q \in Participants : rpc'[c]["abort"][q] = "ok" => rpc[c]["abort"][q] = "ok"
<1>1. /\ CallMoves(c, a, p, {"none"}, {"open"})
      /\ UNCHANGED <<prepared, business>>
  BY SendEffect DEF StrongInv, Inv, TypeOK, PostJSON
<1>2. /\ UNCHANGED <<order, txlog, pc, at, ctx, faults>>
      /\ {"prepare", "commit", "abort"} = Action
      /\ pc[c] = a /\ ctx[c] = "live"
  BY DEF coordinatorVars, PostJSON, Calling, Action
<1>3. \A b \in Action, q \in Participants :
        IF b = a /\ q = p THEN rpc[c][b][q] = "none" /\ rpc'[c][b][q] = "open"
                          ELSE rpc'[c][b][q] = rpc[c][b][q]
  BY <1>1 DEF CallMoves
<1>4. CallsFollow(c)
  BY DEF StrongInv, Inv, CallsInv
<1>5. StatementsSucceed(c) => StatementsSucceed(c)'
  BY <1>1, <1>2, <1>3 DEF StatementsSucceed
<1>6. CallsArrive(c) => CallsArrive(c)'
  BY <1>2, <1>3, <1>4 DEF CallsArrive, CallsFollow
<1>7. ContextLives(c) => ContextLives(c)'
  BY <1>2, <1>3 DEF ContextLives
<1> QED BY <1>1, <1>2, <1>3, <1>5, <1>6, <1>7

LEMMA CallsKeepFaultInv ==
  ASSUME TxMode = "twopc", StrongInv, NEW c \in Checkout, NEW a \in Action,
         NEW p \in Participants,
         HandlerStep(c, a, p) \/ LoseCall(c, a, p) \/ PostJSON(c, a, p)
  PROVE  FaultInv'
<1>1. UNCHANGED coordinatorVars /\ faults' = faults
  BY DEF HandlerStep, LoseCall, PostJSON, coordinatorVars
<1> SUFFICES ASSUME NEW d \in Checkout
             PROVE  /\ "db" \notin faults => StatementsSucceed(d)'
                    /\ "call" \notin faults => CallsArrive(d)'
                    /\ "ctx" \notin faults => ContextLives(d)'
                    /\ {"db", "call"} \cap faults = {} =>
                         \A q \in Participants :
                           rpc'[d]["abort"][q] = "ok" => business'[q][d] # "PREPARED"
  BY <1>1 DEF FaultInv
<1>2. /\ "db" \notin faults => StatementsSucceed(d)
      /\ "call" \notin faults => CallsArrive(d)
      /\ "ctx" \notin faults => ContextLives(d)
      /\ {"db", "call"} \cap faults = {} =>
           \A q \in Participants : rpc[d]["abort"][q] = "ok" => business[q][d] # "PREPARED"
  BY DEF StrongInv, FaultInv
<1>3. CASE d # c
  BY <1>2, <1>3, OthersKeepFaultInv
<1>4. CASE d = c
  <2>1. CASE HandlePrepare(c, p)
    BY <1>1, <1>2, <1>4, <2>1, PrepareKeepsFaultInv
  <2>2. CASE UpdatePrepared(c, a, p)
    BY <1>1, <1>2, <1>4, <2>2, UpdatePreparedKeepsFaultInv
  <2>3. CASE UpdateBusiness(c, a, p)
    BY <1>1, <1>2, <1>4, <2>3, UpdateBusinessKeepsFaultInv
  <2>4. CASE LoseCall(c, a, p)
    BY <1>2, <1>4, <2>4, LoseKeepsFaultInv
  <2>5. CASE PostJSON(c, a, p)
    BY <1>2, <1>4, <2>5, SendKeepsFaultInv
  <2> QED BY <2>1, <2>2, <2>3, <2>4, <2>5 DEF HandlerStep, Handler
<1> QED BY <1>3, <1>4

(* The coordinator's writes: with a live context and statements that do    *)
(* not fail, each takes effect.                                            *)
LEMMA WritesKeepFaultInv ==
  ASSUME TxMode = "twopc", StrongInv, NEW c \in Checkout, CoordinatorWrites(c)
  PROVE  FaultInv'
<1> USE DEF Goto, Enter
<1>1. /\ UNCHANGED <<rpc, prepared, business, ctx, faults>>
      /\ TxOf(c) = c
  BY DEF CoordinatorWrites, CreateOrder, MarkPreparing, MarkCommitting, MarkAborting,
         ConfirmOrder, RejectOrder, CloseCommitted, CloseAborted, participantVars, TxOf
<1> SUFFICES ASSUME NEW d \in Checkout
             PROVE  /\ "db" \notin faults => StatementsSucceed(d)'
                    /\ "call" \notin faults => CallsArrive(d)'
                    /\ "ctx" \notin faults => ContextLives(d)'
  BY <1>1 DEF StrongInv, FaultInv
<1>2. /\ "db" \notin faults => StatementsSucceed(d)
      /\ "call" \notin faults => CallsArrive(d)
      /\ "ctx" \notin faults => ContextLives(d)
      /\ CallsFollow(d)
  BY DEF StrongInv, FaultInv, Inv, CallsInv
<1>3. /\ pc \in [Checkout -> PC] /\ at \in [Checkout -> 1..(N + 1)]
      /\ txlog \in [TxID -> LogStatus]
      /\ c \in TxID /\ d \in TxID /\ c # Empty
      /\ N \in Nat /\ Participants = 1..N /\ Action = {"prepare", "commit", "abort"}
  BY RequestAssumption, ParticipantAssumption DEF StrongInv, Inv, TypeOK, TxID, Participants, Action
<1>4. "db" \notin faults /\ ctx[c] = "live" => Writes(c) = {TRUE}
  BY DEF Writes, StatementResults
<1>5. "db" \notin faults => StatementsSucceed(d)'
  <2> SUFFICES ASSUME "db" \notin faults PROVE StatementsSucceed(d)'
    OBVIOUS
  <2>1. StatementsSucceed(d)
    BY <1>2
  <2>2. CASE CreateOrder(c)
    BY <1>1, <1>2, <1>3, <2>1, <2>2 DEF CreateOrder, StatementsSucceed, CallsFollow
  <2>3. CASE MarkPreparing(c)
    BY <1>1, <1>2, <1>3, <2>1, <2>3
       DEF MarkPreparing, updateTxStatus, StatementsSucceed, CallsFollow
  <2>4. CASE MarkCommitting(c)
    <3>1. CASE d # c
      BY <1>1, <1>3, <2>1, <2>4, <3>1 DEF MarkCommitting, updateTxStatus, StatementsSucceed
    <3>2. CASE d = c
      <4>1. /\ \A p \in Participants : rpc[c]["commit"][p] = "none"
            /\ txlog[c] # "none"
        BY <1>2, <2>1, <2>4, <3>2 DEF MarkCommitting, CallsFollow, StatementsSucceed
      <4>2. /\ txlog'[c] # "none"
            /\ ctx[c] = "live" => txlog'[c] = "COMMITTING"
        <5>1. PICK done \in Writes(c) :
                txlog' = [txlog EXCEPT ![c] = IF done /\ @ # "none" THEN "COMMITTING" ELSE @]
          BY <1>1, <2>4 DEF MarkCommitting, updateTxStatus
        <5>2. ctx[c] = "live" => done = TRUE
          BY <1>4, <5>1
        <5>3. txlog'[c] = IF done /\ txlog[c] # "none" THEN "COMMITTING" ELSE txlog[c]
          BY <1>3, <5>1
        <5> QED BY <4>1, <5>2, <5>3
      <4> QED BY <1>1, <1>3, <2>4, <3>2, <4>1, <4>2 DEF StatementsSucceed, Decided
    <3> QED BY <3>1, <3>2
  <2>5. CASE MarkAborting(c)
    BY <1>1, <1>3, <2>1, <2>5 DEF MarkAborting, updateTxStatus, StatementsSucceed, Decided
  <2>6. CASE ConfirmOrder(c) \/ RejectOrder(c)
    BY <1>1, <1>3, <2>1, <2>6 DEF ConfirmOrder, RejectOrder, StatementsSucceed
  <2>7. CASE CloseCommitted(c) \/ CloseAborted(c)
    BY <1>1, <1>3, <2>1, <2>7
       DEF CloseCommitted, CloseAborted, updateTxStatus, StatementsSucceed, Decided
  <2> QED BY <2>2, <2>3, <2>4, <2>5, <2>6, <2>7 DEF CoordinatorWrites
<1>6. CallsArrive(d) => CallsArrive(d)'
  BY <1>1, <1>3 DEF CoordinatorWrites, CreateOrder, MarkPreparing, MarkCommitting,
     MarkAborting, ConfirmOrder, RejectOrder, CloseCommitted, CloseAborted, CallsArrive
<1>7. ContextLives(d) => ContextLives(d)'
  BY <1>1, <1>3 DEF CoordinatorWrites, CreateOrder, MarkPreparing, MarkCommitting,
     MarkAborting, ConfirmOrder, RejectOrder, CloseCommitted, CloseAborted, ContextLives
<1> QED BY <1>2, <1>5, <1>6, <1>7

LEMMA MovesKeepFaultInv ==
  ASSUME StrongInv, NEW c \in Checkout, CoordinatorMoves(c)
  PROVE  FaultInv'
<1> USE DEF Goto
<1>1. UNCHANGED <<rpc, prepared, business, txlog, faults>>
  BY DEF CoordinatorMoves, CallSucceeds, PrepareOrCommitFails, AbortFails, ExpireCtx, Crash,
         participantVars
<1> SUFFICES ASSUME NEW d \in Checkout
             PROVE  /\ "db" \notin faults => StatementsSucceed(d)'
                    /\ "call" \notin faults => CallsArrive(d)'
                    /\ "ctx" \notin faults => ContextLives(d)'
  BY <1>1 DEF StrongInv, FaultInv
<1>2. /\ "db" \notin faults => StatementsSucceed(d)
      /\ "call" \notin faults => CallsArrive(d)
      /\ "ctx" \notin faults => ContextLives(d)
      /\ CallsFollow(d)
  BY DEF StrongInv, FaultInv, Inv, CallsInv
<1>3. /\ pc \in [Checkout -> PC] /\ at \in [Checkout -> 1..(N + 1)]
      /\ ctx \in [Checkout -> {"live", "dead"}]
      /\ N \in Nat /\ Participants = 1..N /\ Action = {"prepare", "commit", "abort"}
  BY RequestAssumption, ParticipantAssumption DEF StrongInv, Inv, TypeOK, Participants, Action
<1> DEFINE Kept == /\ "db" \notin faults => StatementsSucceed(d)'
                   /\ "call" \notin faults => CallsArrive(d)'
                   /\ "ctx" \notin faults => ContextLives(d)'
<1>4. ASSUME NEW a \in Action, NEW p \in Participants, CallSucceeds(c, a, p)
      PROVE  Kept
  <2>1. StatementsSucceed(d) => StatementsSucceed(d)'
    BY <1>1, <1>3, <1>4 DEF CallSucceeds, StatementsSucceed
  <2>2. CallsArrive(d) => CallsArrive(d)'
    BY <1>1, <1>3, <1>4 DEF CallSucceeds, CallsArrive
  <2>3. ContextLives(d) => ContextLives(d)'
    BY <1>1, <1>3, <1>4 DEF CallSucceeds, Calling, ContextLives
  <2> QED BY <1>2, <2>1, <2>2, <2>3
<1>5. ASSUME NEW a \in Action, NEW p \in Participants, PrepareOrCommitFails(c, a, p)
      PROVE  Kept
  <2>1. StatementsSucceed(d) => StatementsSucceed(d)'
    BY <1>1, <1>3, <1>5 DEF PrepareOrCommitFails, Calling, StatementsSucceed
  <2>2. "call" \notin faults /\ CallsArrive(d) => CallsArrive(d)'
    <3>1. CASE d # c
      <4>1. pc'[d] = pc[d] /\ ctx'[d] = ctx[d]
        BY <1>3, <1>5, <3>1 DEF PrepareOrCommitFails
      <4> QED BY <1>1, <4>1 DEF CallsArrive
    <3>2. CASE d = c
      <4>1. pc'[c] = "aborting" /\ ctx'[c] = ctx[c]
        BY <1>3, <1>5 DEF PrepareOrCommitFails
      <4> SUFFICES ASSUME "call" \notin faults, CallsArrive(c), ctx[c] = "live",
                          NEW q \in Participants
                   PROVE  rpc[c]["commit"][q] = "none" /\ rpc[c]["prepare"][q] # "open"
        BY <1>1, <3>2, <4>1 DEF CallsArrive
      <4>2. pc[c] = a /\ at[c] = p /\ rpc[c][a][p] = "no"
        BY <1>5 DEF PrepareOrCommitFails, Calling, CallError
      <4>3. a = "prepare"
        BY <1>5, <4>2 DEF PrepareOrCommitFails, CallsArrive
      <4> QED BY <1>2, <1>3, <3>2, <4>2, <4>3 DEF CallsFollow
    <3> QED BY <3>1, <3>2
  <2>3. ContextLives(d) => ContextLives(d)'
    BY <1>1, <1>3, <1>5 DEF PrepareOrCommitFails, ContextLives
  <2> QED BY <1>2, <2>1, <2>2, <2>3
<1>6. ASSUME NEW p \in Participants, AbortFails(c, p)
      PROVE  Kept
  <2>1. StatementsSucceed(d) => StatementsSucceed(d)'
    BY <1>1, <1>3, <1>6 DEF AbortFails, StatementsSucceed
  <2>2. CallsArrive(d) => CallsArrive(d)'
    BY <1>1, <1>3, <1>6 DEF AbortFails, CallsArrive
  <2>3. ContextLives(d) => ContextLives(d)'
    BY <1>1, <1>3, <1>6 DEF AbortFails, Calling, CallError, ContextLives
  <2> QED BY <1>2, <2>1, <2>2, <2>3
<1>7. CASE ExpireCtx(c)
  <2>1. StatementsSucceed(d) => StatementsSucceed(d)'
    BY <1>1, <1>3, <1>7 DEF ExpireCtx, StatementsSucceed
  <2>2. CallsArrive(d) => CallsArrive(d)'
    BY <1>1, <1>3, <1>7 DEF ExpireCtx, CallsArrive
  <2> QED BY <1>2, <1>7, <2>1, <2>2 DEF ExpireCtx
<1>8. CASE Crash(c)
  <2>1. StatementsSucceed(d) => StatementsSucceed(d)'
    BY <1>1, <1>3, <1>8 DEF Crash, StatementsSucceed
  <2>2. CallsArrive(d) => CallsArrive(d)'
    BY <1>1, <1>3, <1>8 DEF Crash, CallsArrive
  <2>3. ContextLives(d) => ContextLives(d)'
    BY <1>1, <1>3, <1>8 DEF Crash, ContextLives
  <2> QED BY <1>2, <2>1, <2>2, <2>3
<1> QED BY <1>4, <1>5, <1>6, <1>7, <1>8 DEF CoordinatorMoves

(* The second invariant, for mode "twopc".                                 *)
LEMMA StrongInvariance == ASSUME TxMode = "twopc" PROVE Spec => []StrongInv
<1>1. StrongInv /\ [Next]_vars => StrongInv'
  <2> SUFFICES ASSUME StrongInv, [Next]_vars PROVE StrongInv'
    OBVIOUS
  <2>1. Inv'
    BY NextKeepsInv DEF StrongInv
  <2>2. UNCHANGED vars => FaultInv'
    BY DEF vars, StrongInv, FaultInv, StatementsSucceed, CallsArrive, ContextLives
  <2>3. FaultInv'
    BY <2>2, NextCases, CallsKeepFaultInv, WritesKeepFaultInv, MovesKeepFaultInv DEF StrongInv
  <2> QED BY <2>1, <2>3 DEF StrongInv
<1> QED BY InitInv, InitFaultInv, <1>1, PTL DEF Spec, StrongInv

(* A confirmed order is backed by committed rows everywhere, as long as    *)
(* statements do not fail.                                                 *)
THEOREM ConfirmedIsBackedHolds == ASSUME TxMode = "twopc" PROVE Spec => []ConfirmedIsBacked
<1>1. StrongInv => ConfirmedIsBacked
  BY DEF StrongInv, FaultInv, StatementsSucceed, Inv, StatusInv, StatusFollows,
         ConfirmedIsBacked, TxOf
<1> QED BY StrongInvariance, <1>1, PTL

(* The log shows the decision before any participant commits, as long as   *)
(* statements do not fail.                                                 *)
THEOREM DecisionBeforeCommitHolds ==
  ASSUME TxMode = "twopc" PROVE Spec => []DecisionBeforeCommit
<1>1. StrongInv => DecisionBeforeCommit
  <2> SUFFICES ASSUME StrongInv, "db" \notin faults, NEW c \in Checkout, NEW p \in Participants,
                      prepared[p][c] = "COMMITTED" \/ business[p][c] = "COMMITTED"
               PROVE  txlog[c] \notin {"none", "STARTED", "PREPARING"}
    BY DEF DecisionBeforeCommit
  <2>1. PICK d \in Checkout : TxOf(d) = c /\ rpc[d]["commit"][p] # "none"
    BY DEF StrongInv, Inv, RowsFollow, TxID
  <2>2. d = c
    BY <2>1 DEF TxOf
  <2> QED BY <2>1, <2>2 DEF StrongInv, FaultInv, StatementsSucceed, Decided
<1> QED BY StrongInvariance, <1>1, PTL

(* An abort that was answered leaves nothing reserved, as long as          *)
(* statements do not fail and calls are not lost.                          *)
THEOREM ReleasedOnAbortHolds == ASSUME TxMode = "twopc" PROVE Spec => []ReleasedOnAbort
<1>1. StrongInv => ReleasedOnAbort
  BY DEF StrongInv, FaultInv, ReleasedOnAbort, Released, TxOf
<1> QED BY StrongInvariance, <1>1, PTL

(* Whoever was called to prepare is called to abort before the client      *)
(* learns ABORTED, as long as contexts do not expire.                      *)
THEOREM AbortReachesPreparedHolds ==
  ASSUME TxMode = "twopc" PROVE Spec => []AbortReachesPrepared
<1>1. StrongInv => AbortReachesPrepared
  BY DEF StrongInv, FaultInv, ContextLives, AbortReachesPrepared
<1> QED BY StrongInvariance, <1>1, PTL

(* A committed row stays committed, as long as calls are not lost.         *)
THEOREM CommitIsFinalHolds ==
  ASSUME TxMode = "twopc" PROVE Spec => CommitIsFinalIfCallsArrive
<1>1. StrongInv /\ [Next]_vars => ("call" \notin faults => CommittedRowsStay)
  <2> SUFFICES ASSUME StrongInv, [Next]_vars, "call" \notin faults,
                      NEW p \in Participants, NEW t \in TxID, business[p][t] = "COMMITTED"
               PROVE  business'[p][t] = "COMMITTED"
    BY DEF CommittedRowsStay
  <2>1. PICK c \in Checkout : t = c /\ rpc[c]["commit"][p] # "none"
    BY DEF StrongInv, Inv, RowsFollow, TxOf
  <2>2. \A q \in Participants : rpc[c]["abort"][q] = "none"
    BY <2>1 DEF StrongInv, FaultInv, CallsArrive
  <2>3. TypeOK
    BY DEF StrongInv, Inv
  <2>4. ASSUME NEW d \in Checkout, NEW a \in Action, NEW q \in Participants,
               HandlerStep(d, a, q) \/ LoseCall(d, a, q) \/ PostJSON(d, a, q)
        PROVE  business'[p][t] = "COMMITTED"
    <3>1. UNCHANGED coordinatorVars /\ c \in TxID /\ TxOf(c) = c
      BY <2>4 DEF HandlerStep, LoseCall, PostJSON, TxID, TxOf
    <3>2. CASE d # c
      BY <2>1, <2>3, <2>4, <3>2, RowsOfOthers
    <3>3. CASE d = c /\ HandlePrepare(d, q)
      BY <2>1, <2>3, <3>1, <3>3, PrepareEffect DEF RowMoves, TypeOK
    <3>4. CASE d = c /\ UpdatePrepared(d, a, q)
      BY <2>1, <2>3, <3>1, <3>4, UpdatePreparedEffect DEF TypeOK
    <3>5. CASE d = c /\ UpdateBusiness(d, a, q)
      <4>1. a = "commit"
        BY <2>2, <3>5 DEF UpdateBusiness, StrongInv, Inv, CallsInv, CallsFollow, Action
      <4> QED BY <2>1, <2>3, <3>1, <3>5, <4>1, UpdateBusinessEffect DEF RowMoves, FinalStatus, TypeOK
    <3>6. CASE LoseCall(d, a, q) \/ PostJSON(d, a, q)
      BY <2>3, <3>6, LoseEffect, SendEffect DEF TypeOK, LoseCall, PostJSON
    <3> QED BY <2>4, <3>2, <3>3, <3>4, <3>5, <3>6 DEF HandlerStep, Handler
  <2>5. ASSUME NEW d \in Checkout, CoordinatorWrites(d) \/ CoordinatorMoves(d)
        PROVE  business' = business
    BY <2>5 DEF CoordinatorWrites, CreateOrder, MarkPreparing, MarkCommitting, MarkAborting,
       ConfirmOrder, RejectOrder, CloseCommitted, CloseAborted, CoordinatorMoves, CallSucceeds,
       PrepareOrCommitFails, AbortFails, ExpireCtx, Crash, participantVars
  <2>6. UNCHANGED vars => business' = business
    BY DEF vars
  <2> QED BY <2>4, <2>5, <2>6, NextCases
<1> QED BY StrongInvariance, <1>1, PTL DEF Spec, CommitIsFinalIfCallsArrive

-----------------------------------------------------------------------------
(* TwoPC implements AtomicCheckout, as long as statements do not fail.     *)

VerdictBar == [c \in Checkout |-> VerdictOf(order[c])]

LEMMA VerdictOfValues ==
  /\ VerdictOf("none") = "open" /\ VerdictOf("PROCESSING") = "open"
  /\ VerdictOf("CONFIRMED") = "confirmed" /\ VerdictOf("REJECTED") = "rejected"
  BY DEF VerdictOf

(* When one order moves, one verdict does.                                 *)
LEMMA VerdictMoves ==
  ASSUME NEW c \in Checkout, NEW status, order \in [Checkout -> OrderStatus],
         order' = [order EXCEPT ![c] = status]
  PROVE  VerdictBar' = [VerdictBar EXCEPT ![c] = VerdictOf(status)]
<1>1. \A d \in Checkout : order'[d] = IF d = c THEN status ELSE order[d]
  OBVIOUS
<1> QED BY <1>1 DEF VerdictBar

(* The steps of the abstract checkout that the protocol takes, by what they*)
(* need.                                                                   *)
LEMMA MapsToConfirm ==
  ASSUME TxMode = "twopc", NEW c \in Checkout, order \in [Checkout -> OrderStatus],
         order[c] \in {"none", "PROCESSING"},
         \A p \in Participants : business[p][c] = "COMMITTED",
         order' = [order EXCEPT ![c] = "CONFIRMED"], business' = business
  PROVE  Promise!Confirm(c)
<1>1. VerdictBar[c] = "open" /\ VerdictBar' = [VerdictBar EXCEPT ![c] = "confirmed"]
  BY VerdictOfValues, VerdictMoves DEF VerdictBar
<1>2. \A p \in Participants : WorkBar[c][p] = "done"
  BY WorkOfValues, WorkBarAt
<1>3. WorkBar' = WorkBar
  BY DEF WorkBar
<1> QED BY <1>1, <1>2, <1>3 DEF Promise!Confirm, WorkBar, VerdictBar

LEMMA MapsToReject ==
  ASSUME NEW c \in Checkout, order \in [Checkout -> OrderStatus],
         order[c] \in {"none", "PROCESSING"},
         order' = [order EXCEPT ![c] = "REJECTED"], business' = business
  PROVE  Promise!Reject(c)
<1>1. VerdictBar[c] = "open" /\ VerdictBar' = [VerdictBar EXCEPT ![c] = "rejected"]
  BY VerdictOfValues, VerdictMoves DEF VerdictBar
<1>2. WorkBar' = WorkBar
  BY DEF WorkBar
<1> QED BY <1>1, <1>2 DEF Promise!Reject, WorkBar, VerdictBar

LEMMA MapsToWork ==
  ASSUME TxMode = "twopc", NEW c \in Checkout, NEW p \in Participants,
         business \in [Participants -> [TxID -> RowStatus]],
         order[c] \in OrderStatus \ {"CONFIRMED"}, order' = order,
         RowMoves(business, business', p, c)
  PROVE  /\ business[p][c] \in {"none", "ABORTED"} /\ business'[p][c] = "PREPARED"
              => Promise!Hold(c, p)
         /\ (\A q \in Participants : business[q][c] # "none") /\
            business[p][c] \in {"PREPARED", "ABORTED"} /\ business'[p][c] = "COMMITTED"
              => Promise!Finish(c, p)
         /\ business[p][c] \in {"PREPARED", "COMMITTED"} /\ business'[p][c] = "ABORTED"
              => Promise!Undo(c, p)
         /\ business'[p][c] = business[p][c] => WorkBar' = WorkBar
<1>1. /\ VerdictBar[c] # "confirmed"
      /\ VerdictBar' = VerdictBar
  BY VerdictOfValues DEF VerdictBar, OrderStatus
<1>2. WorkBar' = [WorkBar EXCEPT ![c][p] = WorkOf(business'[p][c])]
  BY WorkMoves
<1>3. /\ \A q \in Participants : WorkBar[c][q] = WorkOf(business[q][c])
      /\ \A q \in Participants : business[q][c] \in RowStatus
  BY WorkBarAt DEF TxID
<1>4. (\A q \in Participants : business[q][c] # "none")
        => \A q \in Participants : WorkBar[c][q] # "absent"
  BY <1>3, WorkOfValues DEF RowStatus
<1>5. ASSUME business[p][c] \in {"none", "ABORTED"}, business'[p][c] = "PREPARED"
      PROVE  Promise!Hold(c, p)
  <2>1. WorkBar[c][p] \in {"absent", "undone"} /\ WorkBar' = [WorkBar EXCEPT ![c][p] = "held"]
    BY <1>2, <1>3, <1>5, WorkOfValues
  <2> QED BY <1>1, <2>1 DEF Promise!Hold, WorkBar, VerdictBar
<1>6. ASSUME \A q \in Participants : business[q][c] # "none",
             business[p][c] \in {"PREPARED", "ABORTED"}, business'[p][c] = "COMMITTED"
      PROVE  Promise!Finish(c, p)
  <2>1. WorkBar[c][p] \in {"held", "undone"} /\ WorkBar' = [WorkBar EXCEPT ![c][p] = "done"]
    BY <1>2, <1>3, <1>6, WorkOfValues
  <2> QED BY <1>1, <1>4, <1>6, <2>1 DEF Promise!Finish, WorkBar, VerdictBar
<1>7. ASSUME business[p][c] \in {"PREPARED", "COMMITTED"}, business'[p][c] = "ABORTED"
      PROVE  Promise!Undo(c, p)
  <2>1. WorkBar[c][p] \in {"held", "done"} /\ WorkBar' = [WorkBar EXCEPT ![c][p] = "undone"]
    BY <1>2, <1>3, <1>7, WorkOfValues
  <2> QED BY <1>1, <2>1 DEF Promise!Undo, WorkBar, VerdictBar
<1>8. ASSUME business'[p][c] = business[p][c] PROVE WorkBar' = WorkBar
  <2>1. \A d \in Checkout, q \in Participants : business'[q][TxOf(d)] = business[q][TxOf(d)]
    BY <1>8 DEF RowMoves, TxOf, TxID
  <2> QED BY <2>1 DEF WorkBar
<1> QED BY <1>5, <1>6, <1>7, <1>8

(* A call to prepare or commit that is still handled, and an abort that was*)
(* called, belong to an order that is not confirmed.                       *)
LEMMA NotConfirmed ==
  ASSUME Inv, NEW c \in Checkout, NEW p \in Participants,
         \/ rpc[c]["prepare"][p] = "open"
         \/ rpc[c]["commit"][p] = "half"
         \/ rpc[c]["abort"][p] # "none"
  PROVE  order[c] \in OrderStatus \ {"CONFIRMED"}
<1>1. CallsFollow(c) /\ StatusFollows(c) /\ order[c] \in OrderStatus
  BY DEF Inv, CallsInv, StatusInv, TypeOK
<1> QED BY <1>1 DEF CallsFollow, StatusFollows

(* Every step of a handler is a step of the abstract checkout or none.     *)
LEMMA HandlerMaps ==
  ASSUME TxMode = "twopc", StrongInv, "db" \notin faults,
         NEW c \in Checkout, NEW a \in Action, NEW p \in Participants,
         HandlerStep(c, a, p)
  PROVE  Promise!Next \/ UNCHANGED <<WorkBar, VerdictBar>>
<1>1. /\ UNCHANGED coordinatorVars /\ order' = order /\ TypeOK /\ Inv
      /\ business \in [Participants -> [TxID -> RowStatus]]
      /\ c \in TxID /\ TxOf(c) = c /\ "commit" \in Action /\ "abort" \in Action
  BY DEF HandlerStep, coordinatorVars, StrongInv, Inv, TypeOK, ParticipantTypeOK, TxID, TxOf,
         Action
<1>2. VerdictBar' = VerdictBar
  BY <1>1 DEF VerdictBar
<1>3. business' = business => WorkBar' = WorkBar
  BY DEF WorkBar
<1>4. CASE HandlePrepare(c, p)
  <2>1. /\ rpc[c]["prepare"][p] = "open"
        /\ RowMoves(business, business', p, c)
        /\ \/ business' = business
           \/ business'[p][c] = IF business[p][c] = "none" THEN "PREPARED" ELSE business[p][c]
    BY <1>1, <1>4, PrepareEffect DEF CallMoves, TypeOK
  <2>2. order[c] \in OrderStatus \ {"CONFIRMED"}
    BY <1>1, <2>1, NotConfirmed
  <2>3. Promise!Hold(c, p) \/ WorkBar' = WorkBar
    BY <1>1, <1>3, <2>1, <2>2, MapsToWork
  <2> QED BY <1>2, <2>3 DEF Promise!Next
<1>5. CASE UpdatePrepared(c, a, p)
  BY <1>1, <1>2, <1>3, <1>5, UpdatePreparedEffect DEF TypeOK
<1>6. CASE UpdateBusiness(c, a, p)
  <2>1. /\ rpc[c][a][p] = "half"
        /\ RowMoves(business, business', p, c)
        /\ business'[p][c] = IF business[p][c] = "none" THEN "none" ELSE FinalStatus(a)
    BY <1>1, <1>6, UpdateBusinessEffect DEF CallMoves, TypeOK
  <2>2. a \in {"commit", "abort"}
    BY <1>1, <2>1 DEF Inv, CallsInv, CallsFollow, Action
  <2>3. order[c] \in OrderStatus \ {"CONFIRMED"}
    BY <1>1, <2>1, <2>2, NotConfirmed
  <2>4. business[p][c] \in RowStatus
    BY <1>1
  <2>5. CASE a = "commit"
    <3>1. \A q \in Participants : business[q][c] # "none"
      BY <1>1, <2>1, <2>5 DEF Inv, CallsInv, CallsFollow, RowsFollow
    <3>2. business'[p][c] = "COMMITTED"
      BY <2>1, <2>5, <3>1 DEF FinalStatus
    <3>3. Promise!Finish(c, p) \/ WorkBar' = WorkBar
      BY <1>1, <2>1, <2>3, <2>4, <3>1, <3>2, MapsToWork DEF RowStatus
    <3> QED BY <1>2, <3>3 DEF Promise!Next
  <2>6. CASE a = "abort"
    <3>1. business'[p][c] = IF business[p][c] = "none" THEN "none" ELSE "ABORTED"
      BY <2>1, <2>6 DEF FinalStatus
    <3>2. Promise!Undo(c, p) \/ WorkBar' = WorkBar
      BY <1>1, <2>1, <2>3, <2>4, <3>1, MapsToWork DEF RowStatus
    <3> QED BY <1>2, <3>2 DEF Promise!Next
  <2> QED BY <2>2, <2>5, <2>6
<1> QED BY <1>4, <1>5, <1>6 DEF HandlerStep, Handler

(* So is every write of the coordinator.                                   *)
LEMMA WritesMap ==
  ASSUME TxMode = "twopc", StrongInv, "db" \notin faults,
         NEW c \in Checkout, CoordinatorWrites(c)
  PROVE  Promise!Next \/ UNCHANGED <<WorkBar, VerdictBar>>
<1> USE DEF Goto, Enter
<1>1. /\ StatusFollows(c) /\ CallsFollow(c) /\ StatementsSucceed(c)
      /\ order \in [Checkout -> OrderStatus] /\ pc \in [Checkout -> PC]
  BY DEF StrongInv, FaultInv, Inv, CallsInv, StatusInv, TypeOK
<1>2. business' = business /\ WorkBar' = WorkBar
  BY DEF CoordinatorWrites, CreateOrder, MarkPreparing, MarkCommitting, MarkAborting,
         ConfirmOrder, RejectOrder, CloseCommitted, CloseAborted, participantVars, WorkBar
<1>3. order' = order => VerdictBar' = VerdictBar
  BY DEF VerdictBar
<1>4. CASE CreateOrder(c)
  <2>1. order[c] \in {"none", "PROCESSING"}
    BY <1>1, <1>4 DEF CreateOrder, StatusFollows, OrderStatus
  <2>2. order' = order \/ order' = [order EXCEPT ![c] = "PROCESSING"]
    BY <1>4 DEF CreateOrder
  <2>3. CASE order' = [order EXCEPT ![c] = "PROCESSING"]
    <3>1. VerdictBar' = [VerdictBar EXCEPT ![c] = "open"] /\ VerdictBar[c] = "open"
      BY <1>1, <2>1, <2>3, VerdictMoves, VerdictOfValues DEF VerdictBar
    <3> QED BY <1>2, <3>1 DEF VerdictBar
  <2> QED BY <1>2, <1>3, <2>2, <2>3
<1>5. CASE ConfirmOrder(c)
  <2>1. order[c] \in {"none", "PROCESSING"}
    BY <1>1, <1>5 DEF ConfirmOrder, StatusFollows, OrderStatus
  <2>2. \A p \in Participants : business[p][c] = "COMMITTED"
    <3>1. \A p \in Participants : p < N + 1
      BY RequestAssumption, ParticipantAssumption DEF Participants
    <3> QED BY <1>1, <1>5, <3>1 DEF ConfirmOrder, CallsFollow, StatementsSucceed
  <2>3. order' = order \/ order' = [order EXCEPT ![c] = "CONFIRMED"]
    BY <1>1, <1>5 DEF ConfirmOrder, updateOrderStatus
  <2>4. order' = order \/ Promise!Confirm(c)
    BY <1>1, <1>2, <2>1, <2>2, <2>3, MapsToConfirm
  <2> QED BY <1>2, <1>3, <2>4 DEF Promise!Next
<1>6. CASE RejectOrder(c)
  <2>1. order[c] \in {"none", "PROCESSING"}
    BY <1>1, <1>6 DEF RejectOrder, StatusFollows, OrderStatus
  <2>2. order' = order \/ order' = [order EXCEPT ![c] = "REJECTED"]
    BY <1>1, <1>6 DEF RejectOrder, updateOrderStatus
  <2>3. order' = order \/ Promise!Reject(c)
    BY <1>1, <1>2, <2>1, <2>2, MapsToReject
  <2> QED BY <1>2, <1>3, <2>3 DEF Promise!Next
<1>7. CASE \/ MarkPreparing(c) \/ MarkCommitting(c) \/ MarkAborting(c)
           \/ CloseCommitted(c) \/ CloseAborted(c)
  BY <1>2, <1>3, <1>7
     DEF MarkPreparing, MarkCommitting, MarkAborting, CloseCommitted, CloseAborted
<1> QED BY <1>4, <1>5, <1>6, <1>7 DEF CoordinatorWrites

(* Nothing else shows.                                                     *)
LEMMA OthersMap ==
  ASSUME TypeOK, NEW c \in Checkout,
         \/ CoordinatorMoves(c)
         \/ \E a \in Action, p \in Participants : LoseCall(c, a, p) \/ PostJSON(c, a, p)
  PROVE  UNCHANGED <<WorkBar, VerdictBar>>
<1>1. business' = business /\ order' = order
  <2>1. CASE CoordinatorMoves(c)
    BY <2>1 DEF CoordinatorMoves, CallSucceeds, PrepareOrCommitFails, AbortFails, ExpireCtx,
       Crash, participantVars
  <2>2. CASE \E a \in Action, p \in Participants : LoseCall(c, a, p) \/ PostJSON(c, a, p)
    BY <2>2 DEF LoseCall, Lose, PostJSON, Send, coordinatorVars
  <2> QED BY <2>1, <2>2
<1> QED BY <1>1 DEF WorkBar, VerdictBar

(* The two-phase commit implements the abstract checkout, for every number *)
(* of checkouts and participants, as long as statements do not fail: the   *)
(* other faults may strike at any time.                                    *)
THEOREM KeepsPromiseHolds == ASSUME TxMode = "twopc" PROVE Spec => KeepsPromise
<1>1. Init => Promise!Init
  <2> SUFFICES ASSUME Init PROVE Promise!Init
    OBVIOUS
  <2>1. /\ \A p \in Participants, t \in TxID : business[p][t] = "none"
        /\ \A c \in Checkout : order[c] = "none"
    BY DEF Init, ParticipantInit
  <2> QED BY <2>1, TxOfType, WorkOfValues, VerdictOfValues DEF Promise!Init
<1>2. StrongInv /\ [Next]_vars => (TxMode = "twopc" /\ "db" \notin faults => Promise!Step)
  <2> SUFFICES ASSUME StrongInv, [Next]_vars, "db" \notin faults
               PROVE  Promise!Next \/ UNCHANGED <<WorkBar, VerdictBar>>
    BY DEF Promise!Step, WorkBar, VerdictBar
  <2>1. TypeOK
    BY DEF StrongInv, Inv
  <2>2. UNCHANGED vars => UNCHANGED <<WorkBar, VerdictBar>>
    BY DEF vars, WorkBar, VerdictBar
  <2> QED BY <2>1, <2>2, NextCases, HandlerMaps, WritesMap, OthersMap
<1> QED BY <1>1, <1>2, StrongInvariance, PTL DEF Spec, KeepsPromise
=============================================================================
