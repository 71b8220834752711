----------------------------- MODULE Participant -----------------------------
(***************************************************************************)
(* The participants of a two-phase commit: inventory-service,              *)
(* payment-service and shipping-service.  The three programs serve         *)
(* /2pc/prepare, /2pc/commit and /2pc/abort with the same code over tables *)
(* of the same shape, so one parameter p \in Participants tells them apart *)
(* (1 = inventory, 2 = payment, 3 = shipping, the order in which           *)
(* buildParticipants of order-service lists the configured ones).          *)
(*                                                                         *)
(* A participant's database has two tables of interest:                    *)
(*   - twopc_prepared_tx, keyed by txid: variable prepared;                *)
(*   - the table of the business operation, inventory_reservations,        *)
(*     payment_operations or shipments: variable business.  The rows of a  *)
(*     txid are inserted by one transaction and updated by one statement,  *)
(*     so they have one status; its order_id column is variable holder.    *)
(*                                                                         *)
(* A handler runs on a goroutine of its own: once the request has been     *)
(* sent it proceeds at its own pace, whatever its caller does meanwhile.   *)
(* rpc[c][a][p] is the progress of the one call of endpoint a on           *)
(* participant p that the checkout c makes.                                *)
(*                                                                         *)
(* The module defines the state and the steps of the handlers; TwoPC       *)
(* composes them with the coordinator that calls them.                     *)
(***************************************************************************)
EXTENDS Calls

CONSTANTS
  TxMode,    \* "twopc", or "other" for every mode string the switch of
             \* order-service does not know ("none", "saga_orch", ...)
  Empty      \* the empty string: the txid of a checkout outside "twopc";
             \* also the order_id of a row that does not exist

ASSUME ParticipantAssumption ==
  /\ TxMode \in {"twopc", "other"}
  /\ Empty \notin Checkout

Action == {"prepare", "commit", "abort"}
TxID == Checkout \cup {Empty}

(* The txid of a checkout: a fresh uuid in mode "twopc", "" otherwise.     *)
TxOf(c) == IF TxMode = "twopc" THEN c ELSE Empty

(* "none": not sent; "open": sent, no statement executed yet; "half": the  *)
(* first of the two UPDATEs of commit or abort executed; "ok", "no":       *)
(* answered 200 or 409; "lost": it will never do or answer anything more.  *)
CallState == {"none", "open", "half", "ok", "no", "lost"}
RowStatus == {"none", "PREPARED", "COMMITTED", "ABORTED"}

VARIABLES prepared, business, holder

participantVars == <<rpc, prepared, business, holder, faults>>

ParticipantInit ==
  /\ rpc = [c \in Checkout |-> [a \in Action |-> [p \in Participants |-> "none"]]]
  /\ prepared = [p \in Participants |-> [t \in TxID |-> "none"]]
  /\ business = [p \in Participants |-> [t \in TxID |-> "none"]]
  /\ holder = [p \in Participants |-> [t \in TxID |-> Empty]]
  /\ faults \in FaultSets

ParticipantTypeOK ==
  /\ rpc \in [Checkout -> [Action -> [Participants -> CallState]]]
  /\ prepared \in [Participants -> [TxID -> RowStatus]]
  /\ business \in [Participants -> [TxID -> RowStatus]]
  /\ holder \in [Participants -> [TxID -> TxID]]
  /\ faults \in FaultSets

(* The work a business row stands for.                                     *)
WorkOf(status) == CASE status = "none"      -> "absent"
                    [] status = "PREPARED"  -> "held"
                    [] status = "COMMITTED" -> "done"
                    [] status = "ABORTED"   -> "undone"

-----------------------------------------------------------------------------
(* The statements.                                                         *)

(* INSERT ... ON CONFLICT (txid) DO NOTHING                                *)
InsertIfAbsent(table, p, t, value, absent) ==
  [table EXCEPT ![p][t] = IF @ = absent THEN value ELSE @]

(* Mutant: the UPDATE is an upsert.                                        *)
UpdateUpserts(table, p, t, status) == [table EXCEPT ![p][t] = status]

(* UPDATE ... SET status=$2 WHERE txid=$1: no row, no effect               *)
UpdateIfPresent(table, p, t, status) ==
  [table EXCEPT ![p][t] = IF @ = "none" THEN "none" ELSE status]

FinalStatus(a) == IF a = "commit" THEN "COMMITTED" ELSE "ABORTED"

(* A caller issues the request.                                            *)
Send(c, a, p) ==
  /\ rpc[c][a][p] = "none"
  /\ SetCall(c, a, p, "open")
  /\ UNCHANGED <<prepared, business, holder, faults>>

(* /2pc/prepare: one transaction inserts both rows, 409 if it failed.      *)
HandlePrepare(c, p) ==
  /\ rpc[c]["prepare"][p] = "open"
  /\ \E result \in TransactionResults :
       /\ SetCall(c, "prepare", p, IF result = "committed" THEN "ok" ELSE "no")
       /\ IF result = "rolledback"
          THEN UNCHANGED <<prepared, business, holder, faults>>
          ELSE /\ prepared' = InsertIfAbsent(prepared, p, TxOf(c), "PREPARED", "none")
               /\ business' = InsertIfAbsent(business, p, TxOf(c), "PREPARED", "none")
               /\ holder' = InsertIfAbsent(holder, p, TxOf(c), c, Empty)
               /\ UNCHANGED faults

(* /2pc/commit and /2pc/abort, first UPDATE: twopc_prepared_tx.  Its error *)
(* is dropped.                                                             *)
UpdatePrepared(c, a, p) ==
  /\ a \in {"commit", "abort"}
  /\ rpc[c][a][p] = "open"
  /\ SetCall(c, a, p, "half")
  /\ \E done \in StatementResults :
       prepared' = IF done THEN UpdateIfPresent(prepared, p, TxOf(c), FinalStatus(a))
                           ELSE prepared
  /\ UNCHANGED <<business, holder, faults>>

(* Mutant: the business table is forgotten.                                *)
UpdateBusinessForgotten(c, a, p) ==
  /\ rpc[c][a][p] = "half"
  /\ SetCall(c, a, p, "ok")
  /\ UNCHANGED <<prepared, business, holder, faults>>

(* Second UPDATE, outside any transaction with the first: the business     *)
(* rows.  Its error is dropped too, and the answer is 200 in every case.   *)
UpdateBusiness(c, a, p) ==
  /\ rpc[c][a][p] = "half"
  /\ SetCall(c, a, p, "ok")
  /\ \E done \in StatementResults :
       business' = IF done THEN UpdateIfPresent(business, p, TxOf(c), FinalStatus(a))
                           ELSE business
  /\ UNCHANGED <<prepared, holder, faults>>

(* The request is lost, the participant dies, or the handler notices that  *)
(* its caller has hung up: nothing more comes of the call.                 *)
Lose(c, a, p) ==
  /\ rpc[c][a][p] \in {"open", "half"}
  /\ SetCall(c, a, p, "lost")
  /\ UNCHANGED <<prepared, business, holder, faults>>

(* The handler's own progress, what its goroutine is scheduled to do.      *)
Handler(c, a, p) ==
  \/ a = "prepare" /\ HandlePrepare(c, p)
  \/ UpdatePrepared(c, a, p)
  \/ UpdateBusiness(c, a, p)
==============================================================================
