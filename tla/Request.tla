------------------------------- MODULE Request -------------------------------
(***************************************************************************)
(* What every transaction mode of POST /checkout in order-service adds to  *)
(* Calls: the order it writes.                                             *)
(***************************************************************************)
EXTENDS Calls

VARIABLE order  \* orders.status by order, "none" for no row

updateOrderStatus(c, status) ==
  \E done \in Writes(c) :
    order' = [order EXCEPT ![c] = IF done THEN status ELSE @]

(* What createOrder's transaction comes to.  A context that dies meanwhile *)
(* can hide that it committed.                                             *)
CreateResults(c) ==
  IF ctx[c] = "dead" THEN {"unacked", "rolledback"} ELSE TransactionResults
==============================================================================
