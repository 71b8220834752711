--------------------------- MODULE AtomicCheckout ---------------------------
(***************************************************************************)
(* What a checkout across several services promises, whatever the protocol *)
(* behind it.  Every service holds at most one piece of work for a         *)
(* checkout (a reservation, a payment, a shipment) and the order carries   *)
(* the verdict a client reads.  The promise is one-sided, as the programs  *)
(* are: a confirmed order is backed by finished work everywhere and        *)
(* nothing touches that work again, while the work of a rejected or        *)
(* unanswered order may still be redone or undone by requests in flight.   *)
(***************************************************************************)
CONSTANTS Checkout, Participants

VARIABLES
  work,    \* work[c][p]: what participant p holds for checkout c
  verdict  \* verdict[c]: what the order of checkout c says

Work == {"absent", "held", "done", "undone"}
Verdict == {"open", "confirmed", "rejected"}

Init ==
  /\ work = [c \in Checkout |-> [p \in Participants |-> "absent"]]
  /\ verdict = [c \in Checkout |-> "open"]

(* Work is reserved, for the first time or again after it was undone.      *)
Hold(c, p) ==
  /\ verdict[c] # "confirmed"
  /\ work[c][p] \in {"absent", "undone"}
  /\ work' = [work EXCEPT ![c][p] = "held"]
  /\ UNCHANGED verdict

(* No participant finishes before every participant has reserved.          *)
Finish(c, p) ==
  /\ verdict[c] # "confirmed"
  /\ \A q \in Participants : work[c][q] # "absent"
  /\ work[c][p] \in {"held", "undone"}
  /\ work' = [work EXCEPT ![c][p] = "done"]
  /\ UNCHANGED verdict

Undo(c, p) ==
  /\ verdict[c] # "confirmed"
  /\ work[c][p] \in {"held", "done"}
  /\ work' = [work EXCEPT ![c][p] = "undone"]
  /\ UNCHANGED verdict

(* An order is confirmed once, and only when its work is finished.         *)
Confirm(c) ==
  /\ verdict[c] = "open"
  /\ \A p \in Participants : work[c][p] = "done"
  /\ verdict' = [verdict EXCEPT ![c] = "confirmed"]
  /\ UNCHANGED work

Reject(c) ==
  /\ verdict[c] = "open"
  /\ verdict' = [verdict EXCEPT ![c] = "rejected"]
  /\ UNCHANGED work

Next == \E c \in Checkout :
  \/ Confirm(c)
  \/ Reject(c)
  \/ \E p \in Participants : Hold(c, p) \/ Finish(c, p) \/ Undo(c, p)

(* A step of the checkout, or one that does not concern it.                *)
Step == [Next]_<<work, verdict>>

Spec == Init /\ [][Next]_<<work, verdict>>
=============================================================================
