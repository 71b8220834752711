---------------------------- MODULE EventDelivery ----------------------------
(***************************************************************************)
(* What the outbox promises of the event of an order: it is stored, then   *)
(* published, then notified; no stage is skipped and none is taken back.   *)
(***************************************************************************)
CONSTANT Order

VARIABLE stage  \* stage[o]: how far the event of order o has come

Stage == {"absent", "stored", "published", "notified"}

Init == stage = [o \in Order |-> "absent"]

Advance(o, from, to) ==
  /\ stage[o] = from
  /\ stage' = [stage EXCEPT ![o] = to]

Next == \E o \in Order :
  \/ Advance(o, "absent", "stored")
  \/ Advance(o, "stored", "published")
  \/ Advance(o, "published", "notified")

Spec == Init /\ [][Next]_stage
==============================================================================
