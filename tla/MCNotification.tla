---------------------------- MODULE MCNotification ----------------------------
(* Notification for TLC: two orders served by different replicas.          *)
EXTENDS Notification

CONSTANTS o1, o2, r1, r2

TwoOrders == {o1, o2}
OneOrder == {o1}
TwoReplicas == {r1, r2}
OneReplica == {r1}

EachItsReplica == [o \in TwoOrders |-> IF o = o1 THEN r1 ELSE r2]
AllOnOne == [o \in OneOrder |-> r1]

(* With one fault in a behaviour these are all of them, and each           *)
(* conditional property meets the faults it allows.                        *)
FaultByFault == {{"db", "crash"}, {"kafka"}, {"consumer"}}
FirstMayBeLarge == {{}, {o1}}
OnlyConsumer == {{"consumer"}}
==============================================================================
