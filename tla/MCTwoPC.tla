------------------------------- MODULE MCTwoPC -------------------------------
(* TwoPC for TLC: two checkouts at most, as model values, and the sets of  *)
(* faults the runs choose from.                                            *)
EXTENDS TwoPC

CONSTANTS c1, c2

OneCheckout == {c1}
TwoCheckouts == {c1, c2}

(* The set of all faults, and the largest sets that each conditional       *)
(* property allows.                                                        *)
MaximalFaults == {Fault, Fault \ {"db"}, Fault \ {"db", "call"}, Fault \ {"ctx"}, {"tx", "call"}, {"tx"}}

OnlyCtx == {{"ctx"}}
OnlyCall == {{"call"}}
NoFault == {{}}
==============================================================================
