------------------------------ MODULE MCTccSaga ------------------------------
(* TccSaga for TLC: one checkout, and the sets of faults the runs choose   *)
(* from.                                                                   *)
EXTENDS TccSaga

CONSTANTS c1

OneCheckout == {c1}
BothModes == {"tcc", "saga-orch"}
OnlyTcc == {"tcc"}

(* The set of all faults, and the largest sets that each conditional       *)
(* property allows.                                                        *)
MaximalFaults == {Fault, Fault \ {"db"}, Fault \ {"ctx"}, {"tx", "call"}}
OnlyCall == {{"call"}}
==============================================================================
