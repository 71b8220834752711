------------------------------ MODULE MCEngine ------------------------------
(* Engine for TLC: one transaction, every set of faults.                   *)
EXTENDS Engine

CONSTANT c1

OneTransaction == {c1}
EngineFaults == SUBSET Fault
==============================================================================
