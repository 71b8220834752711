---------------------------- MODULE MCBenchRunner ----------------------------
(* BenchRunner for TLC: two transactions, and the sets of faults.          *)
EXTENDS BenchRunner

CONSTANTS r1, r2

Transactions == {r1, r2}
BenchFaults == {{}, {"call", "crash"}, {"db", "call"}, {"ctx"}}
==============================================================================
