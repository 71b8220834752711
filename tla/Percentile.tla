----------------------------- MODULE Percentile -----------------------------
(***************************************************************************)
(* The percentiles that the benchmark runner reports.  p is in hundredths: *)
(* for the four values in use, and samples of up to a million latencies,   *)
(* the ceiling of the floating product is the ceiling of the exact one.    *)
(***************************************************************************)
EXTENDS Integers, Sequences

Percents == {50, 90, 95, 99}

(* Mutant: the rank, counted from one, is used as an index from zero.      *)
RankFromOne(p, n) == LET rank == (p * n + 99) \div 100
                     IN  IF rank >= n THEN n - 1 ELSE rank

(* The index, from zero, of the p-th percentile of n sorted values.        *)
Rank(p, n) == LET rank == (p * n + 99) \div 100 - 1
              IN  IF rank < 0 THEN 0 ELSE IF rank >= n THEN n - 1 ELSE rank

percentile(sorted, p) == IF sorted = <<>> THEN 0 ELSE sorted[Rank(p, Len(sorted)) + 1]
==============================================================================
