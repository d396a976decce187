------------------------------- MODULE Totals -------------------------------
(***************************************************************************)
(* Sums of natural-valued functions, written as the number of units they   *)
(* hold: f[x] units at each x.  Counting a set instead of folding a        *)
(* function lets the finite-set theorems reason about the sum.             *)
(***************************************************************************)
EXTENDS Integers, FiniteSets

Units(f) == UNION {{x} \X (1..f[x]) : x \in DOMAIN f}

Total(f) == Cardinality(Units(f))
=============================================================================
