------------------------------- MODULE Totals -------------------------------
(***************************************************************************)
(* Totals of amounts.  An amount is a number of minor units, and a total   *)
(* is the number of units there are: Units(f) holds one element for every  *)
(* unit of every amount of f, so that Total(f) is its cardinality.  A      *)
(* total written this way obeys the laws of Cardinality, which the proofs  *)
(* use, and needs no recursion over the summed set.                        *)
(***************************************************************************)
EXTENDS Integers, FiniteSets

\* One element <<x, i>> for every unit i of the amount f[x].
Units(f) == UNION {{x} \X (1 .. f[x]) : x \in DOMAIN f}

\* The sum of the amounts f[x], for a function f from a finite set to Nat.
Total(f) == Cardinality(Units(f))

\* The smaller of two amounts.
Smaller(a, b) == IF a < b THEN a ELSE b

\* How much of a lies beyond b: a - b, or nothing.
Beyond(a, b) == IF a > b THEN a - b ELSE 0
=============================================================================
