----------------------------- MODULE MCExchange -----------------------------
(***************************************************************************)
(* The small exchanges that TLC checks.                                    *)
(***************************************************************************)
EXTENDS Exchange, ExchangeClaims, Reconciliation, TLC

CONSTANTS u1, u2, s, w1, w2, A, B

Bettors == {u1, u2}
BettorsAndStreamer == {u1, u2, s}
TwoOutcomes == {A, B}
UnitStake == {1}
SmallStakes == {1, 2}
Even == [u \in Users |-> 2]
LessForStreamer == [u \in Users |-> IF u = s THEN 1 ELSE 2]

OneWorker == {w1}
TwoWorkers == {w1, w2}

\* The bettors have the same funds and no outcome is special, so exchanging
\* two of them maps behaviours to behaviours.
Symmetry == Permutations({u1, u2}) \cup Permutations({A, B})
SymmetryWithWorkers == Symmetry \cup Permutations({w1, w2})
=============================================================================
