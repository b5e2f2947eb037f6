--------------------------- MODULE MCMarketResults ---------------------------
(***************************************************************************)
(* The small markets whose results TLC checks.                             *)
(***************************************************************************)
EXTENDS MarketResults, TLC

CONSTANTS a1, a2, q1, q2, A, B

TwoAdmins == {a1, a2}
TwoOutcomes == {A, B}
OneOutcome == {A}
TwoRequests == {q1, q2}

\* Neither administrators, outcomes nor requests are told apart.
Symmetry == Permutations({a1, a2}) \cup Permutations({A, B}) \cup Permutations({q1, q2})
=============================================================================
