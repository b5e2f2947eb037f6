---------------------------- MODULE MCStakeLimits ----------------------------
(***************************************************************************)
(* The small limits that TLC checks.                                       *)
(***************************************************************************)
EXTENDS StakeLimits, TLC

CONSTANTS q1, q2, q3

LowAndHigh == {1, 3}
SmallStakes == {1, 2}
ThreeRequests == {q1, q2, q3}

\* Requests are not told apart.
Symmetry == Permutations(ThreeRequests)
=============================================================================
