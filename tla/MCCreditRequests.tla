--------------------------- MODULE MCCreditRequests ---------------------------
(***************************************************************************)
(* The small servers of credit requests that TLC checks.                   *)
(***************************************************************************)
EXTENDS CreditRequests, TLC

CONSTANTS u1, u2, k1, k2, k3, h1, h2

TwoUsers == {u1, u2}
ThreeKeys == {k1, k2, k3}
TwoHandlers == {h1, h2}
SmallAmounts == {1, 2}

Ask(u, k, a) == [user |-> u, key |-> k, amount |-> a]

\* A user has three keys, sends one of them with another amount as well, and
\* another user has chosen the same key.
SharedKey == {Ask(u1, k1, 2), Ask(u1, k1, 1), Ask(u1, k2, 2), Ask(u1, k3, 2), Ask(u2, k1, 2)}
=============================================================================
