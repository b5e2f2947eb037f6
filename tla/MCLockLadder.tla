----------------------------- MODULE MCLockLadder -----------------------------
\* A market with two orders of one bettor ahead of another's, and an order that
\* can match them.
EXTENDS LockLadder

CONSTANTS m1, t1, t2

OneMarket == {m1}
TwoTxns == {t1, t2}

Order(n, u, m, c) == [seq |-> n, user |-> u, market |-> m, outcome |-> c]

Resters == {Order(1, 1, m1, "yes"), Order(2, 1, m1, "yes"), Order(3, 2, m1, "yes")}
ThinBook == Resters \cup {Order(4, 2, m1, "no")}
=============================================================================
