--------------------------- MODULE Reconciliation ---------------------------
(***************************************************************************)
(* The reconciliation of the books, as far as one market and its wallets   *)
(* go: each check is a query over the committed rows, taken in one         *)
(* snapshot, and fails when it finds an offending row.  The checks over    *)
(* single ledger entries (INV-01 to INV-04, INV-10, INV-14, INV-15) are    *)
(* left out with the entries.                                              *)
(***************************************************************************)
EXTENDS Exchange

\* INV-05.
Overdrawn == {u \in Users : available[u] < 0 \/ locked[u] < 0}

ActiveTotal == Total([x \in Active |-> x.amount])

\* INV-08.
UnbalancedOrders ==
    {o \in DOMAIN order : Stored(o) /\ order[o].requested #
                              order[o].matched + order[o].unmatched + order[o].released}

AllocatedAs(side, o) ==
    Total([x \in {y \in alloc : y[side] = o} |-> x.amount])

\* INV-09: both sides of the allocations, one under the other.
MismatchedOrders ==
    {o \in DOMAIN order : Stored(o) /\ order[o].matched #
                              AllocatedAs("a", o) + AllocatedAs("b", o)}

\* INV-13: the faucet has given what the users were funded with.
Internal == Total(available) + Total(locked) + escrow + payable

Finds ==
    [INV05 |-> Overdrawn # {},
     INV06 |-> escrow # 2 * ActiveTotal,
     INV07 |-> status \in {"SETTLED", "VOID"} /\ escrow # 0,
     INV08 |-> UnbalancedOrders # {},
     INV09 |-> MismatchedOrders # {},
     INV12 |-> payable < 0,
     INV13 |-> Internal # Total(Funding)]

Failures == {c \in DOMAIN Finds : Finds[c]}

\* The report says exactly what went wrong: no interleaving makes a check fail
\* but INV-07, and that one fails for the markets that reached a final status
\* with bets nobody was paid for, and for no other.
ReportIsExact ==
    Failures = IF status \in {"SETTLED", "VOID"} /\ Active # {}
               THEN {"INV07"} ELSE {}
=============================================================================
