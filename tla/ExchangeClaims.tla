--------------------------- MODULE ExchangeClaims ---------------------------
(***************************************************************************)
(* What comments and reconciliation checks of the repository say of a      *)
(* market, which the interleavings of module Exchange refute.  Each is     *)
(* checked by a run of its own that is expected to find the violation.     *)
(***************************************************************************)
EXTENDS Exchange

\* release-unmatched.ts: a closed market never leaves stakes stranded in
\* `locked`.  A placement that read the market while it was open commits after
\* the closing transaction's scan, and its order stays on the closed book.
NoStrandedStake == status = "CLOSED" => OpenOrders = {}

\* INV-07 for VOID: a market reaches VOID with an empty escrow.  The general
\* transition endpoint also voids, and it refunds nothing.
VoidEmptiesEscrow ==
    [][status # "VOID" /\ status' = "VOID" => escrow' = 0]_vars
=============================================================================
