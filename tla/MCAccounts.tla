----------------------------- MODULE MCAccounts -----------------------------
(***************************************************************************)
(* The small account that TLC checks.                                      *)
(***************************************************************************)
EXTENDS Accounts

CONSTANTS t1, t2, q1

TwoTokens == {t1, t2}
\* A day, a week and for ever.
ThreePeriods == {1, 2, MaxDay + 1}
OneRequest == {q1}
=============================================================================
