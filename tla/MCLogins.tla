------------------------------- MODULE MCLogins -------------------------------
(***************************************************************************)
(* The small login that TLC checks.                                        *)
(***************************************************************************)
EXTENDS Logins

CONSTANTS q1, q2

TwoRequests == {q1, q2}
=============================================================================
