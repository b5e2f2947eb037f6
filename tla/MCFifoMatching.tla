--------------------------- MODULE MCFifoMatching ---------------------------
(***************************************************************************)
(* The small books and profiles that TLC checks.  The amounts are enough   *)
(* for every division to leave a remainder.                                *)
(***************************************************************************)
EXTENDS FifoMatching

\* 1.8 at a commission of 20%, the profile of the first release, and others
\* around the limit of what is accepted.
SomeProfiles ==
    [num : {9, 13, 18, 20, 31}, den : {5, 10}, commission : {0, 2000, 7000},
     fee : {0, 1000}]
=============================================================================
