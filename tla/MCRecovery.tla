----------------------------- MODULE MCRecovery -----------------------------
(***************************************************************************)
(* A small instance of Recovery.  The code compares queue names and does   *)
(* nothing else with them, so that the two names are interchangeable.      *)
(***************************************************************************)
EXTENDS Recovery

CONSTANTS n1, n2

MCNames == {n1, n2}

NameSymmetry == Permutations(MCNames)
=============================================================================
