----------------------------- MODULE DatabaseMC -----------------------------
(* Two processes and one user for TLC.                                      *)
EXTENDS Database, TLC
MCRank == [r \in Role |-> IF r = "admin" THEN 2 ELSE 0]
Symmetric == Permutations(Proc)
=============================================================================
