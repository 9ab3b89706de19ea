-------------------------- MODULE MCResellerCredit --------------------------
(* Instances of ResellerCredit for TLC.                                    *)
EXTENDS ResellerCredit

CONSTANTS r1, r2

OneRich == [r \in Reseller |-> IF r = r1 THEN 2 ELSE 0]
BothRich == [r \in Reseller |-> IF r = r1 THEN 2 ELSE 1]

Jobs == Permutations(Job)
=============================================================================
