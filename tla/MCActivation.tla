---------------------------- MODULE MCActivation ----------------------------
(* Small instances of Activation for TLC.                                  *)
EXTENDS Activation, TLC

CONSTANTS c1, c2, u1, u2, r1, r2, r3

(* Two calls of one account and one of another, in any order.              *)
MCOwner == [r \in Call |-> IF r = r3 THEN u2 ELSE u1]
MCExpiresOn == [c \in Code |-> IF c = c1 THEN 0 ELSE Never]
MCDays == [c \in Code |-> IF c = c1 THEN 1 ELSE 2]

(* The two calls of the one account are alike.                             *)
Twins == Permutations({r1, r2})
=============================================================================
