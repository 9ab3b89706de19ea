---------------------------- MODULE MCSalesSafe ----------------------------
(***************************************************************************)
(* Instances for TLC of an online payment and of the subscription rows of  *)
(* a reseller's customer.  They share no variable, and one run checks      *)
(* both: Init chooses the part that moves, and the variables of the other  *)
(* keep their initial values.                                              *)
(***************************************************************************)
EXTENDS Payments, MCSubscriptionLife, TLC

CONSTANTS t1, t2, t3, h1, h2 \* requests that are alike

VARIABLE part

salesVars == <<part, vars, lifeVars>>

Alike == Permutations({t1, t2, t3}) \cup Permutations({h1, h2})

SalesInit == part \in {"payment", "life"} /\ Init /\ LifeInit

(* Codes are alike, so they are numbers: the next one is minted, and the   *)
(* next one redeemed.                                                      *)
MintedInOrder == \A n \in used' : n = 1 \/ n - 1 \in used'
RedeemedInOrder ==
  \A h \in Handler : job'[h].kind = "redeem" =>
    job'[h].code = 1 \/ job'[h].code - 1 \in redeemed

SalesNext ==
  \/ part = "payment" /\ Next /\ MintedInOrder /\ UNCHANGED <<part, lifeVars>>
  \/ part = "life" /\ LifeNext /\ RedeemedInOrder /\ UNCHANGED <<part, vars>>

SalesSpec == SalesInit /\ [][SalesNext]_salesVars
=============================================================================
