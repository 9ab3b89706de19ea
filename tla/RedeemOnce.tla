----------------------------- MODULE RedeemOnce -----------------------------
(***************************************************************************)
(* What the redemption of activation codes promises, with no claims, calls *)
(* or intermediate states: a code is open, is spent once for one account,  *)
(* or is void; a spent code stays spent and keeps its account.             *)
(***************************************************************************)
CONSTANTS Code, User

VARIABLES state, payees

Init ==
  /\ state = [c \in Code |-> "open"]
  /\ payees = [c \in Code |-> {}]

(* A customer redeems an open code.                                        *)
Spend(c, u) ==
  /\ state[c] = "open"
  /\ state' = [state EXCEPT ![c] = "spent"]
  /\ payees' = [payees EXCEPT ![c] = {u}]

(* An admin revokes or deletes an unspent code, or it expires.             *)
Void(c) ==
  /\ state[c] = "open"
  /\ state' = [state EXCEPT ![c] = "void"]
  /\ UNCHANGED payees

(* An admin restores a revoked or expired code.                            *)
Reopen(c) ==
  /\ state[c] = "void"
  /\ state' = [state EXCEPT ![c] = "open"]
  /\ UNCHANGED payees

Next == \E c \in Code : Void(c) \/ Reopen(c) \/ \E u \in User : Spend(c, u)

Spec == Init /\ [][Next]_<<state, payees>>
=============================================================================
