------------------------------ MODULE Purchase ------------------------------
(***************************************************************************)
(* What an online purchase promises: once the gateway has captured the     *)
(* money, one activation code is issued, and it stays that one.            *)
(***************************************************************************)
CONSTANTS Code, NoCode

VARIABLES captured, issued

Init == captured \in BOOLEAN /\ issued = NoCode

Capture == ~captured /\ captured' = TRUE /\ UNCHANGED issued

Issue ==
  /\ captured /\ issued = NoCode
  /\ issued' \in Code
  /\ UNCHANGED captured

Next == Capture \/ Issue

Spec == Init /\ [][Next]_<<captured, issued>>
=============================================================================
