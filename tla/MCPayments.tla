----------------------------- MODULE MCPayments -----------------------------
(* Instances of Payments for TLC.                                          *)
EXTENDS Payments, TLC

TriggersAndCodes == Permutations(Trigger) \cup Permutations(Code)
=============================================================================
