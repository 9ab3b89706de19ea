--------------------------- MODULE PaymentsProofs ---------------------------
(***************************************************************************)
(* Proofs about Payments for any number of triggers, codes and faults and  *)
(* under every hazard.  The inductive invariant Ledger says where a code   *)
(* can be: with the one trigger that minted it, or in the payment.         *)
(***************************************************************************)
EXTENDS Payments, TLAPS

(* A payment that still waits shows no code.                               *)
WaitingHasNone == status \in {"creating", "pending", "processing"} => code = None

(* Who means to mint was told of a payment, and who was told was told the  *)
(* truth: the gateway has captured the money.                              *)
ToldTheTruth ==
  /\ "paid" \in events => gateway = "paid"
  /\ \A t \in Trigger :
       /\ report[t] = "paid" => gateway = "paid"
       /\ pc[t] \in {"minting", "storing"} => report[t] = "paid"
       /\ pc[t] = "losing" => report[t] \in Lost
       /\ pc[t] = "losing" => report[t] \in Lost
       /\ pc[t] = "losing" => report[t] \in Lost

(* A code minted and not yet stored is held by one trigger, and is not the *)
(* code of the payment.                                                    *)
HeldOnce ==
  /\ \A t \in Trigger : pc[t] \in {"storing", "discarding"} => mine[t] \in codes
  /\ \A t \in Trigger : mine[t] # None => mine[t] \in used
  /\ \A t, u \in Trigger : mine[t] # None /\ mine[t] = mine[u] => t = u
  /\ code # None => code \in codes /\ \A t \in Trigger : mine[t] # code

Ledger == TypeOK /\ WaitingHasNone /\ ToldTheTruth /\ HeldOnce

LEMMA LedgerInit == Init => Ledger
<1> SUFFICES ASSUME Init PROVE Ledger
  OBVIOUS
<1> USE DEF Init
<1>1. TypeOK
  <2>1. status \in Status /\ gateway \in {"open"} \cup Report /\ events \subseteq Report
    BY DEF Status, Report
  <2>2. pc \in [Trigger -> {"idle", "asked", "told", "losing", "beaten"}
                              \cup Holding \cup {"discarding"}]
    OBVIOUS
  <2>3. seen \in [Trigger -> Status]
    BY DEF Status
  <2>4. /\ code \in Code \cup {None} /\ owner \in Trigger \cup {None}
        /\ stale \in BOOLEAN /\ codes \subseteq used /\ used \subseteq Code
    OBVIOUS
  <2>6. faults \in 0 .. MaxFaults
    BY FaultsAssumption
  <2>5. /\ carries \in [Trigger -> Report \cup {None}]
        /\ report \in [Trigger -> Report \cup {None}]
        /\ mine \in [Trigger -> Code \cup {None}]
    OBVIOUS
  <2> QED BY <2>1, <2>2, <2>3, <2>4, <2>5, <2>6 DEF TypeOK
<1>2. WaitingHasNone /\ ToldTheTruth
  BY NoneAssumption DEF WaitingHasNone, ToldTheTruth, Report, Lost
<1>3. HeldOnce
  BY DEF HeldOnce
<1> QED BY <1>1, <1>2, <1>3 DEF Ledger

(* What a request writes when it begins.                                   *)
LEMMA BeginTypes ==
  ASSUME TypeOK, NEW t \in Trigger, NEW e \in Report \cup {None},
         NEW to \in {"asked", "told", "losing"},
         NEW r \in Report \cup {None}, Begin(t, e, to, r)
  PROVE  TypeOK'
<1> USE DEF Begin, TypeOK
<1>1. pc' \in [Trigger -> {"idle", "asked", "told", "losing", "beaten"}
                           \cup Holding \cup {"discarding"}]
  BY DEF Goto
<1>2. seen' \in [Trigger -> Status]
  OBVIOUS
<1>3. /\ carries' \in [Trigger -> Report \cup {None}]
      /\ report' \in [Trigger -> Report \cup {None}]
  OBVIOUS
<1> QED BY <1>1, <1>2, <1>3 DEF doc, world

(* Every action writes within the types.                                   *)
LEMMA TypeStep == TypeOK /\ ToldTheTruth /\ [Next]_vars => TypeOK'
<1> SUFFICES ASSUME TypeOK, ToldTheTruth, [Next]_vars PROVE TypeOK'
  OBVIOUS
<1> USE TriggerAssumption, CodeAssumption, FaultsAssumption
<1> USE DEF TypeOK, Status, Report, Lost, Holding, Goto, Write, Answer, Fault,
            doc, world, local
<1>1. ASSUME NEW s \in {"pending", "failed"}, Checkout(s)
      PROVE TypeOK'
  BY <1>1 DEF Checkout
<1>2. ASSUME NEW r \in Report, Settle(r) PROVE TypeOK'
  BY <1>2 DEF Settle
<1>3. ASSUME NEW r \in Report, NEW t \in Trigger, ChargilyWebhook(t, r)
      PROVE TypeOK'
  <2>1. CASE Begin(t, r, "told", r) \/ Begin(t, r, "losing", r)
    BY <2>1, BeginTypes
  <2>2. CASE UNCHANGED <<doc, codes, used, gateway, pc, local, faults>>
             /\ events' = events \ {r}
    BY <2>2
  <2> QED BY <1>3, <2>1, <2>2 DEF ChargilyWebhook
<1>4. ASSUME NEW r \in Report, NEW t \in Trigger, CinetpayWebhook(t, r)
      PROVE TypeOK'
  <2>1. CASE Begin(t, r, "asked", None)
    BY <2>1, BeginTypes
  <2>2. CASE UNCHANGED <<doc, codes, used, gateway, pc, local, faults>>
             /\ events' = events \ {r}
    BY <2>2
  <2> QED BY <1>4, <2>1, <2>2 DEF CinetpayWebhook
<1>5. CASE Ages
  BY <1>5 DEF Ages
<1>6. ASSUME NEW t \in Trigger, Poll(t) PROVE TypeOK'
  BY <1>6, BeginTypes DEF Poll
<1>7. ASSUME NEW t \in Trigger, Ask(t) PROVE TypeOK'
  <2>1. CASE Answer(t, TRUE) /\ UNCHANGED <<doc, codes, used, faults>>
    BY <2>1
  <2>2. ASSUME NEW to \in {"told", "losing"}, Goto(t, to), gateway \in Report,
               report' = [report EXCEPT ![t] = gateway],
               UNCHANGED <<world, seen, carries, mine, doc, codes, used, faults>>
        PROVE  TypeOK'
    BY <2>2
  <2> QED BY <1>7, <2>1, <2>2 DEF Ask
<1>8. ASSUME NEW t \in Trigger, AskFails(t) PROVE TypeOK'
  BY <1>8 DEF AskFails
<1>9. ASSUME NEW t \in Trigger, Lose(t) PROVE TypeOK'
  BY <1>9 DEF Lose, ToldTheTruth
<1>10. ASSUME NEW t \in Trigger, Claim(t) PROVE TypeOK'
  BY <1>10 DEF Claim, Claimable
<1>11. ASSUME NEW t \in Trigger, ClaimDenied(t) PROVE TypeOK'
  BY <1>11 DEF ClaimDenied
<1>12. ASSUME NEW t \in Trigger, Beaten(t) PROVE TypeOK'
  BY <1>12 DEF Beaten
<1>13. ASSUME NEW t \in Trigger, Mint(t) PROVE TypeOK'
  BY <1>13 DEF Mint
<1>14. ASSUME NEW t \in Trigger, Throw(t) PROVE TypeOK'
  BY <1>14 DEF Throw
<1>15. ASSUME NEW t \in Trigger, Finalize(t) PROVE TypeOK'
  BY <1>15 DEF Finalize, Owns
<1>16. ASSUME NEW t \in Trigger, FinalizeLost(t) PROVE TypeOK'
  BY <1>16 DEF FinalizeLost
<1>17. ASSUME NEW t \in Trigger, Discard(t) PROVE TypeOK'
  BY <1>17 DEF Discard
<1>18. ASSUME NEW t \in Trigger, Release(t) PROVE TypeOK'
  BY <1>18 DEF Release, Owns
<1>19. ASSUME NEW t \in Trigger, Crash(t) PROVE TypeOK'
  BY <1>19 DEF Crash
<1>20. CASE UNCHANGED vars
  BY <1>20 DEF vars
<1> QED
  BY <1>1, <1>2, <1>3, <1>4, <1>5, <1>6, <1>7, <1>8, <1>9, <1>10, <1>11,
     <1>12, <1>13, <1>14, <1>15, <1>16, <1>17, <1>18, <1>19, <1>20
     DEF Next, Deliver, Step

(* A code is written together with "paid", and no write leaves "paid".      *)
LEMMA WaitingStep == Ledger /\ [Next]_vars => WaitingHasNone'
<1> SUFFICES ASSUME Ledger, [Next]_vars PROVE WaitingHasNone'
  OBVIOUS
<1> USE TypeOK, WaitingHasNone DEF Ledger
<1> USE DEF WaitingHasNone, TypeOK, Lost, Write, Answer, doc, world, local
<1>1. ASSUME NEW s \in {"pending", "failed"}, Checkout(s)
      PROVE WaitingHasNone'
  BY <1>1 DEF Checkout
<1>2. ASSUME NEW r \in Report, Settle(r) PROVE WaitingHasNone'
  BY <1>2 DEF Settle
<1>3. ASSUME NEW r \in Report, NEW t \in Trigger, ChargilyWebhook(t, r)
      PROVE WaitingHasNone'
  BY <1>3 DEF ChargilyWebhook, Begin
<1>4. ASSUME NEW r \in Report, NEW t \in Trigger, CinetpayWebhook(t, r)
      PROVE WaitingHasNone'
  BY <1>4 DEF CinetpayWebhook, Begin
<1>5. CASE Ages
  BY <1>5 DEF Ages
<1>6. ASSUME NEW t \in Trigger, Poll(t) PROVE WaitingHasNone'
  BY <1>6 DEF Poll, Begin
<1>7. ASSUME NEW t \in Trigger, Ask(t) PROVE WaitingHasNone'
  BY <1>7 DEF Ask
<1>8. ASSUME NEW t \in Trigger, AskFails(t) PROVE WaitingHasNone'
  BY <1>8 DEF AskFails
<1>9. ASSUME NEW t \in Trigger, Lose(t) PROVE WaitingHasNone'
  BY <1>9 DEF Lose, ToldTheTruth
<1>10. ASSUME NEW t \in Trigger, Claim(t) PROVE WaitingHasNone'
  BY <1>10 DEF Claim, Claimable
<1>11. ASSUME NEW t \in Trigger, ClaimDenied(t) PROVE WaitingHasNone'
  BY <1>11 DEF ClaimDenied
<1>12. ASSUME NEW t \in Trigger, Beaten(t) PROVE WaitingHasNone'
  BY <1>12 DEF Beaten
<1>13. ASSUME NEW t \in Trigger, Mint(t) PROVE WaitingHasNone'
  BY <1>13 DEF Mint
<1>14. ASSUME NEW t \in Trigger, Throw(t) PROVE WaitingHasNone'
  BY <1>14 DEF Throw
<1>15. ASSUME NEW t \in Trigger, Finalize(t) PROVE WaitingHasNone'
  BY <1>15 DEF Finalize, Owns
<1>16. ASSUME NEW t \in Trigger, FinalizeLost(t) PROVE WaitingHasNone'
  BY <1>16 DEF FinalizeLost
<1>17. ASSUME NEW t \in Trigger, Discard(t) PROVE WaitingHasNone'
  BY <1>17 DEF Discard
<1>18. ASSUME NEW t \in Trigger, Release(t) PROVE WaitingHasNone'
  BY <1>18 DEF Release, Owns
<1>19. ASSUME NEW t \in Trigger, Crash(t) PROVE WaitingHasNone'
  BY <1>19 DEF Crash
<1>20. CASE UNCHANGED vars
  BY <1>20 DEF vars
<1> QED
  BY <1>1, <1>2, <1>3, <1>4, <1>5, <1>6, <1>7, <1>8, <1>9, <1>10, <1>11,
     <1>12, <1>13, <1>14, <1>15, <1>16, <1>17, <1>18, <1>19, <1>20
     DEF Next, Deliver, Step

(* What the gateway said of a payment stays true: it never takes money back.*)
LEMMA TruthStep == Ledger /\ [Next]_vars => ToldTheTruth'
<1> SUFFICES ASSUME Ledger, [Next]_vars PROVE ToldTheTruth'
  OBVIOUS
<1> USE DEF Ledger, ToldTheTruth, TypeOK, Report, Lost, Holding, Goto, Answer,
            doc, world, local
<1> USE NoneAssumption
<1>1. ASSUME NEW s \in {"pending", "failed"}, Checkout(s)
      PROVE ToldTheTruth'
  BY <1>1 DEF Checkout
<1>2. ASSUME NEW r \in Report, Settle(r) PROVE ToldTheTruth'
  BY <1>2 DEF Settle
<1>3. ASSUME NEW r \in Report, NEW t \in Trigger, ChargilyWebhook(t, r)
      PROVE ToldTheTruth'
  BY <1>3 DEF ChargilyWebhook, Begin
<1>4. ASSUME NEW r \in Report, NEW t \in Trigger, CinetpayWebhook(t, r)
      PROVE ToldTheTruth'
  BY <1>4 DEF CinetpayWebhook, Begin
<1>5. CASE Ages
  BY <1>5 DEF Ages
<1>6. ASSUME NEW t \in Trigger, Poll(t) PROVE ToldTheTruth'
  BY <1>6 DEF Poll, Begin
<1>7. ASSUME NEW t \in Trigger, Ask(t) PROVE ToldTheTruth'
  BY <1>7 DEF Ask
<1>8. ASSUME NEW t \in Trigger, AskFails(t) PROVE ToldTheTruth'
  BY <1>8 DEF AskFails
<1>9. ASSUME NEW t \in Trigger, Lose(t) PROVE ToldTheTruth'
  BY <1>9 DEF Lose
<1>10. ASSUME NEW t \in Trigger, Claim(t) PROVE ToldTheTruth'
  BY <1>10 DEF Claim, Claimable
<1>11. ASSUME NEW t \in Trigger, ClaimDenied(t) PROVE ToldTheTruth'
  BY <1>11 DEF ClaimDenied
<1>12. ASSUME NEW t \in Trigger, Beaten(t) PROVE ToldTheTruth'
  BY <1>12 DEF Beaten
<1>13. ASSUME NEW t \in Trigger, Mint(t) PROVE ToldTheTruth'
  BY <1>13 DEF Mint
<1>14. ASSUME NEW t \in Trigger, Throw(t) PROVE ToldTheTruth'
  BY <1>14 DEF Throw
<1>15. ASSUME NEW t \in Trigger, Finalize(t) PROVE ToldTheTruth'
  BY <1>15 DEF Finalize, Owns
<1>16. ASSUME NEW t \in Trigger, FinalizeLost(t) PROVE ToldTheTruth'
  BY <1>16 DEF FinalizeLost
<1>17. ASSUME NEW t \in Trigger, Discard(t) PROVE ToldTheTruth'
  BY <1>17 DEF Discard
<1>18. ASSUME NEW t \in Trigger, Release(t) PROVE ToldTheTruth'
  BY <1>18 DEF Release, Owns
<1>19. ASSUME NEW t \in Trigger, Crash(t) PROVE ToldTheTruth'
  BY <1>19 DEF Crash
<1>20. CASE UNCHANGED vars
  BY <1>20 DEF vars
<1> QED
  BY <1>1, <1>2, <1>3, <1>4, <1>5, <1>6, <1>7, <1>8, <1>9, <1>10, <1>11,
     <1>12, <1>13, <1>14, <1>15, <1>16, <1>17, <1>18, <1>19, <1>20
     DEF Next, Deliver, Step

(* A step that moves no code keeps HeldOnce: it may only drop what a       *)
(* trigger holds.                                                          *)
LEMMA HeldKept ==
  ASSUME HeldOnce, UNCHANGED <<code, codes, used>>,
         \A u \in Trigger : mine'[u] \in {mine[u], None},
         \A u \in Trigger :
           pc'[u] \in {"storing", "discarding"} =>
             pc[u] \in {"storing", "discarding"} /\ mine'[u] = mine[u]
  PROVE  HeldOnce'
BY DEF HeldOnce

(* A code changes hands only from its minter to the payment.               *)
LEMMA HeldStep == Ledger /\ [Next]_vars => HeldOnce'
<1> SUFFICES ASSUME Ledger, [Next]_vars PROVE HeldOnce'
  OBVIOUS
<1> USE DEF Ledger
<1>1. ASSUME NEW s \in {"pending", "failed"}, Checkout(s)
      PROVE HeldOnce'
  <2>1. UNCHANGED <<code, codes, used>>
    BY <1>1, TypeOK DEF Checkout, TypeOK, WaitingHasNone, Write, Answer, doc,
       world, local
  <2>2. \A u \in Trigger :
          /\ mine'[u] \in {mine[u], None}
          /\ pc'[u] \in {"storing", "discarding"} =>
               pc[u] \in {"storing", "discarding"} /\ mine'[u] = mine[u]
    BY <1>1, TypeOK DEF Checkout, TypeOK, Goto, Answer, doc, world, local
  <2> QED BY <2>1, <2>2, HeldOnce, HeldKept
<1>2. ASSUME NEW r \in Report, Settle(r) PROVE HeldOnce'
  <2>1. UNCHANGED <<code, codes, used>>
    BY <1>2, TypeOK DEF Settle, TypeOK, WaitingHasNone, Write, Answer, doc,
       world, local
  <2>2. \A u \in Trigger :
          /\ mine'[u] \in {mine[u], None}
          /\ pc'[u] \in {"storing", "discarding"} =>
               pc[u] \in {"storing", "discarding"} /\ mine'[u] = mine[u]
    BY <1>2, TypeOK DEF Settle, TypeOK, Goto, Answer, doc, world, local
  <2> QED BY <2>1, <2>2, HeldOnce, HeldKept
<1>3. ASSUME NEW r \in Report, NEW t \in Trigger, ChargilyWebhook(t, r)
      PROVE HeldOnce'
  <2>1. UNCHANGED <<code, codes, used>>
    BY <1>3, TypeOK DEF ChargilyWebhook, Begin, TypeOK, WaitingHasNone,
       Write, Answer, doc, world, local
  <2>2. \A u \in Trigger :
          /\ mine'[u] \in {mine[u], None}
          /\ pc'[u] \in {"storing", "discarding"} =>
               pc[u] \in {"storing", "discarding"} /\ mine'[u] = mine[u]
    BY <1>3, TypeOK DEF ChargilyWebhook, Begin, TypeOK, Goto, Answer, doc,
       world, local
  <2> QED BY <2>1, <2>2, HeldOnce, HeldKept
<1>4. ASSUME NEW r \in Report, NEW t \in Trigger, CinetpayWebhook(t, r)
      PROVE HeldOnce'
  <2>1. UNCHANGED <<code, codes, used>>
    BY <1>4, TypeOK DEF CinetpayWebhook, Begin, TypeOK, WaitingHasNone,
       Write, Answer, doc, world, local
  <2>2. \A u \in Trigger :
          /\ mine'[u] \in {mine[u], None}
          /\ pc'[u] \in {"storing", "discarding"} =>
               pc[u] \in {"storing", "discarding"} /\ mine'[u] = mine[u]
    BY <1>4, TypeOK DEF CinetpayWebhook, Begin, TypeOK, Goto, Answer, doc,
       world, local
  <2> QED BY <2>1, <2>2, HeldOnce, HeldKept
<1>5. CASE Ages
  <2>1. UNCHANGED <<code, codes, used>>
    BY <1>5, TypeOK DEF Ages, TypeOK, WaitingHasNone, Write, Answer, doc,
       world, local
  <2>2. \A u \in Trigger :
          /\ mine'[u] \in {mine[u], None}
          /\ pc'[u] \in {"storing", "discarding"} =>
               pc[u] \in {"storing", "discarding"} /\ mine'[u] = mine[u]
    BY <1>5, TypeOK DEF Ages, TypeOK, Goto, Answer, doc, world, local
  <2> QED BY <2>1, <2>2, HeldOnce, HeldKept
<1>6. ASSUME NEW t \in Trigger, Poll(t) PROVE HeldOnce'
  <2>1. UNCHANGED <<code, codes, used>>
    BY <1>6, TypeOK DEF Poll, Begin, TypeOK, WaitingHasNone, Write, Answer,
       doc, world, local
  <2>2. \A u \in Trigger :
          /\ mine'[u] \in {mine[u], None}
          /\ pc'[u] \in {"storing", "discarding"} =>
               pc[u] \in {"storing", "discarding"} /\ mine'[u] = mine[u]
    BY <1>6, TypeOK DEF Poll, Begin, TypeOK, Goto, Answer, doc, world, local
  <2> QED BY <2>1, <2>2, HeldOnce, HeldKept
<1>7. ASSUME NEW t \in Trigger, Ask(t) PROVE HeldOnce'
  <2>1. UNCHANGED <<code, codes, used>>
    BY <1>7, TypeOK DEF Ask, TypeOK, WaitingHasNone, Write, Answer, doc,
       world, local
  <2>2. \A u \in Trigger :
          /\ mine'[u] \in {mine[u], None}
          /\ pc'[u] \in {"storing", "discarding"} =>
               pc[u] \in {"storing", "discarding"} /\ mine'[u] = mine[u]
    BY <1>7, TypeOK DEF Ask, TypeOK, Goto, Answer, doc, world, local
  <2> QED BY <2>1, <2>2, HeldOnce, HeldKept
<1>8. ASSUME NEW t \in Trigger, AskFails(t) PROVE HeldOnce'
  <2>1. UNCHANGED <<code, codes, used>>
    BY <1>8, TypeOK DEF AskFails, TypeOK, WaitingHasNone, Write, Answer, doc,
       world, local
  <2>2. \A u \in Trigger :
          /\ mine'[u] \in {mine[u], None}
          /\ pc'[u] \in {"storing", "discarding"} =>
               pc[u] \in {"storing", "discarding"} /\ mine'[u] = mine[u]
    BY <1>8, TypeOK DEF AskFails, TypeOK, Goto, Answer, doc, world, local
  <2> QED BY <2>1, <2>2, HeldOnce, HeldKept
<1>9. ASSUME NEW t \in Trigger, Lose(t) PROVE HeldOnce'
  <2>1. UNCHANGED <<code, codes, used>>
    BY <1>9, TypeOK DEF Lose, TypeOK, WaitingHasNone, Write, Answer, doc,
       world, local
  <2>2. \A u \in Trigger :
          /\ mine'[u] \in {mine[u], None}
          /\ pc'[u] \in {"storing", "discarding"} =>
               pc[u] \in {"storing", "discarding"} /\ mine'[u] = mine[u]
    BY <1>9, TypeOK DEF Lose, TypeOK, Goto, Answer, doc, world, local
  <2> QED BY <2>1, <2>2, HeldOnce, HeldKept
<1>10. ASSUME NEW t \in Trigger, Claim(t) PROVE HeldOnce'
  <2>1. UNCHANGED <<code, codes, used>>
    BY <1>10, TypeOK DEF Claim, Claimable, TypeOK, WaitingHasNone, Write,
       Answer, doc, world, local
  <2>2. \A u \in Trigger :
          /\ mine'[u] \in {mine[u], None}
          /\ pc'[u] \in {"storing", "discarding"} =>
               pc[u] \in {"storing", "discarding"} /\ mine'[u] = mine[u]
    BY <1>10, TypeOK DEF Claim, Claimable, TypeOK, Goto, Answer, doc, world,
       local
  <2> QED BY <2>1, <2>2, HeldOnce, HeldKept
<1>11. ASSUME NEW t \in Trigger, ClaimDenied(t) PROVE HeldOnce'
  <2>1. UNCHANGED <<code, codes, used>>
    BY <1>11, TypeOK DEF ClaimDenied, TypeOK, WaitingHasNone, Write, Answer,
       doc, world, local
  <2>2. \A u \in Trigger :
          /\ mine'[u] \in {mine[u], None}
          /\ pc'[u] \in {"storing", "discarding"} =>
               pc[u] \in {"storing", "discarding"} /\ mine'[u] = mine[u]
    BY <1>11, TypeOK DEF ClaimDenied, TypeOK, Goto, Answer, doc, world, local
  <2> QED BY <2>1, <2>2, HeldOnce, HeldKept
<1>12. ASSUME NEW t \in Trigger, Beaten(t) PROVE HeldOnce'
  <2>1. UNCHANGED <<code, codes, used>>
    BY <1>12, TypeOK DEF Beaten, TypeOK, WaitingHasNone, Write, Answer, doc,
       world, local
  <2>2. \A u \in Trigger :
          /\ mine'[u] \in {mine[u], None}
          /\ pc'[u] \in {"storing", "discarding"} =>
               pc[u] \in {"storing", "discarding"} /\ mine'[u] = mine[u]
    BY <1>12, TypeOK DEF Beaten, TypeOK, Goto, Answer, doc, world, local
  <2> QED BY <2>1, <2>2, HeldOnce, HeldKept
<1>13. ASSUME NEW t \in Trigger, Mint(t) PROVE HeldOnce'
  BY <1>13, CodeAssumption DEF Mint, TypeOK, HeldOnce, Goto, doc, world, local
<1>14. ASSUME NEW t \in Trigger, Throw(t) PROVE HeldOnce'
  <2>1. UNCHANGED <<code, codes, used>>
    BY <1>14, TypeOK DEF Throw, TypeOK, WaitingHasNone, Write, Answer, doc,
       world, local
  <2>2. \A u \in Trigger :
          /\ mine'[u] \in {mine[u], None}
          /\ pc'[u] \in {"storing", "discarding"} =>
               pc[u] \in {"storing", "discarding"} /\ mine'[u] = mine[u]
    BY <1>14, TypeOK DEF Throw, TypeOK, Goto, Answer, doc, world, local
  <2> QED BY <2>1, <2>2, HeldOnce, HeldKept
<1>15. ASSUME NEW t \in Trigger, Finalize(t) PROVE HeldOnce'
  BY <1>15, CodeAssumption DEF Finalize, Owns, TypeOK, HeldOnce, Goto, Write,
     Answer
<1>16. ASSUME NEW t \in Trigger, FinalizeLost(t) PROVE HeldOnce'
  <2>1. UNCHANGED <<code, codes, used>>
    BY <1>16, TypeOK DEF FinalizeLost, TypeOK, WaitingHasNone, Write, Answer,
       doc, world, local
  <2>2. \A u \in Trigger :
          /\ mine'[u] \in {mine[u], None}
          /\ pc'[u] \in {"storing", "discarding"} =>
               pc[u] \in {"storing", "discarding"} /\ mine'[u] = mine[u]
    BY <1>16, TypeOK DEF FinalizeLost, TypeOK, Goto, Answer, doc, world, local
  <2> QED BY <2>1, <2>2, HeldOnce, HeldKept
<1>17. ASSUME NEW t \in Trigger, Discard(t) PROVE HeldOnce'
  BY <1>17, CodeAssumption DEF Discard, TypeOK, HeldOnce, Goto, Answer, doc
<1>18. ASSUME NEW t \in Trigger, Release(t) PROVE HeldOnce'
  <2>1. UNCHANGED <<code, codes, used>>
    BY <1>18, TypeOK DEF Release, Owns, TypeOK, WaitingHasNone, Write,
       Answer, doc, world, local
  <2>2. \A u \in Trigger :
          /\ mine'[u] \in {mine[u], None}
          /\ pc'[u] \in {"storing", "discarding"} =>
               pc[u] \in {"storing", "discarding"} /\ mine'[u] = mine[u]
    BY <1>18, TypeOK DEF Release, Owns, TypeOK, Goto, Answer, doc, world, local
  <2> QED BY <2>1, <2>2, HeldOnce, HeldKept
<1>19. ASSUME NEW t \in Trigger, Crash(t) PROVE HeldOnce'
  <2>1. UNCHANGED <<code, codes, used>>
    BY <1>19, TypeOK DEF Crash, TypeOK, WaitingHasNone, Write, Answer, doc,
       world, local
  <2>2. \A u \in Trigger :
          /\ mine'[u] \in {mine[u], None}
          /\ pc'[u] \in {"storing", "discarding"} =>
               pc[u] \in {"storing", "discarding"} /\ mine'[u] = mine[u]
    BY <1>19, TypeOK DEF Crash, TypeOK, Goto, Answer, doc, world, local
  <2> QED BY <2>1, <2>2, HeldOnce, HeldKept
<1>20. CASE UNCHANGED vars
  BY <1>20 DEF vars, local, doc, HeldOnce
<1> QED
  BY <1>1, <1>2, <1>3, <1>4, <1>5, <1>6, <1>7, <1>8, <1>9, <1>10, <1>11,
     <1>12, <1>13, <1>14, <1>15, <1>16, <1>17, <1>18, <1>19, <1>20
     DEF Next, Deliver, Step

(* Only Settle captures, only Finalize issues.                             *)
LEMMA PromiseStep ==
  Ledger /\ [Next]_vars =>
  [Promise!Next]_<<gateway = "paid", code>>
<1> SUFFICES ASSUME Ledger, [Next]_vars
      PROVE [Promise!Next]_<<gateway = "paid", code>>
  OBVIOUS
<1> USE DEF Ledger
<1>1. ASSUME NEW s \in {"pending", "failed"}, Checkout(s)
      PROVE [Promise!Next]_<<gateway = "paid", code>>
  BY <1>1 DEF Checkout, WaitingHasNone, Answer, Write, doc, world, local
<1>2. ASSUME NEW r \in Report, Settle(r)
      PROVE [Promise!Next]_<<gateway = "paid", code>>
  BY <1>2 DEF Settle, doc, Lost, Promise!Next, Promise!Capture
<1>3. ASSUME NEW r \in Report, NEW t \in Trigger, ChargilyWebhook(t, r)
      PROVE [Promise!Next]_<<gateway = "paid", code>>
  BY <1>3 DEF ChargilyWebhook, Begin, WaitingHasNone, Answer, Write, doc,
     world, local
<1>4. ASSUME NEW r \in Report, NEW t \in Trigger, CinetpayWebhook(t, r)
      PROVE [Promise!Next]_<<gateway = "paid", code>>
  BY <1>4 DEF CinetpayWebhook, Begin, WaitingHasNone, Answer, Write, doc,
     world, local
<1>5. CASE Ages
  BY <1>5 DEF Ages, WaitingHasNone, Answer, Write, doc, world, local
<1>6. ASSUME NEW t \in Trigger, Poll(t)
      PROVE [Promise!Next]_<<gateway = "paid", code>>
  BY <1>6 DEF Poll, Begin, WaitingHasNone, Answer, Write, doc, world, local
<1>7. ASSUME NEW t \in Trigger, Ask(t)
      PROVE [Promise!Next]_<<gateway = "paid", code>>
  BY <1>7 DEF Ask, WaitingHasNone, Answer, Write, doc, world, local
<1>8. ASSUME NEW t \in Trigger, AskFails(t)
      PROVE [Promise!Next]_<<gateway = "paid", code>>
  BY <1>8 DEF AskFails, WaitingHasNone, Answer, Write, doc, world, local
<1>9. ASSUME NEW t \in Trigger, Lose(t)
      PROVE [Promise!Next]_<<gateway = "paid", code>>
  BY <1>9 DEF Lose, WaitingHasNone, Answer, Write, doc, world, local
<1>10. ASSUME NEW t \in Trigger, Claim(t)
      PROVE [Promise!Next]_<<gateway = "paid", code>>
  BY <1>10 DEF Claim, Claimable, WaitingHasNone, Answer, Write, doc, world,
     local
<1>11. ASSUME NEW t \in Trigger, ClaimDenied(t)
      PROVE [Promise!Next]_<<gateway = "paid", code>>
  BY <1>11 DEF ClaimDenied, WaitingHasNone, Answer, Write, doc, world, local
<1>12. ASSUME NEW t \in Trigger, Beaten(t)
      PROVE [Promise!Next]_<<gateway = "paid", code>>
  BY <1>12 DEF Beaten, WaitingHasNone, Answer, Write, doc, world, local
<1>13. ASSUME NEW t \in Trigger, Mint(t)
      PROVE [Promise!Next]_<<gateway = "paid", code>>
  BY <1>13 DEF Mint, WaitingHasNone, Answer, Write, doc, world, local
<1>14. ASSUME NEW t \in Trigger, Throw(t)
      PROVE [Promise!Next]_<<gateway = "paid", code>>
  BY <1>14 DEF Throw, WaitingHasNone, Answer, Write, doc, world, local
<1>15. ASSUME NEW t \in Trigger, Finalize(t)
      PROVE [Promise!Next]_<<gateway = "paid", code>>
  <2>1. code = None /\ mine[t] \in Code /\ gateway = "paid"
    BY <1>15 DEF Finalize, Owns, WaitingHasNone, ToldTheTruth, HeldOnce, TypeOK
  <2> QED BY <1>15, <2>1 DEF Finalize, Write, Answer, Promise!Next,
     Promise!Issue
<1>16. ASSUME NEW t \in Trigger, FinalizeLost(t)
      PROVE [Promise!Next]_<<gateway = "paid", code>>
  BY <1>16 DEF FinalizeLost, WaitingHasNone, Answer, Write, doc, world, local
<1>17. ASSUME NEW t \in Trigger, Discard(t)
      PROVE [Promise!Next]_<<gateway = "paid", code>>
  BY <1>17 DEF Discard, WaitingHasNone, Answer, Write, doc, world, local
<1>18. ASSUME NEW t \in Trigger, Release(t)
      PROVE [Promise!Next]_<<gateway = "paid", code>>
  BY <1>18 DEF Release, Owns, WaitingHasNone, Answer, Write, doc, world, local
<1>19. ASSUME NEW t \in Trigger, Crash(t)
      PROVE [Promise!Next]_<<gateway = "paid", code>>
  BY <1>19 DEF Crash, WaitingHasNone, Answer, Write, doc, world, local
<1>20. CASE UNCHANGED vars
  BY <1>20 DEF vars, doc, world
<1> QED
  BY <1>1, <1>2, <1>3, <1>4, <1>5, <1>6, <1>7, <1>8, <1>9, <1>10, <1>11,
     <1>12, <1>13, <1>14, <1>15, <1>16, <1>17, <1>18, <1>19, <1>20
     DEF Next, Deliver, Step

(* The types hold whatever fails, however many requests there are.        *)
THEOREM TypeCorrect == Spec => []TypeOK
<1>1. Ledger /\ [Next]_vars => Ledger'
  BY TypeStep, WaitingStep, TruthStep, HeldStep DEF Ledger
<1>2. Ledger => TypeOK
  BY DEF Ledger
<1> QED BY LedgerInit, <1>1, <1>2, PTL DEF Spec

(* The payment keeps the promise of Purchase under every hazard: a code is *)
(* issued once, only for captured money, and is never exchanged.           *)
THEOREM Implements == Spec => IssuesOnce
<1>1. Init => Promise!Init
  BY Zenon DEF Init, Promise!Init
<1>2. Ledger /\ [Next]_vars => [Promise!Next]_<<gateway = "paid", code>>
  BY PromiseStep
<1>3. Ledger /\ [Next]_vars => Ledger'
  BY TypeStep, WaitingStep, TruthStep, HeldStep DEF Ledger
<1> QED BY LedgerInit, <1>1, <1>2, <1>3, PTL DEF Spec, IssuesOnce, Promise!Spec

(* Only a claimer stores a code, so "paid" and the code go together, and    *)
(* only a code that lost its claim is deleted.                             *)
LEMMA PaidStep == Ledger /\ PaidHasCode /\ [Next]_vars => PaidHasCode'
<1> SUFFICES ASSUME Ledger, PaidHasCode, [Next]_vars PROVE PaidHasCode'
  OBVIOUS
<1> USE DEF Ledger, PaidHasCode, Write, Answer, doc, world, local
<1>1. ASSUME NEW s \in {"pending", "failed"}, Checkout(s)
      PROVE PaidHasCode'
  BY <1>1 DEF Checkout, WaitingHasNone, HeldOnce
<1>2. ASSUME NEW r \in Report, Settle(r) PROVE PaidHasCode'
  BY <1>2 DEF Settle, WaitingHasNone, HeldOnce
<1>3. ASSUME NEW r \in Report, NEW t \in Trigger, ChargilyWebhook(t, r)
      PROVE PaidHasCode'
  BY <1>3 DEF ChargilyWebhook, Begin, WaitingHasNone, HeldOnce
<1>4. ASSUME NEW r \in Report, NEW t \in Trigger, CinetpayWebhook(t, r)
      PROVE PaidHasCode'
  BY <1>4 DEF CinetpayWebhook, Begin, WaitingHasNone, HeldOnce
<1>5. CASE Ages
  BY <1>5 DEF Ages, WaitingHasNone, HeldOnce
<1>6. ASSUME NEW t \in Trigger, Poll(t) PROVE PaidHasCode'
  BY <1>6 DEF Poll, Begin, WaitingHasNone, HeldOnce
<1>7. ASSUME NEW t \in Trigger, Ask(t) PROVE PaidHasCode'
  BY <1>7 DEF Ask, WaitingHasNone, HeldOnce
<1>8. ASSUME NEW t \in Trigger, AskFails(t) PROVE PaidHasCode'
  BY <1>8 DEF AskFails, WaitingHasNone, HeldOnce
<1>9. ASSUME NEW t \in Trigger, Lose(t) PROVE PaidHasCode'
  BY <1>9 DEF Lose, ToldTheTruth, Lost
<1>10. ASSUME NEW t \in Trigger, Claim(t) PROVE PaidHasCode'
  BY <1>10 DEF Claim, Claimable, WaitingHasNone, HeldOnce
<1>11. ASSUME NEW t \in Trigger, ClaimDenied(t) PROVE PaidHasCode'
  BY <1>11 DEF ClaimDenied, WaitingHasNone, HeldOnce
<1>12. ASSUME NEW t \in Trigger, Beaten(t) PROVE PaidHasCode'
  BY <1>12 DEF Beaten, WaitingHasNone, HeldOnce
<1>13. ASSUME NEW t \in Trigger, Mint(t) PROVE PaidHasCode'
  BY <1>13 DEF Mint, TypeOK
<1>14. ASSUME NEW t \in Trigger, Throw(t) PROVE PaidHasCode'
  BY <1>14 DEF Throw, WaitingHasNone, HeldOnce
<1>15. ASSUME NEW t \in Trigger, Finalize(t) PROVE PaidHasCode'
  BY <1>15 DEF Finalize, Owns, WaitingHasNone, HeldOnce
<1>16. ASSUME NEW t \in Trigger, FinalizeLost(t) PROVE PaidHasCode'
  BY <1>16 DEF FinalizeLost, WaitingHasNone, HeldOnce
<1>17. ASSUME NEW t \in Trigger, Discard(t) PROVE PaidHasCode'
  <2>1. mine[t] # code
    BY <1>17, CodeAssumption DEF Discard, HeldOnce, TypeOK
  <2> QED BY <1>17, <2>1 DEF Discard
<1>18. ASSUME NEW t \in Trigger, Release(t) PROVE PaidHasCode'
  BY <1>18 DEF Release, Owns, WaitingHasNone, HeldOnce
<1>19. ASSUME NEW t \in Trigger, Crash(t) PROVE PaidHasCode'
  BY <1>19 DEF Crash, WaitingHasNone, HeldOnce
<1>20. CASE UNCHANGED vars
  BY <1>20 DEF vars
<1> QED
  BY <1>1, <1>2, <1>3, <1>4, <1>5, <1>6, <1>7, <1>8, <1>9, <1>10, <1>11,
     <1>12, <1>13, <1>14, <1>15, <1>16, <1>17, <1>18, <1>19, <1>20
     DEF Next, Deliver, Step

(* Barring rows stored before the code and "paid" were one write, a paid   *)
(* payment shows a code that exists.                                       *)
THEOREM PaidShowsCode ==
  ASSUME "legacy" \notin Hazards PROVE Spec => []PaidHasCode
<1>1. Init => PaidHasCode
  BY DEF Init, PaidHasCode
<1>2. Ledger /\ [Next]_vars => Ledger'
  BY TypeStep, WaitingStep, TruthStep, HeldStep DEF Ledger
<1> QED BY LedgerInit, <1>1, <1>2, PaidStep, PTL DEF Spec

(* Every code that was minted and not deleted is in the payment or with a  *)
(* trigger that will store it or delete it.                                *)
Accounted ==
  \A c \in codes :
    c = code \/ \E t \in Trigger : pc[t] \in {"storing", "discarding"} /\ mine[t] = c

LEMMA AccountedKept ==
  ASSUME Accounted, TypeOK, UNCHANGED codes, code = None \/ UNCHANGED code,
         \A u \in Trigger : pc[u] \in {"storing", "discarding"} =>
           pc'[u] \in {"storing", "discarding"} /\ mine'[u] = mine[u]
  PROVE  Accounted'
BY CodeAssumption DEF Accounted, TypeOK

(* A code is dropped only by a failure after it was stored.                *)
LEMMA AccountedStep ==
  "orphan" \notin Hazards /\ Ledger /\ Accounted /\ [Next]_vars =>
  Accounted'
<1> SUFFICES ASSUME "orphan" \notin Hazards, Ledger, Accounted, [Next]_vars
      PROVE Accounted'
  OBVIOUS
<1> USE DEF Ledger
<1>1. ASSUME NEW s \in {"pending", "failed"}, Checkout(s)
      PROVE Accounted'
  <2>1. UNCHANGED codes /\ (code = None \/ UNCHANGED code)
    BY <1>1 DEF Checkout, Ledger, WaitingHasNone, Write, Answer, doc, world,
       local
  <2>2. \A u \in Trigger : pc[u] \in {"storing", "discarding"} =>
          pc'[u] \in {"storing", "discarding"} /\ mine'[u] = mine[u]
    BY <1>1 DEF Checkout, Ledger, TypeOK, Goto, Answer, doc, world, local
  <2> QED BY <2>1, <2>2, AccountedKept
<1>2. ASSUME NEW r \in Report, Settle(r) PROVE Accounted'
  <2>1. UNCHANGED codes /\ (code = None \/ UNCHANGED code)
    BY <1>2 DEF Settle, Ledger, WaitingHasNone, Write, Answer, doc, world,
       local
  <2>2. \A u \in Trigger : pc[u] \in {"storing", "discarding"} =>
          pc'[u] \in {"storing", "discarding"} /\ mine'[u] = mine[u]
    BY <1>2 DEF Settle, Ledger, TypeOK, Goto, Answer, doc, world, local
  <2> QED BY <2>1, <2>2, AccountedKept
<1>3. ASSUME NEW r \in Report, NEW t \in Trigger, ChargilyWebhook(t, r)
      PROVE Accounted'
  <2>1. UNCHANGED codes /\ (code = None \/ UNCHANGED code)
    BY <1>3 DEF ChargilyWebhook, Begin, Ledger, WaitingHasNone, Write,
       Answer, doc, world, local
  <2>2. \A u \in Trigger : pc[u] \in {"storing", "discarding"} =>
          pc'[u] \in {"storing", "discarding"} /\ mine'[u] = mine[u]
    BY <1>3 DEF ChargilyWebhook, Begin, Ledger, TypeOK, Goto, Answer, doc,
       world, local
  <2> QED BY <2>1, <2>2, AccountedKept
<1>4. ASSUME NEW r \in Report, NEW t \in Trigger, CinetpayWebhook(t, r)
      PROVE Accounted'
  <2>1. UNCHANGED codes /\ (code = None \/ UNCHANGED code)
    BY <1>4 DEF CinetpayWebhook, Begin, Ledger, WaitingHasNone, Write,
       Answer, doc, world, local
  <2>2. \A u \in Trigger : pc[u] \in {"storing", "discarding"} =>
          pc'[u] \in {"storing", "discarding"} /\ mine'[u] = mine[u]
    BY <1>4 DEF CinetpayWebhook, Begin, Ledger, TypeOK, Goto, Answer, doc,
       world, local
  <2> QED BY <2>1, <2>2, AccountedKept
<1>5. CASE Ages
  <2>1. UNCHANGED codes /\ (code = None \/ UNCHANGED code)
    BY <1>5 DEF Ages, Ledger, WaitingHasNone, Write, Answer, doc, world, local
  <2>2. \A u \in Trigger : pc[u] \in {"storing", "discarding"} =>
          pc'[u] \in {"storing", "discarding"} /\ mine'[u] = mine[u]
    BY <1>5 DEF Ages, Ledger, TypeOK, Goto, Answer, doc, world, local
  <2> QED BY <2>1, <2>2, AccountedKept
<1>6. ASSUME NEW t \in Trigger, Poll(t) PROVE Accounted'
  <2>1. UNCHANGED codes /\ (code = None \/ UNCHANGED code)
    BY <1>6 DEF Poll, Begin, Ledger, WaitingHasNone, Write, Answer, doc,
       world, local
  <2>2. \A u \in Trigger : pc[u] \in {"storing", "discarding"} =>
          pc'[u] \in {"storing", "discarding"} /\ mine'[u] = mine[u]
    BY <1>6 DEF Poll, Begin, Ledger, TypeOK, Goto, Answer, doc, world, local
  <2> QED BY <2>1, <2>2, AccountedKept
<1>7. ASSUME NEW t \in Trigger, Ask(t) PROVE Accounted'
  <2>1. UNCHANGED codes /\ (code = None \/ UNCHANGED code)
    BY <1>7 DEF Ask, Ledger, WaitingHasNone, Write, Answer, doc, world, local
  <2>2. \A u \in Trigger : pc[u] \in {"storing", "discarding"} =>
          pc'[u] \in {"storing", "discarding"} /\ mine'[u] = mine[u]
    BY <1>7 DEF Ask, Ledger, TypeOK, Goto, Answer, doc, world, local
  <2> QED BY <2>1, <2>2, AccountedKept
<1>8. ASSUME NEW t \in Trigger, AskFails(t) PROVE Accounted'
  <2>1. UNCHANGED codes /\ (code = None \/ UNCHANGED code)
    BY <1>8 DEF AskFails, Ledger, WaitingHasNone, Write, Answer, doc, world,
       local
  <2>2. \A u \in Trigger : pc[u] \in {"storing", "discarding"} =>
          pc'[u] \in {"storing", "discarding"} /\ mine'[u] = mine[u]
    BY <1>8 DEF AskFails, Ledger, TypeOK, Goto, Answer, doc, world, local
  <2> QED BY <2>1, <2>2, AccountedKept
<1>9. ASSUME NEW t \in Trigger, Lose(t) PROVE Accounted'
  <2>1. UNCHANGED codes /\ (code = None \/ UNCHANGED code)
    BY <1>9 DEF Lose, Ledger, WaitingHasNone, Write, Answer, doc, world, local
  <2>2. \A u \in Trigger : pc[u] \in {"storing", "discarding"} =>
          pc'[u] \in {"storing", "discarding"} /\ mine'[u] = mine[u]
    BY <1>9 DEF Lose, Ledger, TypeOK, Goto, Answer, doc, world, local
  <2> QED BY <2>1, <2>2, AccountedKept
<1>10. ASSUME NEW t \in Trigger, Claim(t) PROVE Accounted'
  <2>1. UNCHANGED codes /\ (code = None \/ UNCHANGED code)
    BY <1>10 DEF Claim, Claimable, Ledger, WaitingHasNone, Write, Answer,
       doc, world, local
  <2>2. \A u \in Trigger : pc[u] \in {"storing", "discarding"} =>
          pc'[u] \in {"storing", "discarding"} /\ mine'[u] = mine[u]
    BY <1>10 DEF Claim, Claimable, Ledger, TypeOK, Goto, Answer, doc, world,
       local
  <2> QED BY <2>1, <2>2, AccountedKept
<1>11. ASSUME NEW t \in Trigger, ClaimDenied(t) PROVE Accounted'
  <2>1. UNCHANGED codes /\ (code = None \/ UNCHANGED code)
    BY <1>11 DEF ClaimDenied, Ledger, WaitingHasNone, Write, Answer, doc,
       world, local
  <2>2. \A u \in Trigger : pc[u] \in {"storing", "discarding"} =>
          pc'[u] \in {"storing", "discarding"} /\ mine'[u] = mine[u]
    BY <1>11 DEF ClaimDenied, Ledger, TypeOK, Goto, Answer, doc, world, local
  <2> QED BY <2>1, <2>2, AccountedKept
<1>12. ASSUME NEW t \in Trigger, Beaten(t) PROVE Accounted'
  <2>1. UNCHANGED codes /\ (code = None \/ UNCHANGED code)
    BY <1>12 DEF Beaten, Ledger, WaitingHasNone, Write, Answer, doc, world,
       local
  <2>2. \A u \in Trigger : pc[u] \in {"storing", "discarding"} =>
          pc'[u] \in {"storing", "discarding"} /\ mine'[u] = mine[u]
    BY <1>12 DEF Beaten, Ledger, TypeOK, Goto, Answer, doc, world, local
  <2> QED BY <2>1, <2>2, AccountedKept
<1>13. ASSUME NEW t \in Trigger, Mint(t) PROVE Accounted'
  BY <1>13 DEF Mint, Accounted, Ledger, TypeOK, Goto, doc, world
<1>14. ASSUME NEW t \in Trigger, Throw(t) PROVE Accounted'
  <2>1. UNCHANGED codes /\ (code = None \/ UNCHANGED code)
    BY <1>14 DEF Throw, Ledger, WaitingHasNone, Write, Answer, doc, world,
       local
  <2>2. \A u \in Trigger : pc[u] \in {"storing", "discarding"} =>
          pc'[u] \in {"storing", "discarding"} /\ mine'[u] = mine[u]
    BY <1>14 DEF Throw, Ledger, TypeOK, Goto, Answer, doc, world, local
  <2> QED BY <2>1, <2>2, AccountedKept
<1>15. ASSUME NEW t \in Trigger, Finalize(t) PROVE Accounted'
  <2>1. code = None
    BY <1>15 DEF Finalize, Owns, Ledger, WaitingHasNone
  <2>2. code' = mine[t] /\ UNCHANGED codes
    BY <1>15 DEF Finalize, Write
  <2>3. \A u \in Trigger \ {t} : pc'[u] = pc[u] /\ mine'[u] = mine[u]
    BY <1>15 DEF Finalize, Answer, Goto, Ledger, TypeOK
  <2> QED BY <2>1, <2>2, <2>3, CodeAssumption DEF Accounted, Ledger, TypeOK
<1>16. ASSUME NEW t \in Trigger, FinalizeLost(t) PROVE Accounted'
  <2>1. UNCHANGED codes /\ (code = None \/ UNCHANGED code)
    BY <1>16 DEF FinalizeLost, Ledger, WaitingHasNone, Write, Answer, doc,
       world, local
  <2>2. \A u \in Trigger : pc[u] \in {"storing", "discarding"} =>
          pc'[u] \in {"storing", "discarding"} /\ mine'[u] = mine[u]
    BY <1>16 DEF FinalizeLost, Ledger, TypeOK, Goto, Answer, doc, world, local
  <2> QED BY <2>1, <2>2, AccountedKept
<1>17. ASSUME NEW t \in Trigger, Discard(t) PROVE Accounted'
  <2>1. UNCHANGED code /\ codes' = codes \ {mine[t]}
    BY <1>17 DEF Discard, doc
  <2>2. \A u \in Trigger \ {t} : pc'[u] = pc[u] /\ mine'[u] = mine[u]
    BY <1>17 DEF Discard, Answer, Goto, Ledger, TypeOK
  <2> QED BY <2>1, <2>2 DEF Accounted
<1>18. ASSUME NEW t \in Trigger, Release(t) PROVE Accounted'
  <2>1. UNCHANGED codes /\ (code = None \/ UNCHANGED code)
    BY <1>18 DEF Release, Owns, Ledger, WaitingHasNone, Write, Answer, doc,
       world, local
  <2>2. \A u \in Trigger : pc[u] \in {"storing", "discarding"} =>
          pc'[u] \in {"storing", "discarding"} /\ mine'[u] = mine[u]
    BY <1>18 DEF Release, Owns, Ledger, TypeOK, Goto, Answer, doc, world, local
  <2> QED BY <2>1, <2>2, AccountedKept
<1>19. ASSUME NEW t \in Trigger, Crash(t) PROVE Accounted'
  <2>1. UNCHANGED codes /\ (code = None \/ UNCHANGED code)
    BY <1>19 DEF Crash, Ledger, WaitingHasNone, Write, Answer, doc, world,
       local
  <2>2. \A u \in Trigger : pc[u] \in {"storing", "discarding"} =>
          pc'[u] \in {"storing", "discarding"} /\ mine'[u] = mine[u]
    BY <1>19 DEF Crash, Ledger, TypeOK, Goto, Answer, doc, world, local
  <2> QED BY <2>1, <2>2, AccountedKept
<1>20. CASE UNCHANGED vars
  BY <1>20 DEF vars, doc, local, Accounted
<1> QED
  BY <1>1, <1>2, <1>3, <1>4, <1>5, <1>6, <1>7, <1>8, <1>9, <1>10, <1>11,
     <1>12, <1>13, <1>14, <1>15, <1>16, <1>17, <1>18, <1>19, <1>20
     DEF Next, Deliver, Step

(* Barring failures between storing a code and storing "paid", no minted   *)
(* code is left over when the requests have been answered.                 *)
THEOREM NoneLeftOver ==
  ASSUME "orphan" \notin Hazards PROVE Spec => []NoOrphan
<1>1. Init => Accounted
  BY DEF Init, Accounted
<1>2. Ledger /\ [Next]_vars => Ledger'
  BY TypeStep, WaitingStep, TruthStep, HeldStep DEF Ledger
<1>3. Ledger /\ Accounted /\ [Next]_vars => Accounted'
  BY AccountedStep
<1>4. Accounted => NoOrphan
  BY DEF Accounted, NoOrphan, Quiet
<1> QED BY LedgerInit, <1>1, <1>2, <1>3, <1>4, PTL DEF Spec

(* Barring a second attempt, the gateway says one thing about a checkout,  *)
(* once, and everything on its way repeats it.                             *)
OneWord ==
  /\ events \subseteq {gateway}
  /\ \A t \in Trigger : report[t] # None => report[t] = gateway
  /\ gateway = "open" => events = {}
  /\ status = "creating" => gateway = "open"
  /\ NeverStranded

(* The gateway settles once, and only its word is written.                 *)
LEMMA OneWordStep ==
  "secondAttempt" \notin Hazards /\ Ledger /\ OneWord /\ [Next]_vars =>
  OneWord'
<1> SUFFICES ASSUME "secondAttempt" \notin Hazards, Ledger, OneWord, [Next]_vars
      PROVE OneWord'
  OBVIOUS
<1> USE NoneAssumption
<1> USE DEF Ledger, OneWord, NeverStranded, TypeOK, Report, Lost, Write,
   Answer,
            doc, world, local
<1>1. ASSUME NEW s \in {"pending", "failed"}, Checkout(s)
      PROVE OneWord'
  BY <1>1 DEF Checkout
<1>2. ASSUME NEW r \in Report, Settle(r) PROVE OneWord'
  BY <1>2 DEF Settle
<1>3. ASSUME NEW r \in Report, NEW t \in Trigger, ChargilyWebhook(t, r)
      PROVE OneWord'
  BY <1>3 DEF ChargilyWebhook, Begin
<1>4. ASSUME NEW r \in Report, NEW t \in Trigger, CinetpayWebhook(t, r)
      PROVE OneWord'
  BY <1>4 DEF CinetpayWebhook, Begin
<1>5. CASE Ages
  BY <1>5 DEF Ages
<1>6. ASSUME NEW t \in Trigger, Poll(t) PROVE OneWord'
  BY <1>6 DEF Poll, Begin
<1>7. ASSUME NEW t \in Trigger, Ask(t) PROVE OneWord'
  BY <1>7 DEF Ask
<1>8. ASSUME NEW t \in Trigger, AskFails(t) PROVE OneWord'
  BY <1>8 DEF AskFails
<1>9. ASSUME NEW t \in Trigger, Lose(t) PROVE OneWord'
  BY <1>9, NoneAssumption DEF Lose, ToldTheTruth
<1>10. ASSUME NEW t \in Trigger, Claim(t) PROVE OneWord'
  BY <1>10 DEF Claim, Claimable
<1>11. ASSUME NEW t \in Trigger, ClaimDenied(t) PROVE OneWord'
  BY <1>11 DEF ClaimDenied
<1>12. ASSUME NEW t \in Trigger, Beaten(t) PROVE OneWord'
  BY <1>12 DEF Beaten
<1>13. ASSUME NEW t \in Trigger, Mint(t) PROVE OneWord'
  BY <1>13 DEF Mint
<1>14. ASSUME NEW t \in Trigger, Throw(t) PROVE OneWord'
  BY <1>14 DEF Throw
<1>15. ASSUME NEW t \in Trigger, Finalize(t) PROVE OneWord'
  BY <1>15 DEF Finalize, Owns
<1>16. ASSUME NEW t \in Trigger, FinalizeLost(t) PROVE OneWord'
  BY <1>16 DEF FinalizeLost
<1>17. ASSUME NEW t \in Trigger, Discard(t) PROVE OneWord'
  BY <1>17 DEF Discard
<1>18. ASSUME NEW t \in Trigger, Release(t) PROVE OneWord'
  BY <1>18 DEF Release, Owns
<1>19. ASSUME NEW t \in Trigger, Crash(t) PROVE OneWord'
  BY <1>19 DEF Crash
<1>20. CASE UNCHANGED vars
  BY <1>20 DEF vars
<1> QED
  BY <1>1, <1>2, <1>3, <1>4, <1>5, <1>6, <1>7, <1>8, <1>9, <1>10, <1>11,
     <1>12, <1>13, <1>14, <1>15, <1>16, <1>17, <1>18, <1>19, <1>20
     DEF Next, Deliver, Step

(* Barring a second attempt at the gateway, a captured payment is never    *)
(* stored as failed or cancelled.                                          *)
THEOREM NeverLost ==
  ASSUME "secondAttempt" \notin Hazards PROVE Spec => []NeverStranded
<1>1. Init => OneWord
  BY NoneAssumption DEF Init, OneWord, NeverStranded, Lost, Report
<1>2. Ledger /\ [Next]_vars => Ledger'
  BY TypeStep, WaitingStep, TruthStep, HeldStep DEF Ledger
<1>3. Ledger /\ OneWord /\ [Next]_vars => OneWord'
  BY OneWordStep
<1>4. OneWord => NeverStranded
  BY DEF OneWord
<1> QED BY LedgerInit, <1>1, <1>2, <1>3, <1>4, PTL DEF Spec

=============================================================================
