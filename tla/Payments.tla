------------------------------ MODULE Payments ------------------------------
(***************************************************************************)
(* One online payment from checkout to activation code: routes/payments.js *)
(* and the Payment document.  Payments share no state, so one suffices.    *)
(*                                                                         *)
(* Triggers are the requests that may fulfil the payment, in any number of *)
(* processes: the Chargily webhook carries an event, and the CinetPay      *)
(* webhook and the status polls ask the gateway.  A trigger is reused when *)
(* its request has been answered.  updatedAt, which every write of the     *)
(* document sets, serves as claim token: instead of time stamps the model  *)
(* keeps "owner", the trigger whose token updatedAt still is.              *)
(***************************************************************************)
EXTENDS Integers, FiniteSets

CONSTANTS
  Trigger,   \* requests in flight at one time
  Code,      \* activation codes that can be minted; bounds the failures
  MaxFaults, \* bound of the failures, crashes and stalls together
  Hazards,   \* the events named in Hazard that may happen
  None

Hazard == {
  "throw",         \* code generation fails before a code is stored
  "crash",         \* the process of a trigger dies before a code is stored
  "orphan",        \* either happens when the code has been stored
  "stall",         \* a live claim is not written for five minutes
  "releaseRace",   \* a claim is handed back as its loser looks at the row
  "legacy",        \* the row was stored paid without a code
  "secondAttempt"} \* the gateway captures after reporting a failure

ASSUME CodeAssumption == IsFiniteSet(Code) /\ None \notin Code
ASSUME TriggerAssumption == None \notin Trigger
ASSUME FaultsAssumption == MaxFaults \in Nat
ASSUME HazardsAssumption == Hazards \subseteq Hazard

VARIABLES
  status,  \* Payment.status; CREATING before the gateway knows the checkout
  code,    \* Payment.activationCodeId
  owner,   \* the trigger whose claim token Payment.updatedAt is
  stale,   \* updatedAt is more than FULFILLMENT_STALE_MS old
  codes,   \* the ActivationCode documents minted for this payment
  used,    \* history: every code ever minted
  gateway, \* the gateway's state of the checkout
  events,  \* webhook events the gateway has to deliver
  pc,      \* where each trigger is
  seen,    \* the status each trigger read first
  carries, \* the webhook event a trigger delivers; None for a poll
  report,  \* the gateway's word each trigger acts on
  mine,    \* the code each trigger minted
  faults   \* failures so far

doc == <<status, code, owner, stale>>
world == <<gateway, events>>
local == <<seen, carries, report, mine>>
vars == <<doc, codes, used, world, pc, local, faults>>

Lost == {"failed", "canceled"}
Report == Lost \cup {"paid", "mismatch"}
Status == {"creating", "pending", "processing", "paid", "failed", "canceled"}
Holding == {"minting", "storing", "releasing"}

ASSUME NoneAssumption == None \notin Report

(* One invariant for the shape of every variable.                          *)
TypeOK ==
  /\ status \in Status
  /\ code \in Code \cup {None} /\ owner \in Trigger \cup {None}
  /\ stale \in BOOLEAN
  /\ codes \subseteq used /\ used \subseteq Code
  /\ gateway \in {"open"} \cup Report
  /\ events \subseteq Report
  /\ pc \in [Trigger -> {"idle", "asked", "told", "losing", "beaten"}
                          \cup Holding \cup {"discarding"}]
  /\ seen \in [Trigger -> Status]
  /\ carries \in [Trigger -> Report \cup {None}]
  /\ report \in [Trigger -> Report \cup {None}]
  /\ mine \in [Trigger -> Code \cup {None}]
  /\ faults \in 0 .. MaxFaults

Init ==
  /\ \/ status = "creating" /\ gateway = "open"
     \/ "legacy" \in Hazards /\ status = "paid" /\ gateway = "paid"
  /\ events = IF gateway = "paid" THEN {"paid"} ELSE {}
  /\ code = None /\ owner = None /\ stale = FALSE
  /\ codes = {} /\ used = {}
  /\ pc = [t \in Trigger |-> "idle"]
  /\ seen = [t \in Trigger |-> "creating"]
  /\ carries = [t \in Trigger |-> None]
  /\ report = [t \in Trigger |-> None]
  /\ mine = [t \in Trigger |-> None]
  /\ faults = 0

-----------------------------------------------------------------------------
(* Helpers.                                                                *)

Goto(t, to) == pc' = [pc EXCEPT ![t] = to]

(* Any write of the document sets updatedAt.                               *)
Write(s, c, o) == status' = s /\ code' = c /\ owner' = o /\ stale' = FALSE

Fault == faults < MaxFaults /\ faults' = faults + 1

(* The request is answered.  A webhook that is acked is not sent again.    *)
Answer(t, acked) ==
  /\ Goto(t, "idle")
  /\ carries' = [carries EXCEPT ![t] = None]
  /\ report' = [report EXCEPT ![t] = None]
  /\ mine' = [mine EXCEPT ![t] = None]
  /\ events' = IF acked THEN events \ {carries[t]} ELSE events
  /\ UNCHANGED <<seen, gateway>>

(* Mutants: a paid row is claimed again; a dead claim is never taken over. *)
ClaimablePaid == status \in {"pending", "paid"} \/ (status = "processing" /\ stale)
ClaimableNoTakeover == status = "pending" \/ (status = "paid" /\ code = None)

(* The condition under which claimFulfillment matches the document.        *)
Claimable ==
  \/ status = "pending"
  \/ status = "paid" /\ code = None
  \/ status = "processing" /\ stale

(* The fence of finalizeFulfillment and releaseFulfillmentClaim.           *)
Owns(t) == status = "processing" /\ owner = t

-----------------------------------------------------------------------------
(* The gateway and the customer.                                           *)

(* POST .../checkout: the gateway accepts the checkout or refuses it.      *)
Checkout(s) ==
  /\ status = "creating" /\ s \in {"pending", "failed"}
  /\ Write(s, None, None)
  /\ UNCHANGED <<codes, used, world, pc, local, faults>>

(* The customer pays, fails to, or gives up; the gateway will report it.   *)
Settle(r) ==
  /\ \/ gateway = "open" /\ status = "pending"
     \/ gateway \in Lost /\ r = "paid" /\ "secondAttempt" \in Hazards
  /\ gateway' = r
  /\ events' = events \cup {r}
  /\ UNCHANGED <<doc, codes, used, pc, local, faults>>

(* Five minutes without a write: the claimer has died, or it stalls.       *)
Ages ==
  /\ status = "processing" /\ ~stale
  /\ \/ /\ \A t \in Trigger : owner = t => pc[t] \notin Holding
        /\ UNCHANGED faults
     \/ "stall" \in Hazards /\ Fault
  /\ stale' = TRUE
  /\ UNCHANGED <<status, code, owner, codes, used, world, pc, local>>

-----------------------------------------------------------------------------
(* The requests, up to the decision to fulfil or to record a failure.      *)

Begin(t, e, to, r) ==
  /\ Goto(t, to)
  /\ seen' = [seen EXCEPT ![t] = status]
  /\ carries' = [carries EXCEPT ![t] = e]
  /\ report' = [report EXCEPT ![t] = r]
  /\ UNCHANGED <<doc, codes, used, world, mine, faults>>

(* POST /chargily/webhook: the event is the report.  A failure reported    *)
(* for a payment read as paid is acked and ignored.                        *)
ChargilyWebhook(t, e) ==
  /\ pc[t] = "idle" /\ e \in events /\ status # "creating"
  /\ \/ e \notin Lost /\ Begin(t, e, "told", e)
     \/ e \in Lost /\ status # "paid" /\ Begin(t, e, "losing", e)
     \/ /\ e \in Lost /\ status = "paid"
        /\ events' = events \ {e}
        /\ UNCHANGED <<doc, codes, used, gateway, pc, local, faults>>

(* POST /cinetpay/webhook: trusts nothing but the gateway's own answer.    *)
CinetpayWebhook(t, e) ==
  /\ pc[t] = "idle" /\ e \in events /\ status # "creating"
  /\ \/ /\ status = "paid" /\ code # None
        /\ events' = events \ {e}
        /\ UNCHANGED <<doc, codes, used, gateway, pc, local, faults>>
     \/ /\ ~(status = "paid" /\ code # None)
        /\ Begin(t, e, "asked", None)

(* The status polls: reconcilePayment, fifteen seconds after the checkout. *)
Poll(t) ==
  /\ pc[t] = "idle" /\ status \in {"pending", "processing"}
  /\ Begin(t, None, "asked", None)

(* The gateway answers.  A failure counts only if the row read "pending".  *)
Ask(t) ==
  /\ pc[t] = "asked"
  /\ \/ /\ gateway \in {"paid", "mismatch"}
        /\ Goto(t, "told")
        /\ report' = [report EXCEPT ![t] = gateway]
        /\ UNCHANGED <<world, seen, carries, mine>>
     \/ /\ gateway \in Lost /\ seen[t] = "pending"
        /\ Goto(t, "losing")
        /\ report' = [report EXCEPT ![t] = gateway]
        /\ UNCHANGED <<world, seen, carries, mine>>
     \/ /\ gateway = "open" \/ (gateway \in Lost /\ seen[t] # "pending")
        /\ Answer(t, TRUE)
  /\ UNCHANGED <<doc, codes, used, faults>>

(* The gateway cannot be asked: the webhook answers 500.                   *)
AskFails(t) ==
  /\ pc[t] = "asked" /\ Fault
  /\ Answer(t, FALSE)
  /\ UNCHANGED <<doc, codes, used>>

(* payment.save() of the document read before: the write has no condition. *)
Lose(t) ==
  /\ pc[t] = "losing"
  /\ IF seen[t] = report[t] THEN UNCHANGED doc
     ELSE Write(report[t], code, None)
  /\ Answer(t, TRUE)
  /\ UNCHANGED <<codes, used, faults>>

-----------------------------------------------------------------------------
(* fulfillPayment.                                                         *)

(* Mutant: the row is marked paid before there is a code.                  *)
ClaimPaysFirst(t) ==
  /\ pc[t] = "told" /\ Claimable
  /\ Write("paid", code, t)
  /\ Goto(t, IF report[t] = "paid" THEN "minting" ELSE "releasing")
  /\ UNCHANGED <<codes, used, world, local, faults>>

(* claimFulfillment, also on behalf of recordFulfillmentMismatch, which    *)
(* hands the claim back at once.                                           *)
Claim(t) ==
  /\ pc[t] = "told" /\ Claimable
  /\ Write("processing", code, t)
  /\ Goto(t, IF report[t] = "paid" THEN "minting" ELSE "releasing")
  /\ UNCHANGED <<codes, used, world, local, faults>>

ClaimDenied(t) ==
  /\ pc[t] = "told" /\ ~Claimable
  /\ IF report[t] = "paid"
     THEN Goto(t, "beaten") /\ UNCHANGED <<world, local>>
     ELSE Answer(t, FALSE)
  /\ UNCHANGED <<doc, codes, used, faults>>

(* The loser reads the status again: "in-flight" is not acked.             *)
Beaten(t) ==
  /\ pc[t] = "beaten"
  /\ Answer(t, status # "processing")
  /\ UNCHANGED <<doc, codes, used, faults>>

(* generateCodes stores one code.                                          *)
Mint(t) ==
  /\ pc[t] = "minting"
  /\ \E c \in Code \ used :
       /\ codes' = codes \cup {c} /\ used' = used \cup {c}
       /\ mine' = [mine EXCEPT ![t] = c]
  /\ Goto(t, "storing")
  /\ UNCHANGED <<doc, world, seen, carries, report, faults>>

(* generateCodes refuses or throws, or the code stored is not used after   *)
(* all because a later call throws.                                        *)
Throw(t) ==
  /\ \/ pc[t] = "minting" /\ "throw" \in Hazards
     \/ pc[t] = "storing" /\ "orphan" \in Hazards
  /\ Fault
  /\ Goto(t, "releasing")
  /\ UNCHANGED <<doc, codes, used, world, local>>

(* finalizeFulfillment: the code and "paid" are one write.                 *)
Finalize(t) ==
  /\ pc[t] = "storing" /\ Owns(t)
  /\ Write("paid", mine[t], None)
  /\ Answer(t, TRUE)
  /\ UNCHANGED <<codes, used, faults>>

FinalizeLost(t) ==
  /\ pc[t] = "storing" /\ ~Owns(t)
  /\ Goto(t, "discarding")
  /\ UNCHANGED <<doc, codes, used, world, local, faults>>

(* Mutant: the loser keeps the code it minted.                             *)
DiscardNothing(t) ==
  /\ pc[t] = "discarding"
  /\ Answer(t, FALSE)
  /\ UNCHANGED <<doc, codes, used, faults>>

(* The code of a claim that was taken over is deleted.                     *)
Discard(t) ==
  /\ pc[t] = "discarding"
  /\ codes' = codes \ {mine[t]}
  /\ Answer(t, FALSE)
  /\ UNCHANGED <<doc, used, faults>>

(* Mutant: a failed attempt is recorded as a failed payment.               *)
ReleaseAsFailed(t) ==
  /\ pc[t] = "releasing"
  /\ IF Owns(t) THEN Write("failed", code, None) ELSE UNCHANGED doc
  /\ Answer(t, FALSE)
  /\ UNCHANGED <<codes, used, faults>>

(* releaseFulfillmentClaim.                                                *)
Release(t) ==
  /\ pc[t] = "releasing"
  /\ "releaseRace" \in Hazards \/ \A u \in Trigger : pc[u] # "beaten"
  /\ IF Owns(t) THEN Write("pending", code, None) ELSE UNCHANGED doc
  /\ Answer(t, FALSE)
  /\ UNCHANGED <<codes, used, faults>>

(* The process dies; nothing is answered.                                  *)
Crash(t) ==
  /\ pc[t] # "idle"
  /\ (IF pc[t] \in {"storing", "discarding"} THEN "orphan" ELSE "crash")
       \in Hazards
  /\ Fault
  /\ Answer(t, FALSE)
  /\ UNCHANGED <<doc, codes, used>>

-----------------------------------------------------------------------------
Step(t) ==
  \/ Ask(t) \/ Lose(t) \/ Claim(t) \/ ClaimDenied(t) \/ Beaten(t) \/ Mint(t)
  \/ Finalize(t) \/ FinalizeLost(t) \/ Discard(t) \/ Release(t)

Deliver(e) ==
  \E t \in Trigger : ChargilyWebhook(t, e) \/ CinetpayWebhook(t, e)

Next ==
  \/ \E s \in {"pending", "failed"} : Checkout(s)
  \/ \E r \in Report : Settle(r) \/ Deliver(r)
  \/ Ages
  \/ \E t \in Trigger :
       Step(t) \/ Poll(t) \/ AskFails(t) \/ Throw(t) \/ Crash(t)

Spec == Init /\ [][Next]_vars

(* A request that has begun goes on, time passes, and the gateway repeats  *)
(* an event until it is acked; polls are not relied upon.  A step waits    *)
(* for nothing, except a release where "releaseRace" is excluded: strong   *)
(* fairness keeps that exclusion from delaying it for ever.                *)
Fairness ==
  /\ \A t \in Trigger : SF_vars(Step(t))
  /\ WF_vars(Ages /\ UNCHANGED faults)
  /\ \A e \in Report : SF_vars(Deliver(e))

FairSpec == Spec /\ Fairness

-----------------------------------------------------------------------------
(* Properties.                                                             *)

Quiet == \A t \in Trigger : pc[t] = "idle"

(* Exactly one code: between requests, every code ever minted for the      *)
(* payment and not deleted is the one the payment shows.                   *)
NoOrphan == Quiet => codes \subseteq {code}

(* "paid" is written together with the code, and the code exists.          *)
PaidHasCode == status = "paid" => code \in codes

(* Captured money never ends in a failure the customer cannot leave.       *)
NeverStranded == gateway = "paid" => status \notin Lost

(* Captured money is turned into a code, whatever fails on the way.        *)
CapturedGetsCode == (gateway = "paid") ~> (status = "paid" /\ code \in codes)

(* The payment keeps the promise of module Purchase: one code per capture, *)
(* never without the money and never another one later.                    *)
Promise == INSTANCE Purchase WITH
  captured <- gateway = "paid", issued <- code, NoCode <- None
IssuesOnce == Promise!Spec
=============================================================================
