-------------------------- MODULE ActivationProofs --------------------------
(***************************************************************************)
(* Theorems about Activation, for any codes, accounts, calls, durations    *)
(* and bounds.                                                             *)
(***************************************************************************)
EXTENDS Activation, TLAPS

USE OwnerAssumption, DaysAssumption, ExpiresOnAssumption, MaxNowAssumption,
    HazardsAssumption, NobodyAssumption

-----------------------------------------------------------------------------
(* Whatever the hazards, every variable keeps its shape.                   *)

(* A status write yields a status again and leaves only codes in stale.    *)
LEMMA SetStatusType ==
  ASSUME TypeOK, NEW c \in Code, NEW s \in CodeStatus, SetStatus(c, s)
  PROVE  /\ status' \in [Code -> CodeStatus]
         /\ stale' \subseteq Code
  BY DEF TypeOK, SetStatus

(* Steps of a call that only move its program counter.                     *)
LEMMA OnlyMovesType ==
  ASSUME TypeOK, NEW r \in Call,
         NEW to \in {"idle"} \cup Running \cup Ended, OnlyMoves(r, to)
  PROVE  TypeOK'
  BY DEF TypeOK, OnlyMoves, Goto, codeVars, subVars

(* Steps of a call that write its code's status.                           *)
LEMMA WritesCodeType ==
  ASSUME TypeOK, NEW r \in Call, NEW s \in CodeStatus,
         NEW to \in {"idle"} \cup Running \cup Ended, WritesCode(r, s, to)
  PROVE  TypeOK'
<1>1. codeOf[r] \in Code BY DEF TypeOK
<1>2. SetStatus(codeOf[r], s) BY DEF WritesCode
<1>3. status' \in [Code -> CodeStatus] /\ stale' \subseteq Code
  BY <1>1, <1>2, SetStatusType
<1> QED BY <1>3 DEF TypeOK, WritesCode, Goto, subVars

(* The history variables keep their shape when a subscription is written.  *)
LEMMA PaysType ==
  ASSUME TypeOK, NEW r \in Call, Pays(r)
  PROVE  minted' \subseteq Call /\ paidUntil' \in [User -> Nat]
<1>1. Owner[r] \in User /\ codeOf[r] \in Code BY DEF TypeOK
<1>2. Later(paidUntil[Owner[r]], startedAt[r]) + Days[codeOf[r]] \in Nat
  BY <1>1 DEF TypeOK, Later
<1> QED BY <1>1, <1>2 DEF Pays, TypeOK

LEMMA RedeemType ==
  ASSUME TypeOK, NEW r \in Call, Redeem(r)
  PROVE  TypeOK'
<1> USE DEF Running, Writing, Ended, CodeStatus
<1>0. codeOf[r] \in Code BY DEF TypeOK
<1>1. CASE Claim(r)
  <2>1. SetStatus(codeOf[r], "ACTIVATING") BY <1>1 DEF Claim
  <2>2. status' \in [Code -> CodeStatus] /\ stale' \subseteq Code
    BY <2>1, <1>0, SetStatusType
  <2>3. pc' \in [Call -> {"idle"} \cup Running \cup Ended]
    BY <1>1 DEF Claim, Goto, TypeOK
  <2> QED BY <1>1, <2>2, <2>3 DEF Claim, TypeOK, subVars
<1>2. CASE ClaimLost(r) BY <1>2, OnlyMovesType DEF ClaimLost
<1>3. CASE ExpireClaimed(r) BY <1>3, WritesCodeType DEF ExpireClaimed
<1>4. CASE PlanUnavailable(r) BY <1>4, WritesCodeType DEF PlanUnavailable
<1>5. CASE PlanFound(r) BY <1>5, OnlyMovesType DEF PlanFound
<1>6. CASE DeviceRefused(r) BY <1>6, WritesCodeType DEF DeviceRefused
<1>7. CASE ReadSubscription(r)
  <2>1. \A x \in ActiveRows(Owner[r]) : row[x].until \in Nat
    BY DEF ActiveRows, TypeOK, Rows, NoRow
  <2>2. seen' \in [Call -> [row : Call \cup {Nobody}, until : Nat]]
    BY <1>7, <2>1 DEF ReadSubscription, TypeOK, ActiveRows
  <2> QED BY <1>7, <2>2 DEF ReadSubscription, Goto, TypeOK, codeVars, subVars
<1>8. CASE ExtendSubscription(r)
  <2> DEFINE x == seen[r].row
             until == Later(seen[r].until, startedAt[r]) + Days[codeOf[r]]
  <2>1. x \in Call BY <1>8 DEF ExtendSubscription, TypeOK
  <2>2. until \in Nat BY <1>0 DEF TypeOK, Later
  <2>3. row[x] \in Rows BY <2>1 DEF TypeOK
  <2>4. RowWith(x, row[x].status, until) \in Rows
    BY <2>2, <2>3 DEF RowWith, Rows
  <2>5. row' \in [Call -> Rows]
    BY <1>8, <2>4 DEF ExtendSubscription, TypeOK
  <2> QED BY <1>8, <2>5, PaysType
       DEF ExtendSubscription, Goto, TypeOK, codeVars
<1>9. CASE CreateSubscription(r)
  <2>1. startedAt[r] + Days[codeOf[r]] \in Nat BY <1>0 DEF TypeOK
  <2>2. row' \in [Call -> Rows]
    BY <1>9, <2>1 DEF CreateSubscription, TypeOK, Rows
  <2> QED BY <1>9, <2>2, PaysType
       DEF CreateSubscription, Goto, TypeOK, codeVars
<1>10. CASE ActivateCode(r)
  <2>1. CASE status[codeOf[r]] = "DELETED"
    BY <1>10, <2>1 DEF ActivateCode, Goto, TypeOK, subVars
  <2>2. CASE status[codeOf[r]] # "DELETED"
    <3>1. SetStatus(codeOf[r], "ACTIVATED") BY <1>10, <2>2 DEF ActivateCode
    <3>2. status' \in [Code -> CodeStatus] /\ stale' \subseteq Code
      BY <3>1, <1>0, SetStatusType
    <3>3. activatedBy' \in [Code -> User \cup {Nobody}]
      BY <1>10, <2>2, <1>0 DEF ActivateCode, TypeOK
    <3>4. pc' \in [Call -> {"idle"} \cup Running \cup Ended]
      BY <1>10, <2>2 DEF ActivateCode, Goto, TypeOK
    <3> QED BY <1>10, <2>2, <3>2, <3>3, <3>4 DEF ActivateCode, Goto, TypeOK, subVars
  <2> QED BY <2>1, <2>2
<1>11. CASE Answer(r) BY <1>11, OnlyMovesType DEF Answer
<1>12. CASE CatchRestore(r) BY <1>12, WritesCodeType DEF CatchRestore
<1> QED BY <1>1, <1>2, <1>3, <1>4, <1>5, <1>6, <1>7, <1>8, <1>9, <1>10,
           <1>11, <1>12 DEF Redeem

LEMMA FaultType ==
  ASSUME TypeOK, NEW r \in Call, Fault(r)
  PROVE  TypeOK'
<1>1. \E to \in {"error", "threw", "crashed"} : OnlyMoves(r, to)
  BY DEF Fault, ThrowOutsideTry, Throw, Crash
<1> QED BY <1>1, OnlyMovesType DEF Running, Writing, Ended

LEMMA CodeStepType ==
  ASSUME TypeOK, NEW c \in Code, ClaimAges(c) \/ DailyTask(c) \/ Admin(c)
  PROVE  TypeOK'
<1>1. CASE ClaimAges(c)
  BY <1>1 DEF ClaimAges, TypeOK, callVars, subVars
<1>2. CASE RecoverStale(c)
  <2>1. status' \in [Code -> CodeStatus] /\ stale' \subseteq Code
    BY <1>2, SetStatusType DEF RecoverStale, CodeStatus
  <2> QED BY <1>2, <2>1 DEF RecoverStale, TypeOK, callVars, subVars
<1>3. CASE ExpireUnused(c)
  <2>1. status' \in [Code -> CodeStatus] /\ stale' \subseteq Code
    BY <1>3, SetStatusType DEF ExpireUnused, CodeStatus
  <2> QED BY <1>3, <2>1 DEF ExpireUnused, TypeOK, callVars, subVars
<1>4. CASE \E w \in {"REVOKED", "UNUSED", "DELETED"} : AdminRead(c, w)
  <2>1. PICK w \in {"REVOKED", "UNUSED", "DELETED"} : AdminRead(c, w) BY <1>4
  <2>2. [code |-> c, read |-> status[c], write |-> w] \in Edits
    BY <2>1 DEF AdminRead, Edits, TypeOK, CodeStatus
  <2> QED BY <2>1, <2>2 DEF AdminRead, TypeOK, codeVars, callVars, subVars
<1>5. CASE BulkRevoke(c)
  <2>1. status' \in [Code -> CodeStatus] /\ stale' \subseteq Code
    BY <1>5, SetStatusType DEF BulkRevoke, CodeStatus
  <2> QED BY <1>5, <2>1 DEF BulkRevoke, TypeOK, callVars, subVars
<1>6. CASE BulkRestore(c)
  <2>1. status' \in [Code -> CodeStatus] /\ stale' \subseteq Code
    BY <1>6, SetStatusType DEF BulkRestore, CodeStatus
  <2> QED BY <1>6, <2>1 DEF BulkRestore, TypeOK, callVars, subVars
<1> QED BY <1>1, <1>2, <1>3, <1>4, <1>5, <1>6 DEF DailyTask, Admin

LEMMA AdminSaveType ==
  ASSUME TypeOK, NEW e \in pending, AdminSave(e)
  PROVE  TypeOK'
<1>1. e \in Edits BY DEF TypeOK
<1>2. e.code \in Code /\ e.write \in CodeStatus BY <1>1 DEF Edits, CodeStatus
<1>3. SetStatus(e.code, e.write) BY DEF AdminSave
<1>4. status' \in [Code -> CodeStatus] /\ stale' \subseteq Code
  BY <1>2, <1>3, SetStatusType
<1>5. expiry' \in [Code -> Nat \cup {Never}] BY <1>2 DEF AdminSave, TypeOK
<1>6. pending' \subseteq Edits BY DEF AdminSave, TypeOK
<1> QED BY <1>4, <1>5, <1>6 DEF AdminSave, TypeOK, callVars, subVars

LEMMA MarkExpiredType ==
  ASSUME TypeOK, NEW x \in Call, MarkExpired(x)
  PROVE  TypeOK'
<1>1. row[x] \in Rows BY DEF TypeOK
<1>2. RowWith(x, "EXPIRED", row[x].until) \in Rows BY <1>1 DEF RowWith, Rows
<1>3. row' \in [Call -> Rows] BY <1>2 DEF MarkExpired, TypeOK
<1> QED BY <1>3 DEF MarkExpired, TypeOK, codeVars, callVars

(* Type correctness: every variable keeps its shape under every hazard.    *)
THEOREM TypeCorrect == Spec => []TypeOK
<1>1. Init => TypeOK
  BY DEF Init, TypeOK, Never, NoRow, Rows, CodeStatus
<1>2. TypeOK /\ [Next]_vars => TypeOK'
  <2> SUFFICES ASSUME TypeOK, [Next]_vars PROVE TypeOK' OBVIOUS
  <2>1. CASE Tick BY <2>1 DEF Tick, TypeOK, codeVars, callVars, subVars
  <2>2. CASE UNCHANGED vars
    BY <2>2 DEF TypeOK, vars, codeVars, callVars, subVars
  <2> QED BY <2>1, <2>2, RedeemType, FaultType, CodeStepType, AdminSaveType,
             MarkExpiredType DEF Next
<1> QED BY <1>1, <1>2, PTL DEF Spec

-----------------------------------------------------------------------------
(* No paid code is burnt, under every hazard.                              *)

(* ActivatedMeansPaid alone is not inductive: a call about to write        *)
(* ACTIVATED must already have written its subscription.                   *)
MintedFirst == \A r \in Call : pc[r] = "minted" => r \in minted

PaidInv == TypeOK /\ MintedFirst /\ ActivatedMeansPaid

(* Only ActivateCode writes ACTIVATED or activatedBy; payments and the     *)
(* codes that calls present are never undone.                              *)
LEMMA OnlyActivateCode ==
  ASSUME TypeOK, [Next]_vars, \A r \in Call : ~ActivateCode(r)
  PROVE  /\ activatedBy' = activatedBy
         /\ codeOf' = codeOf
         /\ minted \subseteq minted'
         /\ \A c \in Code : status'[c] = "ACTIVATED" => status[c] = "ACTIVATED"
<1> USE DEF SetStatus, WritesCode, OnlyMoves, codeVars, callVars, subVars
<1>1. CASE \E r \in Call : Redeem(r)
  BY <1>1 DEF TypeOK, Redeem, Claim, ClaimLost, ExpireClaimed,
     PlanUnavailable, PlanFound, DeviceRefused, ReadSubscription,
     ExtendSubscription, CreateSubscription, Answer, CatchRestore, Pays
<1>2. CASE \E r \in Call : Fault(r)
  BY <1>2 DEF Fault, ThrowOutsideTry, Throw, Crash
<1>3. CASE \E c \in Code : ClaimAges(c) \/ DailyTask(c) \/ Admin(c)
  BY <1>3 DEF TypeOK, ClaimAges, DailyTask, RecoverStale, ExpireUnused, Admin,
     AdminRead, BulkRevoke, BulkRestore
<1>4. CASE \E x \in Call : MarkExpired(x) BY <1>4 DEF MarkExpired
<1>5. CASE \E e \in pending : AdminSave(e)
  BY <1>5 DEF TypeOK, AdminSave, Edits
<1>6. CASE Tick BY <1>6 DEF Tick
<1>7. CASE UNCHANGED vars BY <1>7 DEF vars
<1> QED BY <1>1, <1>2, <1>3, <1>4, <1>5, <1>6, <1>7 DEF Next

(* A call reaches "minted" only by writing its subscription.               *)
LEMMA MintedFirstStep ==
  ASSUME TypeOK, MintedFirst, [Next]_vars
  PROVE  MintedFirst'
<1> USE DEF OnlyMoves, WritesCode, Goto, codeVars, callVars, subVars
<1>1. CASE \E r \in Call : Redeem(r)
  BY <1>1 DEF MintedFirst, TypeOK, Redeem, Claim, ClaimLost, ExpireClaimed,
     PlanUnavailable, PlanFound, DeviceRefused, ReadSubscription,
     ExtendSubscription, CreateSubscription, ActivateCode, Answer,
     CatchRestore, Pays
<1>2. CASE \E r \in Call : Fault(r)
  BY <1>2 DEF MintedFirst, TypeOK, Fault, ThrowOutsideTry, Throw, Crash
<1>3. CASE UNCHANGED <<pc, minted>> BY <1>3 DEF MintedFirst
<1>4. CASE Tick BY <1>3, <1>4 DEF Tick
<1>5. CASE \E c \in Code : ClaimAges(c) \/ DailyTask(c) \/ Admin(c)
  BY <1>3, <1>5 DEF ClaimAges, DailyTask, RecoverStale, ExpireUnused, Admin,
     AdminRead, BulkRevoke, BulkRestore
<1>6. CASE \E x \in Call : MarkExpired(x) BY <1>3, <1>6 DEF MarkExpired
<1>7. CASE \E e \in pending : AdminSave(e) BY <1>3, <1>7 DEF AdminSave
<1>8. CASE UNCHANGED vars BY <1>3, <1>8 DEF vars
<1> QED BY <1>1, <1>2, <1>4, <1>5, <1>6, <1>7, <1>8 DEF Next

(* Whatever fails, races or crashes, a code marked ACTIVATED has paid for  *)
(* a subscription of the account it names.                                 *)
THEOREM PaidCodesNeverBurnt == Spec => []ActivatedMeansPaid
<1>1. Init => PaidInv
  BY DEF Init, PaidInv, TypeOK, Never, NoRow, Rows, CodeStatus, MintedFirst,
     ActivatedMeansPaid
<1>2. PaidInv /\ TypeOK' /\ [Next]_vars => PaidInv'
  <2> SUFFICES ASSUME PaidInv, TypeOK', [Next]_vars PROVE PaidInv' OBVIOUS
  <2>1. MintedFirst' BY MintedFirstStep DEF PaidInv
  <2>2. ActivatedMeansPaid'
    <3>1. CASE \E r \in Call : ActivateCode(r)
      <4> PICK r \in Call : ActivateCode(r) BY <3>1
      <4>1. r \in minted /\ codeOf[r] \in Code
        BY DEF PaidInv, MintedFirst, ActivateCode, TypeOK
      <4>2. minted' = minted /\ codeOf' = codeOf
        BY DEF ActivateCode, subVars
      <4>3. CASE status[codeOf[r]] = "DELETED"
        BY <4>2, <4>3 DEF ActivateCode, PaidInv, ActivatedMeansPaid, PaidFrom
      <4>4. CASE status[codeOf[r]] # "DELETED"
        <5>1. activatedBy' = [activatedBy EXCEPT ![codeOf[r]] = Owner[r]]
          BY <4>4 DEF ActivateCode
        <5>2. \A c \in Code : c # codeOf[r] => status'[c] = status[c]
          BY <4>4 DEF ActivateCode, SetStatus, PaidInv, TypeOK
        <5> QED BY <4>1, <4>2, <5>1, <5>2
                DEF PaidInv, TypeOK, ActivatedMeansPaid, PaidFrom
      <4> QED BY <4>3, <4>4
    <3>2. CASE \A r \in Call : ~ActivateCode(r)
      BY <3>2, OnlyActivateCode DEF PaidInv, ActivatedMeansPaid, PaidFrom
    <3> QED BY <3>1, <3>2
  <2> QED BY <2>1, <2>2 DEF PaidInv
<1>3. PaidInv => ActivatedMeansPaid BY DEF PaidInv
<1> QED BY <1>1, <1>2, <1>3, TypeCorrect, PTL DEF Spec

-----------------------------------------------------------------------------
(***************************************************************************)
(* What redemption guarantees as long as nothing fails once a subscription *)
(* is written, no redeem outlives the 15-minute recovery and no admin acts *)
(* on a code in flight: one code pays once, and Activation implements      *)
(* RedeemOnce.  Crashes and exceptions before the subscription is written, *)
(* overlapping redeems of one account and the expiry sweep stay allowed.   *)
(***************************************************************************)
Calm == Hazards \cap {"lateCrash", "lateThrow", "slow", "adminRace"} = {}

Paid == {"minted", "activated", "ok"}

(* A call that writes a code holds its claim, alone; the calls that have   *)
(* paid are exactly those past the write; a finished one left ACTIVATED.   *)
HoldsClaim ==
  \A r \in Call : pc[r] \in Writing =>
    status[codeOf[r]] = "ACTIVATING" /\ codeOf[r] \notin stale
Alone ==
  \A p, q \in Call :
    pc[p] \in Writing /\ pc[q] \in Writing /\ codeOf[p] = codeOf[q] => p = q
PaidIsPast == \A r \in Call : r \in minted <=> pc[r] \in Paid
DoneIsActivated ==
  \A r \in Call :
    pc[r] \in {"activated", "ok"} => status[codeOf[r]] = "ACTIVATED"

ClaimInv ==
  /\ TypeOK
  /\ HoldsClaim
  /\ Alone
  /\ PaidIsPast
  /\ DoneIsActivated
  /\ OneMintPerCode

(* Two facts the steps below use: nobody holds a code that is not          *)
(* ACTIVATING or is stale, and no call has paid from a code that is        *)
(* neither ACTIVATING nor ACTIVATED.                                       *)
LEMMA ClaimFacts ==
  ASSUME ClaimInv
  PROVE  /\ \A c \in Code, r \in Call :
              (status[c] # "ACTIVATING" \/ c \in stale) /\ codeOf[r] = c
                => pc[r] \notin Writing
         /\ \A c \in Code, r \in Call :
              status[c] \notin {"ACTIVATING", "ACTIVATED"} /\ codeOf[r] = c
                => r \notin minted
  BY DEF ClaimInv, HoldsClaim, PaidIsPast, DoneIsActivated, Paid, Writing

(* Steps of a call, fault steps included.                                  *)
LEMMA CallStepKeepsClaimInv ==
  ASSUME Calm, ClaimInv, TypeOK', NEW r \in Call, Redeem(r) \/ Fault(r)
  PROVE  ClaimInv'
<1> USE DEF ClaimInv, HoldsClaim, Alone, PaidIsPast, DoneIsActivated,
            OneMintPerCode, Paid, Writing, Goto
<1>0. codeOf[r] \in Code BY DEF TypeOK
<1>1. CASE Claim(r)
  BY <1>0, <1>1, ClaimFacts DEF Claim, SetStatus, TypeOK, subVars
<1>2. CASE \E to \in {"refused", "planned", "ok", "error", "crashed", "threw"} :
             /\ OnlyMoves(r, to)
             /\ \/ to = "refused" /\ pc[r] = "idle"
                \/ to = "planned" /\ pc[r] = "claimed"
                \/ to = "ok" /\ pc[r] = "activated"
                \/ to \in {"error", "crashed"} /\ pc[r] \in Writing \ {"minted"}
                \/ to = "threw" /\ pc[r] \in {"planned", "read"}
  BY <1>0, <1>2 DEF OnlyMoves, codeVars, subVars, TypeOK
<1>3. CASE \E s \in CodeStatus, to \in {"refused", "error"} :
             /\ WritesCode(r, s, to)
             /\ s # "ACTIVATED"
             /\ pc[r] \in Writing \ {"minted"}
  BY <1>0, <1>3 DEF WritesCode, SetStatus, subVars, TypeOK
<1>4. CASE ReadSubscription(r)
  BY <1>4 DEF ReadSubscription, codeVars, subVars, TypeOK
<1>5. CASE ExtendSubscription(r) \/ CreateSubscription(r)
  <2>1. pc[r] = "read" /\ pc' = [pc EXCEPT ![r] = "minted"]
        /\ minted' = minted \cup {r} /\ codeOf' = codeOf
        /\ status' = status /\ stale' = stale
    BY <1>5 DEF ExtendSubscription, CreateSubscription, Pays, codeVars
  <2>2. \A q \in minted : codeOf[q] = codeOf[r] => q = r
    BY <2>1 DEF TypeOK
  <2>3. OneMintPerCode' BY <2>1, <2>2 DEF TypeOK
  <2> QED BY <2>1, <2>3 DEF TypeOK
<1>6. CASE ActivateCode(r)
  <2>1. status[codeOf[r]] = "ACTIVATING" BY <1>6 DEF ActivateCode
  <2>2. \A q \in Call \ {r} : codeOf[q] = codeOf[r] =>
          pc[q] \notin Writing \cup {"activated", "ok"}
    BY <1>6, <2>1 DEF ActivateCode
  <2> QED BY <1>0, <1>6, <2>1, <2>2 DEF ActivateCode, SetStatus, subVars, TypeOK
<1>7. CASE Redeem(r)
  BY <1>1, <1>2, <1>3, <1>4, <1>5, <1>6, <1>7
     DEF Redeem, ClaimLost, ExpireClaimed, PlanUnavailable, PlanFound,
         DeviceRefused, Answer, CatchRestore, CodeStatus
<1>8. CASE Fault(r)
  <2>1. ~("lateCrash" \in Hazards) /\ ~("lateThrow" \in Hazards) BY DEF Calm
  <2> QED BY <1>2, <1>8, <2>1 DEF Fault, ThrowOutsideTry, Throw, Crash
<1> QED BY <1>7, <1>8

(* Steps that write a code nobody holds, and never an ACTIVATED one.       *)
LEMMA UnheldWrite ==
  ASSUME ClaimInv, TypeOK', NEW c \in Code, NEW s \in CodeStatus,
         SetStatus(c, s), UNCHANGED <<callVars, minted>>,
         ~Held(c), status[c] # "ACTIVATED"
  PROVE  ClaimInv'
  BY DEF ClaimInv, HoldsClaim, Alone, PaidIsPast, DoneIsActivated, Held,
     OneMintPerCode, Running, SetStatus, callVars, TypeOK

(* The daily task, the admin handlers and the sweep.                       *)
LEMMA OtherStepKeepsClaimInv ==
  ASSUME Calm, ClaimInv, TypeOK', [Next]_vars,
         ~ \E r \in Call : Redeem(r) \/ Fault(r)
  PROVE  ClaimInv'
<1> USE DEF codeVars, callVars, subVars
<1>0. ~("slow" \in Hazards) /\ ~("adminRace" \in Hazards) BY DEF Calm
<1>1. CASE UNCHANGED <<status, stale, callVars, minted>>
  BY <1>1 DEF ClaimInv, HoldsClaim, Alone, PaidIsPast, DoneIsActivated,
     OneMintPerCode
<1>2. ASSUME NEW c \in Code, ClaimAges(c) PROVE ClaimInv'
  BY <1>0, <1>2 DEF ClaimAges, ClaimInv, HoldsClaim, Alone, PaidIsPast, Held,
     DoneIsActivated, OneMintPerCode, Running, TypeOK
<1>3. ASSUME NEW c \in Code, DailyTask(c) \/ BulkRevoke(c) \/ BulkRestore(c)
      PROVE ClaimInv'
  <2>1. PICK s \in CodeStatus : SetStatus(c, s)
    BY <1>3 DEF DailyTask, RecoverStale, ExpireUnused, BulkRevoke, BulkRestore,
       CodeStatus
  <2>2. status[c] # "ACTIVATED" /\ UNCHANGED <<callVars, minted>>
    BY <1>3 DEF DailyTask, RecoverStale, ExpireUnused, BulkRevoke, BulkRestore
  <2>3. ~Held(c)
    BY <1>0, <1>3, <2>2, ClaimFacts
       DEF DailyTask, RecoverStale, ExpireUnused, BulkRevoke, BulkRestore, Held,
           ClaimInv, DoneIsActivated, Running
  <2> QED BY <2>1, <2>2, <2>3, UnheldWrite
<1>4. ASSUME NEW e \in pending, AdminSave(e) PROVE ClaimInv'
  <2>1. e \in Edits BY DEF ClaimInv, TypeOK
  <2>2. e.code \in Code /\ e.write \in CodeStatus /\ e.read # "ACTIVATED"
    BY <2>1 DEF Edits, CodeStatus
  <2>3. SetStatus(e.code, e.write) /\ ~Held(e.code) /\ status[e.code] = e.read
        /\ UNCHANGED <<callVars, minted>>
    BY <1>0, <1>4 DEF AdminSave
  <2> QED BY <2>2, <2>3, UnheldWrite
<1>5. CASE \E c \in Code, w \in {"REVOKED", "UNUSED", "DELETED"} : AdminRead(c, w)
  BY <1>1, <1>5 DEF AdminRead
<1>6. CASE \E x \in Call : MarkExpired(x) BY <1>1, <1>6 DEF MarkExpired
<1>7. CASE Tick BY <1>1, <1>7 DEF Tick
<1>8. CASE UNCHANGED vars BY <1>1, <1>8 DEF vars
<1> QED BY <1>2, <1>3, <1>4, <1>5, <1>6, <1>7, <1>8 DEF Next, Admin

THEOREM ClaimInvariant == Calm => (Spec => []ClaimInv)
<1> SUFFICES ASSUME Calm PROVE Spec => []ClaimInv OBVIOUS
<1>1. Init /\ TypeOK => ClaimInv
  BY DEF Init, ClaimInv, HoldsClaim, Alone, PaidIsPast, DoneIsActivated,
     OneMintPerCode, Paid, Writing
<1>2. ClaimInv /\ TypeOK' /\ [Next]_vars => ClaimInv'
  BY CallStepKeepsClaimInv, OtherStepKeepsClaimInv
<1> QED BY <1>1, <1>2, TypeCorrect, PTL DEF Spec

(* One code pays for one subscription write.                               *)
THEOREM OneMint == Calm => (Spec => []OneMintPerCode)
<1>1. ClaimInv => OneMintPerCode BY DEF ClaimInv
<1> QED BY <1>1, ClaimInvariant, PTL

(* A code that is, or can be, back in the pool has paid for nothing.       *)
THEOREM OpenIsUnpaid == Calm => (Spec => []OpenMeansUnpaid)
<1>1. ClaimInv => OpenMeansUnpaid
  BY ClaimFacts DEF OpenMeansUnpaid, PaidFrom, ClaimInv, TypeOK
<1> QED BY <1>1, ClaimInvariant, PTL

(* An ACTIVATED code is never anything else.                               *)
THEOREM ActivatedStays == Calm => (Spec => ActivatedIsFinal)
<1> DEFINE Stays == \A c \in Code :
             status[c] = "ACTIVATED" => status'[c] = "ACTIVATED"
<1> SUFFICES ASSUME Calm PROVE Spec => ActivatedIsFinal OBVIOUS
<1>1. ClaimInv /\ ClaimInv' /\ [Next]_vars => Stays
  <2> SUFFICES ASSUME ClaimInv, [Next]_vars, NEW c \in Code,
                      status[c] = "ACTIVATED"
               PROVE  status'[c] = "ACTIVATED"
    OBVIOUS
  <2> USE DEF SetStatus, codeVars, callVars, subVars
  <2>0. ~("lateThrow" \in Hazards) /\ ~("adminRace" \in Hazards) BY DEF Calm
  <2>1. \A r \in Call : codeOf[r] = c => pc[r] \notin Writing
    BY ClaimFacts
  <2>2. ASSUME NEW r \in Call, Redeem(r) PROVE status'[c] = "ACTIVATED"
    BY <2>1, <2>2 DEF ClaimInv, TypeOK, Redeem, Claim, ClaimLost, ExpireClaimed,
       PlanUnavailable, PlanFound, DeviceRefused, ReadSubscription,
       ExtendSubscription, CreateSubscription, ActivateCode, Answer,
       CatchRestore, WritesCode, OnlyMoves, Writing
  <2>3. ASSUME NEW r \in Call, Fault(r) PROVE status'[c] = "ACTIVATED"
    BY <2>3 DEF Fault, ThrowOutsideTry, Throw, Crash, OnlyMoves
  <2>4. ASSUME NEW d \in Code, ClaimAges(d) \/ DailyTask(d) \/ Admin(d)
        PROVE status'[c] = "ACTIVATED"
    BY <2>4 DEF ClaimInv, TypeOK, ClaimAges, DailyTask, RecoverStale,
       ExpireUnused, Admin, AdminRead, BulkRevoke, BulkRestore
  <2>5. ASSUME NEW e \in pending, AdminSave(e) PROVE status'[c] = "ACTIVATED"
    <3>1. e \in Edits BY DEF ClaimInv, TypeOK
    <3>2. e.code # c BY <2>0, <2>5, <3>1 DEF AdminSave, Edits
    <3> QED BY <2>5, <3>2 DEF AdminSave, ClaimInv, TypeOK
  <2>6. CASE (\E x \in Call : MarkExpired(x)) \/ Tick
    BY <2>6 DEF MarkExpired, Tick
  <2>7. CASE UNCHANGED vars BY <2>7 DEF vars
  <2> QED BY <2>2, <2>3, <2>4, <2>5, <2>6, <2>7 DEF Next
<1>2. ClaimInv /\ ClaimInv' /\ [Next]_vars => [Stays]_vars BY <1>1
<1> QED BY <1>2, ClaimInvariant, PTL DEF Spec, ActivatedIsFinal

-----------------------------------------------------------------------------
(* Activation implements RedeemOnce.                                       *)

(* A step that writes the status of at most one code and pays nothing is   *)
(* Void, Reopen or a stutter of the promise.                               *)
LEMMA StatusStepRefines ==
  ASSUME TypeOK, UNCHANGED <<minted, codeOf>>, NEW c \in Code,
         \A d \in Code \ {c} : status'[d] = status[d]
  PROVE  [Promise!Next]_<<[d \in Code |-> AbsState(d)],
                          [d \in Code |-> AbsPayees(d)]>>
<1>1. \A d \in Code : PaidFrom(d)' = PaidFrom(d) BY DEF PaidFrom
<1>2. \A d \in Code : AbsPayees(d)' = AbsPayees(d) BY <1>1 DEF AbsPayees
<1>3. \A d \in Code \ {c} : AbsState(d)' = AbsState(d) BY <1>1 DEF AbsState
<1>4. [d \in Code |-> AbsPayees(d)]' = [d \in Code |-> AbsPayees(d)] BY <1>2
<1>5. CASE AbsState(c)' = AbsState(c)
  <2>1. [d \in Code |-> AbsState(d)]' = [d \in Code |-> AbsState(d)]
    BY <1>3, <1>5
  <2> QED BY <1>4, <2>1
<1>6. CASE AbsState(c) = "open" /\ AbsState(c)' = "void"
  <2>1. Promise!Void(c) BY <1>3, <1>4, <1>6 DEF Promise!Void
  <2> QED BY <2>1 DEF Promise!Next
<1>7. CASE AbsState(c) = "void" /\ AbsState(c)' = "open"
  <2>1. Promise!Reopen(c) BY <1>3, <1>4, <1>7 DEF Promise!Reopen
  <2> QED BY <2>1 DEF Promise!Next
<1> QED BY <1>1, <1>5, <1>6, <1>7 DEF AbsState

(* The step that writes the subscription spends the code.                  *)
LEMMA MintStepRefines ==
  ASSUME ClaimInv, NEW r \in Call,
         ExtendSubscription(r) \/ CreateSubscription(r)
  PROVE  Promise!Spend(codeOf[r], Owner[r])
<1> DEFINE c == codeOf[r]
<1>1. c \in Code /\ pc[r] = "read" /\ minted' = minted \cup {r}
      /\ codeOf' = codeOf /\ status' = status
  BY DEF ClaimInv, TypeOK, ExtendSubscription, CreateSubscription, Pays,
         codeVars
<1>2. status[c] = "ACTIVATING" /\ PaidFrom(c) = {}
  <2>1. status[c] = "ACTIVATING"
    BY <1>1 DEF ClaimInv, HoldsClaim, Writing
  <2>2. ASSUME NEW q \in Call, q \in minted, codeOf[q] = c PROVE FALSE
    BY <1>1, <2>1, <2>2
       DEF ClaimInv, PaidIsPast, DoneIsActivated, Alone, Paid, Writing
  <2> QED BY <2>1, <2>2 DEF PaidFrom, ClaimInv, TypeOK
<1>3. PaidFrom(c)' = {r} BY <1>1, <1>2 DEF PaidFrom
<1>4. \A d \in Code \ {c} : PaidFrom(d)' = PaidFrom(d)
  BY <1>1 DEF PaidFrom
<1>5. AbsState(c) = "open" /\ AbsState(c)' = "spent"
  BY <1>2, <1>3 DEF AbsState
<1>6. AbsPayees(c)' = {Owner[r]} BY <1>3 DEF AbsPayees
<1>7. \A d \in Code \ {c} : AbsState(d)' = AbsState(d)
                         /\ AbsPayees(d)' = AbsPayees(d)
  BY <1>1, <1>4 DEF AbsState, AbsPayees
<1> QED BY <1>1, <1>5, <1>6, <1>7 DEF Promise!Spend

(* Every other step writes at most one status and pays nothing.            *)
LEMMA OtherStepShape ==
  ASSUME TypeOK, [Next]_vars, Code # {},
         ~ \E r \in Call : ExtendSubscription(r) \/ CreateSubscription(r)
  PROVE  /\ UNCHANGED <<minted, codeOf>>
         /\ \E c \in Code : \A d \in Code \ {c} : status'[d] = status[d]
<1> USE DEF SetStatus, codeVars, callVars, subVars
<1>1. ASSUME NEW r \in Call, Redeem(r) \/ Fault(r)
      PROVE  /\ UNCHANGED <<minted, codeOf>>
             /\ codeOf[r] \in Code
             /\ \A d \in Code \ {codeOf[r]} : status'[d] = status[d]
  BY <1>1 DEF TypeOK, Redeem, Claim, ClaimLost, ExpireClaimed, PlanUnavailable,
     PlanFound, DeviceRefused, ReadSubscription, ActivateCode, Answer,
     CatchRestore, WritesCode, OnlyMoves, Fault, ThrowOutsideTry, Throw, Crash
<1>2. ASSUME NEW c \in Code, ClaimAges(c) \/ DailyTask(c) \/ Admin(c)
      PROVE  /\ UNCHANGED <<minted, codeOf>>
             /\ \A d \in Code \ {c} : status'[d] = status[d]
  BY <1>2 DEF TypeOK, ClaimAges, DailyTask, RecoverStale, ExpireUnused, Admin,
     AdminRead, BulkRevoke, BulkRestore
<1>3. ASSUME NEW e \in pending, AdminSave(e)
      PROVE  /\ UNCHANGED <<minted, codeOf>>
             /\ e.code \in Code
             /\ \A d \in Code \ {e.code} : status'[d] = status[d]
  BY <1>3 DEF TypeOK, Edits, AdminSave
<1>4. CASE (\E x \in Call : MarkExpired(x)) \/ Tick \/ UNCHANGED vars
  BY <1>4 DEF MarkExpired, Tick, vars
<1> QED BY <1>1, <1>2, <1>3, <1>4 DEF Next

(* Redemption keeps its promise: a code is spent once, for one account,    *)
(* and a spent code stays spent.                                           *)
THEOREM Implements == Calm /\ Code # {} => (Spec => KeepsPromise)
<1> SUFFICES ASSUME Calm, Code # {} PROVE Spec => KeepsPromise OBVIOUS
<1>1. Init => Promise!Init
  BY DEF Init, Promise!Init, AbsState, AbsPayees, PaidFrom
<1>2. ClaimInv /\ [Next]_vars =>
        [Promise!Next]_<<[c \in Code |-> AbsState(c)],
                         [c \in Code |-> AbsPayees(c)]>>
  <2> SUFFICES ASSUME ClaimInv, [Next]_vars
               PROVE  [Promise!Next]_<<[c \in Code |-> AbsState(c)],
                                       [c \in Code |-> AbsPayees(c)]>>
    OBVIOUS
  <2>0. TypeOK BY DEF ClaimInv
  <2>1. CASE \E r \in Call : ExtendSubscription(r) \/ CreateSubscription(r)
    <3>1. PICK r \in Call : Promise!Spend(codeOf[r], Owner[r])
      BY <2>1, MintStepRefines
    <3>2. codeOf[r] \in Code /\ Owner[r] \in User
      BY <2>0, OwnerAssumption DEF TypeOK
    <3> QED BY <3>1, <3>2 DEF Promise!Next
  <2>2. CASE ~ \E r \in Call : ExtendSubscription(r) \/ CreateSubscription(r)
    <3>1. UNCHANGED <<minted, codeOf>> BY <2>0, <2>2, OtherStepShape
    <3>2. PICK c \in Code : \A d \in Code \ {c} : status'[d] = status[d]
      BY <2>0, <2>2, OtherStepShape
    <3> QED BY <2>0, <3>1, <3>2, StatusStepRefines
  <2> QED BY <2>1, <2>2
<1> QED BY <1>1, <1>2, ClaimInvariant, PTL DEF Spec, KeepsPromise, Promise!Spec

-----------------------------------------------------------------------------
(* Subscription rows.  When the redeems of an account do not overlap and   *)
(* no row is marked EXPIRED during one, what a call read stays true until  *)
(* it writes.                                                              *)

RowCalm == Hazards \cap {"overlap", "sweepRace"} = {}

Unwritten == {"late", "claimed", "planned", "read"}

(* One call at a time works for an account.                                *)
Exclusive ==
  \A p, q \in Call : pc[p] \in Running /\ pc[q] \in Running /\ Owner[p] = Owner[q] => p = q

(* What a call read is still so, and an account without an ACTIVE row has  *)
(* paid for no day after the call began.                                   *)
StillSo ==
  \A r \in Call :
    /\ pc[r] = "read" /\ seen[r].row = Nobody => ActiveRows(Owner[r]) = {}
    /\ pc[r] = "read" /\ seen[r].row # Nobody =>
         seen[r].row \in ActiveRows(Owner[r]) /\ row[seen[r].row].until = seen[r].until
    /\ pc[r] \in Unwritten /\ ActiveRows(Owner[r]) = {} => paidUntil[Owner[r]] <= startedAt[r]

(* An ACTIVE row runs to the day its account has paid for, and an account  *)
(* without one has used up what it paid for.                               *)
PaidUp ==
  \A u \in User :
    /\ \A x \in ActiveRows(u) : row[x].until = paidUntil[u]
    /\ ActiveRows(u) = {} => paidUntil[u] <= now

(* A call creates rows of its own account only.                            *)
OwnRows == \A x \in Call : row[x].user \in {Nobody, Owner[x]}

RowInv == OwnRows /\ Exclusive /\ StillSo /\ OneActiveRow /\ PaidUp

LEMMA RowInitially == Init => RowInv
<1> SUFFICES ASSUME Init PROVE RowInv OBVIOUS
<1>1. \A u \in User : ActiveRows(u) = {} BY DEF Init, NoRow, ActiveRows
<1>2. OwnRows /\ Exclusive /\ StillSo
  BY DEF Init, OwnRows, NoRow, Exclusive, StillSo, Running, Writing, Unwritten
<1>3. OneActiveRow BY <1>1 DEF OneActiveRow
<1>4. PaidUp BY <1>1 DEF PaidUp, Init
<1> QED BY <1>2, <1>3, <1>4 DEF RowInv

(* A call that moves on without a claim keeps the account to itself.       *)
LEMMA ExclusiveStep ==
  ASSUME TypeOK, TypeOK', RowCalm, Exclusive, [Next]_vars
  PROVE  Exclusive'
<1>1. CASE \E r \in Call : Claim(r)
  <2>1. PICK r \in Call : Claim(r) BY <1>1
  <2>2. \A q \in Call \ {r} : Owner[q] = Owner[r] => pc[q] \notin Running
    BY <2>1 DEF Claim, RowCalm
  <2>3. \A q \in Call \ {r} : pc'[q] = pc[q] BY <2>1 DEF Claim, Goto, TypeOK
  <2> QED BY <2>2, <2>3 DEF Exclusive
<1>2. CASE ~\E r \in Call : Claim(r)
  <2>1. \A r \in Call : pc'[r] \in Running => pc[r] \in Running
    BY <1>2 DEF Next, vars, callVars, Redeem, ClaimLost, ExpireClaimed, PlanUnavailable, PlanFound,
      DeviceRefused, ReadSubscription, ExtendSubscription, CreateSubscription, ActivateCode,
      Answer, CatchRestore, Fault, ThrowOutsideTry, Throw, Crash, ClaimAges, DailyTask, RecoverStale,
      ExpireUnused, Admin, AdminRead, BulkRevoke, BulkRestore, MarkExpired, AdminSave, Tick,
      OnlyMoves, WritesCode, Goto, TypeOK, Running, Writing
  <2> QED BY <2>1 DEF Exclusive
<1> QED BY <1>1, <1>2

(* Steps that write no row.                                                *)
LEMMA SameRows ==
  ASSUME UNCHANGED row
  PROVE  \A u : ActiveRows(u)' = ActiveRows(u)
  BY DEF ActiveRows

LEMMA QuietStep ==
  ASSUME TypeOK, TypeOK', RowInv, UNCHANGED <<row, paidUntil, seen, startedAt>>,
         now <= now', \A r \in Call : pc'[r] \in Unwritten => pc[r] \in Unwritten,
         \A r \in Call : pc'[r] = "read" => pc[r] = "read"
  PROVE  StillSo' /\ OneActiveRow' /\ PaidUp'
<1>1. \A u : ActiveRows(u)' = ActiveRows(u) BY SameRows
<1>2. StillSo' BY <1>1 DEF RowInv, StillSo
<1>3. OneActiveRow' BY <1>1 DEF RowInv, OneActiveRow
<1>4. PaidUp'
  <2> SUFFICES ASSUME NEW u \in User, ActiveRows(u) = {} PROVE paidUntil[u] <= now'
    BY <1>1 DEF RowInv, PaidUp
  <2>1. paidUntil[u] <= now BY DEF RowInv, PaidUp
  <2>2. paidUntil[u] \in Nat /\ now \in Nat /\ now' \in Nat BY DEF TypeOK
  <2> QED BY <2>1, <2>2
<1> QED BY <1>2, <1>3, <1>4

LEMMA ClaimRows ==
  ASSUME TypeOK, TypeOK', RowInv, NEW r \in Call, Claim(r)
  PROVE  StillSo' /\ OneActiveRow' /\ PaidUp'
<1>1. /\ UNCHANGED <<row, paidUntil, seen, now>> /\ startedAt'[r] = now /\ pc'[r] \in {"late", "claimed"}
      /\ \A q \in Call \ {r} : startedAt'[q] = startedAt[q] /\ pc'[q] = pc[q]
  BY DEF Claim, Goto, TypeOK, subVars
<1>2. \A u : ActiveRows(u)' = ActiveRows(u) BY <1>1, SameRows
<1>3. Owner[r] \in User BY OwnerAssumption
<1>4. StillSo'
  <2>1. ASSUME NEW q \in Call
        PROVE  /\ pc'[q] = "read" /\ seen'[q].row = Nobody => ActiveRows(Owner[q])' = {}
               /\ pc'[q] = "read" /\ seen'[q].row # Nobody =>
                    /\ seen'[q].row \in ActiveRows(Owner[q])'
                    /\ row'[seen'[q].row].until = seen'[q].until
               /\ pc'[q] \in Unwritten /\ ActiveRows(Owner[q])' = {} =>
                    paidUntil'[Owner[q]] <= startedAt'[q]
    <3>1. CASE q = r BY <1>1, <1>2, <1>3, <3>1 DEF RowInv, PaidUp
    <3>2. CASE q # r BY <1>1, <1>2, <3>2 DEF RowInv, StillSo
    <3> QED BY <3>1, <3>2
  <2> QED BY <2>1 DEF StillSo
<1>5. OneActiveRow' /\ PaidUp' BY <1>1, <1>2 DEF RowInv, OneActiveRow, PaidUp
<1> QED BY <1>4, <1>5

LEMMA ReadRows ==
  ASSUME TypeOK, TypeOK', RowInv, NEW r \in Call, ReadSubscription(r)
  PROVE  StillSo' /\ OneActiveRow' /\ PaidUp'
<1>1. /\ UNCHANGED <<row, paidUntil, startedAt, now>> /\ pc[r] = "planned" /\ pc'[r] = "read"
      /\ \A q \in Call \ {r} : seen'[q] = seen[q] /\ pc'[q] = pc[q]
      /\ \/ ActiveRows(Owner[r]) = {} /\ seen'[r].row = Nobody
         \/ \E x \in ActiveRows(Owner[r]) : seen'[r].row = x /\ seen'[r].until = row[x].until
  BY DEF ReadSubscription, Goto, TypeOK, subVars
<1>2. \A u : ActiveRows(u)' = ActiveRows(u) BY <1>1, SameRows
<1>3. \A u : \A x \in ActiveRows(u) : x # Nobody BY NobodyAssumption DEF ActiveRows
<1>4. StillSo'
  <2>1. ASSUME NEW q \in Call
        PROVE  /\ pc'[q] = "read" /\ seen'[q].row = Nobody => ActiveRows(Owner[q])' = {}
               /\ pc'[q] = "read" /\ seen'[q].row # Nobody =>
                    /\ seen'[q].row \in ActiveRows(Owner[q])'
                    /\ row'[seen'[q].row].until = seen'[q].until
               /\ pc'[q] \in Unwritten /\ ActiveRows(Owner[q])' = {} =>
                    paidUntil'[Owner[q]] <= startedAt'[q]
    <3>1. CASE q = r BY <1>1, <1>2, <1>3, <3>1 DEF RowInv, StillSo, Unwritten
    <3>2. CASE q # r BY <1>1, <1>2, <3>2 DEF RowInv, StillSo
    <3> QED BY <3>1, <3>2
  <2> QED BY <2>1 DEF StillSo
<1>5. OneActiveRow' /\ PaidUp' BY <1>1, <1>2 DEF RowInv, OneActiveRow, PaidUp
<1> QED BY <1>4, <1>5

(* A write of a row: of the account's other calls none is at work.         *)
LEMMA OthersRows ==
  ASSUME TypeOK, RowInv, NEW r \in Call, pc[r] = "read", pc'[r] = "minted",
         \A q \in Call \ {r} : pc'[q] = pc[q], UNCHANGED <<seen, startedAt>>,
         \A u \in User \ {Owner[r]} :
           /\ ActiveRows(u)' = ActiveRows(u) /\ paidUntil'[u] = paidUntil[u]
           /\ \A x \in ActiveRows(u) : row'[x] = row[x]
  PROVE  StillSo'
<1>1. ASSUME NEW q \in Call, q # r, pc[q] \in Running PROVE Owner[q] \in User \ {Owner[r]}
  BY <1>1, OwnerAssumption DEF RowInv, Exclusive, Running, Writing
<1>2. Unwritten \subseteq Running /\ "read" \in Running BY DEF Unwritten, Running, Writing
<1>3. ASSUME NEW q \in Call
      PROVE  /\ pc'[q] = "read" /\ seen'[q].row = Nobody => ActiveRows(Owner[q])' = {}
             /\ pc'[q] = "read" /\ seen'[q].row # Nobody =>
                  /\ seen'[q].row \in ActiveRows(Owner[q])'
                  /\ row'[seen'[q].row].until = seen'[q].until
             /\ pc'[q] \in Unwritten /\ ActiveRows(Owner[q])' = {} =>
                  paidUntil'[Owner[q]] <= startedAt'[q]
  <2>1. CASE q = r BY <2>1 DEF Unwritten
  <2>2. CASE q # r /\ pc[q] \in Unwritten
    BY <1>1, <1>2, <2>2 DEF RowInv, StillSo
  <2>3. CASE q # r /\ pc[q] \notin Unwritten BY <2>3 DEF Unwritten
  <2> QED BY <2>1, <2>2, <2>3
<1> QED BY <1>3 DEF StillSo

LEMMA ExtendRows ==
  ASSUME TypeOK, TypeOK', RowInv, NEW r \in Call, ExtendSubscription(r)
  PROVE  StillSo' /\ OneActiveRow' /\ PaidUp'
<1> DEFINE x == seen[r].row
           u == Owner[r]
           day == Later(seen[r].until, startedAt[r]) + Days[codeOf[r]]
<1>1. /\ pc[r] = "read" /\ pc'[r] = "minted" /\ x # Nobody /\ u \in User
      /\ \A q \in Call \ {r} : pc'[q] = pc[q]
      /\ UNCHANGED <<seen, startedAt, now>>
      /\ row' = [row EXCEPT ![x] = RowWith(x, row[x].status, day)]
      /\ paidUntil' = [paidUntil EXCEPT ![u] = Later(paidUntil[u], startedAt[r]) + Days[codeOf[r]]]
  BY OwnerAssumption DEF ExtendSubscription, Pays, Goto, TypeOK
<1>2. x \in ActiveRows(u) /\ row[x].until = seen[r].until BY <1>1 DEF RowInv, StillSo
<1>3. x \in Call /\ row[x].user = u /\ row[x].status = "ACTIVE" BY <1>2 DEF ActiveRows
<1>4. row[x].until = paidUntil[u] BY <1>1, <1>2 DEF RowInv, PaidUp
<1>5. /\ row'[x].user = u /\ row'[x].status = "ACTIVE" /\ row'[x].until = paidUntil'[u]
      /\ \A y \in Call \ {x} : row'[y] = row[y]
  BY <1>1, <1>2, <1>3, <1>4 DEF RowWith, TypeOK
<1>6. \A v \in User : ActiveRows(v)' = ActiveRows(v) BY <1>3, <1>5 DEF ActiveRows
<1>7. \A v \in User \ {u} : /\ paidUntil'[v] = paidUntil[v]
                            /\ \A y \in ActiveRows(v) : row'[y] = row[y]
  BY <1>1, <1>3, <1>5 DEF ActiveRows, TypeOK
<1> HIDE DEF x, u, day
<1>8. StillSo' BY <1>1, <1>6, <1>7, OthersRows DEF u
<1>9. OneActiveRow' BY <1>6 DEF RowInv, OneActiveRow
<1>10. \A y \in ActiveRows(u) : y = x BY <1>1, <1>2 DEF RowInv, OneActiveRow
<1>11. PaidUp'
  <2>1. ASSUME NEW v \in User
        PROVE  /\ \A y \in ActiveRows(v)' : row'[y].until = paidUntil'[v]
               /\ ActiveRows(v)' = {} => paidUntil'[v] <= now'
    <3>1. CASE v = u BY <1>2, <1>5, <1>6, <1>10, <3>1
    <3>2. CASE v # u BY <1>1, <1>6, <1>7, <3>2 DEF RowInv, PaidUp
    <3> QED BY <3>1, <3>2
  <2> QED BY <2>1 DEF PaidUp
<1> QED BY <1>8, <1>9, <1>11

LEMMA CreateRows ==
  ASSUME TypeOK, TypeOK', RowInv, NEW r \in Call, CreateSubscription(r)
  PROVE  StillSo' /\ OneActiveRow' /\ PaidUp'
<1> DEFINE u == Owner[r]
           d == Days[codeOf[r]]
<1>1. /\ pc[r] = "read" /\ pc'[r] = "minted" /\ seen[r].row = Nobody /\ u \in User
      /\ \A q \in Call \ {r} : pc'[q] = pc[q]
      /\ UNCHANGED <<seen, startedAt, now>>
      /\ row' = [row EXCEPT ![r] = [user |-> u, status |-> "ACTIVE", until |-> startedAt[r] + d]]
      /\ paidUntil' = [paidUntil EXCEPT ![u] = Later(paidUntil[u], startedAt[r]) + d]
  BY OwnerAssumption DEF CreateSubscription, Pays, Goto, TypeOK
<1>2. ActiveRows(u) = {} BY <1>1 DEF RowInv, StillSo
<1>3. paidUntil[u] <= startedAt[r] BY <1>1, <1>2 DEF RowInv, StillSo, Unwritten
<1>4. paidUntil[u] \in Nat /\ startedAt[r] \in Nat BY <1>1 DEF TypeOK
<1>5. Later(paidUntil[u], startedAt[r]) = startedAt[r] BY <1>3, <1>4 DEF Later
<1>6. paidUntil'[u] = startedAt[r] + d BY <1>1, <1>5 DEF TypeOK
<1>7. /\ row'[r].user = u /\ row'[r].status = "ACTIVE" /\ row'[r].until = paidUntil'[u]
      /\ \A y \in Call \ {r} : row'[y] = row[y]
  BY <1>1, <1>6 DEF TypeOK
<1>8. ActiveRows(u)' = {r} BY <1>2, <1>7 DEF ActiveRows
<1>9. \A v \in User \ {u} : r \notin ActiveRows(v)
  BY NobodyAssumption DEF RowInv, OwnRows, ActiveRows
<1>10. \A v \in User \ {u} : ActiveRows(v)' = ActiveRows(v)
  BY <1>7, <1>9 DEF ActiveRows
<1>11. \A v \in User \ {u} : /\ paidUntil'[v] = paidUntil[v]
                             /\ \A y \in ActiveRows(v) : row'[y] = row[y]
  BY <1>1, <1>7, <1>9 DEF ActiveRows, TypeOK
<1> HIDE DEF u, d
<1>12. StillSo' BY <1>1, <1>10, <1>11, OthersRows DEF u
<1>13. OneActiveRow' BY <1>8, <1>10 DEF RowInv, OneActiveRow
<1>14. PaidUp'
  <2>1. ASSUME NEW v \in User
        PROVE  /\ \A y \in ActiveRows(v)' : row'[y].until = paidUntil'[v]
               /\ ActiveRows(v)' = {} => paidUntil'[v] <= now'
    <3>1. CASE v = u BY <1>7, <1>8, <3>1
    <3>2. CASE v # u BY <1>1, <1>10, <1>11, <3>2 DEF RowInv, PaidUp
    <3> QED BY <3>1, <3>2
  <2> QED BY <2>1 DEF PaidUp
<1> QED BY <1>12, <1>13, <1>14

(* A row is marked when its day is over and its account is not redeeming.  *)
LEMMA MarkRows ==
  ASSUME TypeOK, TypeOK', RowInv, RowCalm, NEW x \in Call, MarkExpired(x)
  PROVE  StillSo' /\ OneActiveRow' /\ PaidUp'
<1>0. PICK u : u = row[x].user OBVIOUS
<1>1. /\ row[x].status = "ACTIVE" /\ row[x].until <= now
      /\ \A r \in Call : Owner[r] = u => pc[r] \notin Running
      /\ UNCHANGED <<pc, seen, startedAt, paidUntil, now>>
      /\ row'[x].user = u /\ row'[x].status = "EXPIRED"
      /\ \A y \in Call \ {x} : row'[y] = row[y]
  BY <1>0 DEF MarkExpired, RowCalm, RowWith, TypeOK, callVars
<1>2. \A v \in User : v # u => ActiveRows(v)' = ActiveRows(v) /\ x \notin ActiveRows(v)
  BY <1>0, <1>1 DEF ActiveRows
<1>3. u \in User => ActiveRows(u) = {x} /\ ActiveRows(u)' = {}
  <2> SUFFICES ASSUME u \in User PROVE ActiveRows(u) = {x} /\ ActiveRows(u)' = {} OBVIOUS
  <2>1. x \in ActiveRows(u) BY <1>0, <1>1 DEF ActiveRows
  <2>2. \A y \in ActiveRows(u) : y = x BY <2>1 DEF RowInv, OneActiveRow
  <2>3. \A y \in Call : y \notin ActiveRows(u)' BY <1>1, <2>2 DEF ActiveRows
  <2> QED BY <2>1, <2>2, <2>3 DEF ActiveRows
<1>4. \A v \in User : \A y \in ActiveRows(v) \ {x} : row'[y] = row[y] BY <1>1 DEF ActiveRows
<1>5. StillSo'
  <2>1. ASSUME NEW q \in Call, pc[q] \in Running
        PROVE  ActiveRows(Owner[q])' = ActiveRows(Owner[q]) /\ x \notin ActiveRows(Owner[q])
    BY <1>1, <1>2, <2>1, OwnerAssumption
  <2>2. Unwritten \subseteq Running /\ "read" \in Running BY DEF Unwritten, Running, Writing
  <2>3. ASSUME NEW q \in Call
        PROVE  /\ pc'[q] = "read" /\ seen'[q].row = Nobody => ActiveRows(Owner[q])' = {}
               /\ pc'[q] = "read" /\ seen'[q].row # Nobody =>
                    /\ seen'[q].row \in ActiveRows(Owner[q])'
                    /\ row'[seen'[q].row].until = seen'[q].until
               /\ pc'[q] \in Unwritten /\ ActiveRows(Owner[q])' = {} =>
                    paidUntil'[Owner[q]] <= startedAt'[q]
    <3>1. CASE pc[q] \in Unwritten
      <4>1. Owner[q] \in User BY OwnerAssumption
      <4>2. ActiveRows(Owner[q])' = ActiveRows(Owner[q]) /\ x \notin ActiveRows(Owner[q])
        BY <2>1, <2>2, <3>1
      <4> QED BY <1>1, <1>4, <3>1, <4>1, <4>2 DEF RowInv, StillSo
    <3>2. CASE pc[q] \notin Unwritten BY <1>1, <3>2 DEF Unwritten
    <3> QED BY <3>1, <3>2
  <2> QED BY <2>3 DEF StillSo
<1>6. OneActiveRow'
  <2>1. ASSUME NEW v \in User, NEW y \in ActiveRows(v)', NEW z \in ActiveRows(v)' PROVE y = z
    <3>1. CASE v = u BY <1>3, <2>1, <3>1
    <3>2. CASE v # u BY <1>2, <2>1, <3>2 DEF RowInv, OneActiveRow
    <3> QED BY <3>1, <3>2
  <2> QED BY <2>1 DEF OneActiveRow
<1>7. PaidUp'
  <2>1. ASSUME NEW v \in User
        PROVE  /\ \A y \in ActiveRows(v)' : row'[y].until = paidUntil'[v]
               /\ ActiveRows(v)' = {} => paidUntil'[v] <= now'
    <3>1. CASE v = u
      <4>1. ActiveRows(v) = {x} /\ ActiveRows(v)' = {} BY <1>3, <3>1
      <4>2. row[x].until = paidUntil[v] BY <4>1 DEF RowInv, PaidUp
      <4>3. paidUntil'[v] <= now' BY <1>1, <4>2
      <4> QED BY <4>1, <4>3
    <3>2. CASE v # u BY <1>1, <1>2, <1>4, <3>2 DEF RowInv, PaidUp
    <3> QED BY <3>1, <3>2
  <2> QED BY <2>1 DEF PaidUp
<1> QED BY <1>5, <1>6, <1>7

LEMMA OwnRowsStep ==
  ASSUME TypeOK, RowInv, [Next]_vars
  PROVE  OwnRows'
<1> USE DEF RowInv, OwnRows
<1>1. CASE UNCHANGED row BY <1>1
<1>2. ASSUME NEW r \in Call, ExtendSubscription(r) PROVE OwnRows'
  BY <1>2 DEF ExtendSubscription, RowWith, TypeOK
<1>3. ASSUME NEW r \in Call, CreateSubscription(r) PROVE OwnRows'
  BY <1>3 DEF CreateSubscription, TypeOK
<1>4. ASSUME NEW x \in Call, MarkExpired(x) PROVE OwnRows'
  BY <1>4 DEF MarkExpired, RowWith, TypeOK
<1>5. \/ UNCHANGED row
      \/ \E r \in Call : ExtendSubscription(r) \/ CreateSubscription(r) \/ MarkExpired(r)
  BY DEF Next, vars, subVars, Redeem, Claim, ClaimLost, ExpireClaimed, PlanUnavailable, PlanFound,
    DeviceRefused, ReadSubscription, ActivateCode, Answer, CatchRestore, Fault, ThrowOutsideTry,
    Throw, Crash, ClaimAges, DailyTask, RecoverStale, ExpireUnused, Admin, AdminRead, BulkRevoke,
    BulkRestore, AdminSave, Tick, OnlyMoves, WritesCode
<1> QED BY <1>1, <1>2, <1>3, <1>4, <1>5

LEMMA RowStep ==
  RowCalm => (RowInv /\ TypeOK /\ TypeOK' /\ [Next]_vars => RowInv')
<1> SUFFICES ASSUME RowCalm, RowInv, TypeOK, TypeOK', [Next]_vars PROVE RowInv' OBVIOUS
<1>1. Exclusive' /\ OwnRows' BY ExclusiveStep, OwnRowsStep DEF RowInv
<1>2. StillSo' /\ OneActiveRow' /\ PaidUp'
  <2>1. ASSUME NEW r \in Call,
               Claim(r) \/ ReadSubscription(r) \/ ExtendSubscription(r) \/ CreateSubscription(r)
        PROVE  StillSo' /\ OneActiveRow' /\ PaidUp'
    BY <2>1, ClaimRows, ReadRows, ExtendRows, CreateRows
  <2>2. ASSUME NEW x \in Call, MarkExpired(x)
        PROVE  StillSo' /\ OneActiveRow' /\ PaidUp'
    BY <2>2, MarkRows
  <2>3. CASE ~\E r \in Call : \/ Claim(r) \/ ReadSubscription(r) \/ ExtendSubscription(r)
                              \/ CreateSubscription(r) \/ MarkExpired(r)
    <3>1. UNCHANGED <<row, paidUntil, seen, startedAt>>
      BY <2>3 DEF Next, vars, subVars, callVars, Redeem, ClaimLost, ExpireClaimed, PlanUnavailable,
        PlanFound, DeviceRefused, ActivateCode, Answer, CatchRestore, Fault, ThrowOutsideTry,
        Throw, Crash, ClaimAges, DailyTask, RecoverStale, ExpireUnused, Admin, AdminRead,
        BulkRevoke, BulkRestore, AdminSave, Tick, OnlyMoves, WritesCode
    <3>2. now' \in {now, now + 1}
      BY <2>3 DEF Next, vars, Redeem, ClaimLost, ExpireClaimed, PlanUnavailable,
        PlanFound, DeviceRefused, ActivateCode, Answer, CatchRestore, Fault, ThrowOutsideTry,
        Throw, Crash, ClaimAges, DailyTask, RecoverStale, ExpireUnused, Admin, AdminRead,
        BulkRevoke, BulkRestore, AdminSave, Tick, OnlyMoves, WritesCode
    <3>3. \A r \in Call : /\ pc'[r] \in Unwritten => pc[r] \in Unwritten
                          /\ pc'[r] = "read" => pc[r] = "read"
      BY <2>3 DEF Next, vars, subVars, callVars, Redeem, ClaimLost, ExpireClaimed, PlanUnavailable,
        PlanFound, DeviceRefused, ActivateCode, Answer, CatchRestore, Fault, ThrowOutsideTry,
        Throw, Crash, ClaimAges, DailyTask, RecoverStale, ExpireUnused, Admin, AdminRead,
        BulkRevoke, BulkRestore, AdminSave, Tick, OnlyMoves, WritesCode, Goto, TypeOK, Unwritten
    <3>4. now <= now' BY <3>2 DEF TypeOK
    <3> QED BY <3>1, <3>3, <3>4, QuietStep
  <2> QED BY <2>1, <2>2, <2>3
<1> QED BY <1>1, <1>2 DEF RowInv

THEOREM RowInvariant == RowCalm => (Spec => []RowInv)
<1> SUFFICES ASSUME RowCalm PROVE Spec => []RowInv OBVIOUS
<1>1. RowInv /\ TypeOK /\ TypeOK' /\ [Next]_vars => RowInv' BY RowStep
<1> QED BY <1>1, RowInitially, TypeCorrect, PTL DEF Spec

(* An account never has two ACTIVE rows: redeemCode extends the one it has *)
(* found.                                                                  *)
THEOREM OneRow == RowCalm => (Spec => []OneActiveRow)
<1>1. RowInv => OneActiveRow BY DEF RowInv
<1> QED BY <1>1, RowInvariant, PTL

(* Every day an account has paid for is in its ACTIVE row, neither lost    *)
(* nor counted twice, whatever fails and crashes on the way.               *)
THEOREM PaidDays == RowCalm => (Spec => []PaidDaysKept)
<1>1. RowInv /\ TypeOK => PaidDaysKept
  <2> SUFFICES ASSUME RowInv, TypeOK, NEW u \in User, paidUntil[u] > now
               PROVE  \E x \in ActiveRows(u) : row[x].until = paidUntil[u]
    BY DEF PaidDaysKept
  <2>1. paidUntil[u] \in Nat /\ now \in Nat BY DEF TypeOK
  <2>2. ActiveRows(u) # {} BY <2>1 DEF RowInv, PaidUp
  <2> QED BY <2>2 DEF RowInv, PaidUp
<1> QED BY <1>1, RowInvariant, TypeCorrect, PTL
=============================================================================
