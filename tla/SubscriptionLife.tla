-------------------------- MODULE SubscriptionLife --------------------------
(***************************************************************************)
(* The subscription rows of one customer: what a reseller does to them     *)
(* (renew, change plan, suspend, reactivate in routes/reseller.js), what a *)
(* redemption does (services/subscription-service.ts) and the daily mark   *)
(* of lapsed rows (services/ops-report-service.ts).  Every handler reads a *)
(* row, decides, and writes an absolute expiry; time goes by in days.      *)
(*                                                                         *)
(* The claim of a code is Activation's subject: here a code is redeemed    *)
(* once.  Days are numbers, and a row's life is its paid days.             *)
(***************************************************************************)
EXTENDS Integers, FiniteSets

CONSTANTS
  Plan,       \* plans
  PlanDays,   \* durationDays of each
  Credit,     \* the credit the reseller has of each plan at first
  Coupon,     \* activation codes of the reseller
  FirstPlan,  \* the plan each code was made for
  Handler,    \* requests in flight
  MaxRow,     \* bound of the rows
  MaxDay,     \* bound of the days
  LifeHazards,\* the events of LifeHazard that may happen
  MaxBefell   \* bound of how many of them

LifeHazard == {
  "writeFails", \* a paid write fails without writing the row; it is refunded
  "halfWrite",  \* a paid write fails, is refunded, and writes the row all the same
  "overlap"}    \* a row is written whose expiry has changed since it was read

ASSUME PlanAssumption == PlanDays \in [Plan -> Nat] /\ Credit \in [Plan -> Nat]
ASSUME CouponAssumption == FirstPlan \in [Coupon -> Plan] /\ Coupon # {}
ASSUME BoundAssumption == MaxRow \in Nat /\ MaxDay \in Nat /\ MaxBefell \in Nat
ASSUME LifeHazardsAssumption == LifeHazards \subseteq LifeHazard

VARIABLES
  today,
  credit,    \* the reseller's credit of each plan
  planOf,    \* ActivationCode.planId
  redeemed,  \* the codes that have been redeemed
  rows,      \* how many Subscription rows there are; the last is the youngest
  state,     \* Subscription.status of each
  until,     \* Subscription.expiresAt
  boundTo,   \* Subscription.activationCodeId
  job,       \* what each request does: kind, where, code, plan, row, and the
             \* expiry that it read
  owed,      \* history: the day to which the last payment of each row runs
  paid,      \* history: the days paid for each row
  gift,      \* history: the days written to each row and refunded
  served,    \* history: the days each row gave access
  befell     \* history: the events of LifeHazard that have happened

row == <<rows, state, until, boundTo, owed, paid, gift>>
lifeVars == <<today, credit, planOf, redeemed, row, job, served, befell>>

Row == 1 .. MaxRow
Rows == 1 .. rows
Paying == {"renew", "change"}
Kind == Paying \cup {"suspend", "reactivate", "redeem"}
Idle == [kind |-> "renew", at |-> "idle", code |-> CHOOSE c \in Coupon : TRUE,
         plan |-> CHOOSE p \in Plan : TRUE, row |-> 0, until |-> 0]
Work == [kind : Kind, at : {"idle", "charging", "writing", "astray"},
         code : Coupon, plan : Plan, row : 0 .. MaxRow, until : Nat]

LifeTypeOK ==
  /\ today \in 0 .. MaxDay
  /\ credit \in [Plan -> Nat] /\ planOf \in [Coupon -> Plan]
  /\ redeemed \subseteq Coupon /\ rows \in 0 .. MaxRow
  /\ state \in [Row -> {"ACTIVE", "EXPIRED", "SUSPENDED"}]
  /\ until \in [Row -> Nat] /\ boundTo \in [Row -> Coupon]
  /\ job \in [Handler -> Work]
  /\ owed \in [Row -> Nat] /\ paid \in [Row -> Nat] /\ gift \in [Row -> Nat]
  /\ served \in [Row -> Nat]
  /\ befell \subseteq LifeHazard

LifeInit ==
  /\ today = 0 /\ credit = Credit /\ planOf = FirstPlan /\ redeemed = {}
  /\ rows = 0
  /\ state = [r \in Row |-> "EXPIRED"] /\ until = [r \in Row |-> 0]
  /\ boundTo = [r \in Row |-> Idle.code]
  /\ job = [h \in Handler |-> Idle]
  /\ owed = [r \in Row |-> 0] /\ paid = [r \in Row |-> 0]
  /\ gift = [r \in Row |-> 0] /\ served = [r \in Row |-> 0]
  /\ befell = {}

-----------------------------------------------------------------------------
(* Helpers.                                                                *)

Finish(h) == job' = [job EXCEPT ![h] = Idle]

(* codeWithSubscription: the youngest row that names the code.             *)
RowOf(c) == {r \in Rows : boundTo[r] = c /\ \A s \in Rows : boundTo[s] = c => s <= r}

(* Mutants: from today, whatever is left; or from the expiry, however old. *)
ExtendedFromToday(old, days) == today + days
ExtendedTwice(old, days) == today + old + days

(* The days follow the expiry that was read, or today if that is past.     *)
Extended(old, days) == (IF old > today THEN old ELSE today) + days

(* Bounds: one extension that stands is refunded, and MaxBefell.           *)
Befalls(kinds) ==
  /\ kinds \subseteq LifeHazards
  /\ {"halfWrite"} \cap kinds \cap befell = {}
  /\ befell' = befell \cup kinds
  /\ Cardinality(befell') <= MaxBefell

-----------------------------------------------------------------------------
(* The reseller's requests.                                                *)

(* The row r in which the request k is allowed.                            *)
Allowed(k, r) ==
  /\ k = "suspend" => state[r] = "ACTIVE"
  /\ k = "reactivate" => state[r] = "SUSPENDED" /\ until[r] > today

(* The request reads the code and its row, and is refused unless allowed.  *)
ReadRow(h, k, c) ==
  /\ job[h].at = "idle" /\ k # "redeem"
  /\ \E r \in RowOf(c), p \in Plan :
       /\ Allowed(k, r)
       /\ IF k = "change" THEN p # planOf[c] ELSE p = planOf[c]
       /\ job' = [job EXCEPT ![h] =
            [kind |-> k, at |-> IF k \in Paying THEN "charging" ELSE "writing",
             code |-> c, plan |-> p, row |-> r, until |-> until[r]]]
  /\ UNCHANGED <<today, credit, planOf, redeemed, row, served, befell>>

(* consumeCredit.                                                          *)
Charge(h) ==
  /\ job[h].at = "charging"
  /\ IF credit[job[h].plan] > 0
     THEN /\ credit' = [credit EXCEPT ![job[h].plan] = @ - 1]
          /\ job' = [job EXCEPT ![h].at = "writing"]
     ELSE Finish(h) /\ UNCHANGED credit
  /\ UNCHANGED <<today, planOf, redeemed, row, served, befell>>

Days(h) == PlanDays[job[h].plan]

WriteExpiry(h) == until' = [until EXCEPT ![job[h].row] = Extended(job[h].until, Days(h))]

Pay(h) == paid' = [paid EXCEPT ![job[h].row] = @ + Days(h)]

(* A payment buys a period that follows what was bought before; a change   *)
(* of plan buys one from today, "the remaining days of the old plan are    *)
(* forfeited".                                                             *)
Owe(h) ==
  LET before == IF job[h].kind # "change" /\ owed[job[h].row] > today
                THEN owed[job[h].row] ELSE today
  IN  owed' = [owed EXCEPT ![job[h].row] = before + Days(h)]

Give(h) == gift' = [gift EXCEPT ![job[h].row] = @ + Days(h)]

Overlaps(h) == IF until[job[h].row] # job[h].until THEN {"overlap"} ELSE {}

Refund(h) == credit' = [credit EXCEPT ![job[h].plan] = @ + 1]

ChangePlan(h) ==
  planOf' = [planOf EXCEPT ![job[h].code] = IF job[h].kind = "change" THEN job[h].plan ELSE @]

(* The row is written with the expiry computed from the one that was read; *)
(* a change of plan writes the code at the same time.                      *)
Extend(h) ==
  /\ job[h].at = "writing" /\ job[h].kind \in Paying
  /\ Befalls(Overlaps(h))
  /\ WriteExpiry(h) /\ Pay(h) /\ Owe(h) /\ ChangePlan(h) /\ Finish(h)
  /\ state' = [state EXCEPT ![job[h].row] = "ACTIVE"]
  /\ UNCHANGED <<today, credit, redeemed, rows, boundTo, gift, served>>

(* A write fails, and the catch block refunds.  The two writes of a change *)
(* of plan are independent, so the other may have been applied, or be      *)
(* still on its way; and so may one whose answer was lost.                 *)
ExtendFails(h) ==
  /\ job[h].at = "writing" /\ job[h].kind \in Paying
  /\ Refund(h)
  /\ UNCHANGED planOf \/ ChangePlan(h)
  /\ \/ Befalls({"writeFails"}) /\ Finish(h)
     \/ Befalls({"halfWrite"}) /\ job' = [job EXCEPT ![h].at = "astray"]
  /\ UNCHANGED <<today, redeemed, row, served>>

(* The write of the row, whose request has failed, is applied.             *)
ExtendAstray(h) ==
  /\ job[h].at = "astray"
  /\ Befalls(Overlaps(h))
  /\ WriteExpiry(h) /\ Give(h) /\ Finish(h)
  /\ state' = [state EXCEPT ![job[h].row] = "ACTIVE"]
  /\ UNCHANGED <<today, credit, planOf, redeemed, rows, boundTo, owed, paid, served>>

(* suspend and reactivate write the status they decided on.                *)
SetState(h) ==
  /\ job[h].at = "writing"
  /\ \/ job[h].kind = "suspend" /\ state' = [state EXCEPT ![job[h].row] = "SUSPENDED"]
     \/ job[h].kind = "reactivate" /\ state' = [state EXCEPT ![job[h].row] = "ACTIVE"]
  /\ Finish(h)
  /\ UNCHANGED <<today, credit, planOf, redeemed, rows, until, boundTo, owed, paid, gift, served, befell>>

-----------------------------------------------------------------------------
(* redeemCode: find an ACTIVE row, then extend it or create one.           *)

(* The oldest ACTIVE row, or 0 if there is none.                           *)
Found(r) ==
  /\ r # 0 => state[r] = "ACTIVE"
  /\ \A s \in Rows : state[s] = "ACTIVE" => r # 0 /\ r <= s

(* The claimed code is taken when it is read.                              *)
Redeem(h, c) ==
  /\ job[h].at = "idle" /\ c \notin redeemed
  /\ \A g \in Handler : ~(job[g].at # "idle" /\ job[g].kind = "redeem")
  /\ \E r \in 0 .. rows :
       /\ Found(r)
       /\ job' = [job EXCEPT ![h] =
            [kind |-> "redeem", at |-> "writing", code |-> c, plan |-> planOf[c],
             row |-> r, until |-> IF r = 0 THEN today ELSE until[r]]]
  /\ UNCHANGED <<today, credit, planOf, redeemed, row, served, befell>>

(* The row it found gets the new expiry and names the new code.            *)
RedeemExtends(h) ==
  /\ job[h].at = "writing" /\ job[h].kind = "redeem" /\ job[h].row # 0
  /\ Befalls(Overlaps(h))
  /\ WriteExpiry(h) /\ Pay(h) /\ Owe(h) /\ Finish(h)
  /\ boundTo' = [boundTo EXCEPT ![job[h].row] = job[h].code]
  /\ redeemed' = redeemed \cup {job[h].code}
  /\ UNCHANGED <<today, credit, planOf, rows, state, gift, served>>

RedeemCreates(h) ==
  /\ job[h].at = "writing" /\ job[h].kind = "redeem" /\ job[h].row = 0
  /\ rows < MaxRow /\ rows' = rows + 1
  /\ until' = [until EXCEPT ![rows + 1] = today + Days(h)]
  /\ paid' = [paid EXCEPT ![rows + 1] = Days(h)]
  /\ state' = [state EXCEPT ![rows + 1] = "ACTIVE"]
  /\ boundTo' = [boundTo EXCEPT ![rows + 1] = job[h].code]
  /\ owed' = [owed EXCEPT ![rows + 1] = today + Days(h)]
  /\ redeemed' = redeemed \cup {job[h].code}
  /\ Finish(h)
  /\ UNCHANGED <<today, credit, planOf, gift, served, befell>>

-----------------------------------------------------------------------------
(* Time.                                                                   *)

(* markExpiredSubscriptions.                                               *)
MarkExpired ==
  /\ \E r \in Rows : state[r] = "ACTIVE" /\ until[r] <= today
  /\ state' = [r \in Row |->
       IF r \in Rows /\ state[r] = "ACTIVE" /\ until[r] <= today THEN "EXPIRED" ELSE state[r]]
  /\ UNCHANGED <<today, credit, planOf, redeemed, rows, until, boundTo, owed, paid, gift, job, served, befell>>

(* A day passes; an active row that has not lapsed gives access.           *)
DayPasses ==
  /\ today < MaxDay /\ today' = today + 1
  /\ served' = [r \in Row |->
       IF r \in Rows /\ state[r] = "ACTIVE" /\ until[r] > today THEN served[r] + 1 ELSE served[r]]
  /\ UNCHANGED <<credit, planOf, redeemed, row, job, befell>>

LifeNext ==
  \/ \E h \in Handler :
       \/ \E c \in Coupon : Redeem(h, c) \/ \E k \in Kind : ReadRow(h, k, c)
       \/ Charge(h) \/ Extend(h) \/ ExtendFails(h) \/ ExtendAstray(h) \/ SetState(h)
       \/ RedeemExtends(h) \/ RedeemCreates(h)
  \/ MarkExpired \/ DayPasses

LifeSpec == LifeInit /\ [][LifeNext]_lifeVars

-----------------------------------------------------------------------------
(* The inductive invariant.                                                *)

(* The days from today to expiry e.                                        *)
DaysLeft(e) == IF e > today THEN e - today ELSE 0

(* What was paid for a row, or given with it.                              *)
Worth(r) == paid[r] + gift[r]

(* Neither the row nor a request that read it earlier has more to give     *)
(* than its worth that is not used up.                                     *)
WithinWorth ==
  /\ \A r \in Rows : served[r] + DaysLeft(until[r]) <= Worth(r)
  /\ \A h \in Handler : job[h].at # "idle" /\ job[h].row # 0 =>
       served[job[h].row] + DaysLeft(job[h].until) <= Worth(job[h].row)

RowsKnown ==
  /\ \A h \in Handler :
       /\ job[h].row \in 0 .. rows
       /\ job[h].at # "idle" /\ job[h].kind # "redeem" => job[h].row # 0
       /\ job[h].at = "astray" => job[h].kind \in Paying
  /\ \A r \in Row \ Rows : served[r] = 0

LifeInv == LifeTypeOK /\ RowsKnown /\ WithinWorth

-----------------------------------------------------------------------------
(* Properties.                                                             *)

(* No interleaving of renewals, redeemed codes, suspensions and lapses     *)
(* gives a day that was not paid for: what a row has given and what is     *)
(* left of it never exceed the days paid, but for the days of an extension *)
(* that was refunded although its row was written.                         *)
NoFreeDays ==
  \A r \in Rows : served[r] + DaysLeft(until[r]) <= paid[r] + gift[r]

(* Every paid period arrives: as long as no request writes an expiry over  *)
(* one that it did not read, a row lasts to the day its payments run to.   *)
(* The days left before a change of plan are not asked for: the code keeps *)
(* them, and its comment forfeits them.                                    *)
DaysArrive == "overlap" \notin befell => \A r \in Rows : until[r] >= owed[r]
=============================================================================
