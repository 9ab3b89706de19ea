------------------------ MODULE SubscriptionLifeProofs ------------------------
(***************************************************************************)
(* Theorems about SubscriptionLife, for any plans, codes, requests and     *)
(* bounds.                                                                 *)
(***************************************************************************)
EXTENDS SubscriptionLife, TLAPS

USE PlanAssumption, CouponAssumption, BoundAssumption, LifeHazardsAssumption

-----------------------------------------------------------------------------
(* Operators.                                                              *)

(* The new expiry is later than the one that was read by the days of the   *)
(* plan at least, and leaves exactly these days more.                      *)
LEMMA ExtendedLeaves ==
  ASSUME today \in Nat, NEW old \in Nat, NEW days \in Nat
  PROVE  /\ Extended(old, days) \in Nat
         /\ Extended(old, days) >= old + days
         /\ DaysLeft(Extended(old, days)) = DaysLeft(old) + days
  BY DEF Extended, DaysLeft

LEMMA AddType ==
  ASSUME NEW f \in [Row -> Nat], NEW r, NEW days \in Nat
  PROVE  [f EXCEPT ![r] = @ + days] \in [Row -> Nat]
<1>1. CASE r \in Row BY <1>1
<1>2. CASE r \notin Row BY <1>2
<1> QED BY <1>1, <1>2

LEMMA RowsAreRow ==
  ASSUME LifeTypeOK
  PROVE  rows \in Nat /\ Rows \subseteq Row
<1>1. rows \in 0 .. MaxRow BY DEF LifeTypeOK
<1> QED BY <1>1 DEF Rows, Row

LEMMA DaysLeftType ==
  ASSUME today \in Nat, NEW e \in Nat
  PROVE  DaysLeft(e) \in Nat
  BY DEF DaysLeft

(* A request at rest.                                                      *)
LEMMA IdleIsWork == Idle \in Work /\ Idle.at = "idle" /\ Idle.row = 0
<1>1. (CHOOSE c \in Coupon : TRUE) \in Coupon OBVIOUS
<1>2. Plan # {} OBVIOUS
<1>3. (CHOOSE p \in Plan : TRUE) \in Plan BY <1>2
<1> QED BY <1>1, <1>3 DEF Idle, Work, Kind, Paying

LEMMA BefallsType ==
  ASSUME befell \subseteq LifeHazard, NEW kinds, Befalls(kinds)
  PROVE  befell' \subseteq LifeHazard /\ befell \cup kinds = befell'
  BY DEF Befalls

-----------------------------------------------------------------------------
(* The handlers that write an expiry over the one they read: the days they *)
(* add are paid, or given if the request was refunded.                     *)

Adds(h) == (Pay(h) /\ gift' = gift) \/ (Give(h) /\ paid' = paid)

Rewrites(h) ==
  /\ job[h].at \in {"writing", "astray"} /\ job[h].row \in Rows
  /\ WriteExpiry(h) /\ Finish(h) /\ befell' = befell \cup Overlaps(h)
  /\ Adds(h)

Writing(h) == Extend(h) \/ RedeemExtends(h) \/ ExtendAstray(h)

LEMMA ExtendCases ==
  ASSUME LifeTypeOK, RowsKnown, NEW h \in Handler, Writing(h)
  PROVE  /\ Rewrites(h)
         /\ Owe(h) \/ owed' = owed
         /\ UNCHANGED <<today, rows, served>>
         /\ befell' \subseteq LifeHazard
<1>1. job[h].row \in Rows
  <2>1. job[h].row \in 0 .. rows /\ rows \in Nat BY DEF RowsKnown, LifeTypeOK
  <2>2. job[h].row # 0
    BY DEF RowsKnown, Writing, Extend, RedeemExtends, ExtendAstray, Paying
  <2> QED BY <2>1, <2>2 DEF Rows
<1>2. CASE Extend(h)
  BY <1>1, <1>2, BefallsType DEF Extend, Rewrites, Adds, LifeTypeOK
<1>3. CASE RedeemExtends(h)
  BY <1>1, <1>3, BefallsType DEF RedeemExtends, Rewrites, Adds, LifeTypeOK
<1>4. CASE ExtendAstray(h)
  BY <1>1, <1>4, BefallsType DEF ExtendAstray, Rewrites, Adds, LifeTypeOK
<1> QED BY <1>2, <1>3, <1>4 DEF Writing

-----------------------------------------------------------------------------
(* Every variable keeps its type, and a request knows its row.             *)

Known == LifeTypeOK /\ RowsKnown

JobsKnow(jobs, n) ==
  /\ jobs \in [Handler -> Work]
  /\ \A h \in Handler :
       /\ jobs[h].row \in 0 .. n
       /\ jobs[h].at # "idle" /\ jobs[h].kind # "redeem" => jobs[h].row # 0
       /\ jobs[h].at = "astray" => jobs[h].kind \in Paying

LEMMA JobsType ==
  ASSUME Known, [LifeNext]_lifeVars
  PROVE  JobsKnow(job', rows') /\ rows' \in 0 .. MaxRow /\ rows <= rows'
<1> USE DEF Known, LifeTypeOK, RowsKnown, JobsKnow
<1>1. ASSUME NEW h \in Handler, NEW k \in Kind, NEW c \in Coupon, ReadRow(h, k, c)
      PROVE  JobsKnow(job', rows) /\ rows' = rows
  <2>1. PICK r \in RowOf(c), p \in Plan :
          job' = [job EXCEPT ![h] =
            [kind |-> k, at |-> IF k \in Paying THEN "charging" ELSE "writing",
             code |-> c, plan |-> p, row |-> r, until |-> until[r]]]
    BY <1>1 DEF ReadRow
  <2>2. r \in Rows /\ r \in Row /\ r # 0 /\ r \in 0 .. rows /\ r \in 0 .. MaxRow
    BY DEF RowOf, Rows, Row
  <2>3. until[r] \in Nat BY <2>2
  <2>4. job'[h] \in Work BY <2>1, <2>2, <2>3 DEF Work
  <2>5. job' \in [Handler -> Work] BY <2>1, <2>4
  <2> QED BY <1>1, <2>1, <2>2, <2>5 DEF ReadRow, row
<1>2. ASSUME NEW h \in Handler, NEW c \in Coupon, Redeem(h, c)
      PROVE  JobsKnow(job', rows) /\ rows' = rows
  <2>1. PICK r \in 0 .. rows :
          job' = [job EXCEPT ![h] =
            [kind |-> "redeem", at |-> "writing", code |-> c, plan |-> planOf[c],
             row |-> r, until |-> IF r = 0 THEN today ELSE until[r]]]
    BY <1>2 DEF Redeem
  <2>3. r \in 0 .. MaxRow /\ (r # 0 => r \in Row) BY DEF Row
  <2>4. (IF r = 0 THEN today ELSE until[r]) \in Nat BY <2>3
  <2>5. job'[h] \in Work BY <2>1, <2>3, <2>4 DEF Work, Kind
  <2>6. job' \in [Handler -> Work] BY <2>1, <2>5
  <2>7. rows' = rows BY <1>2 DEF Redeem, row
  <2>8. \A g \in Handler : g # h => job'[g] = job[g] BY <2>1
  <2>9. job'[h].row = r /\ job'[h].kind = "redeem" /\ job'[h].at = "writing" BY <2>1
  <2> QED BY <2>6, <2>7, <2>8, <2>9
<1>3. ASSUME NEW h \in Handler, Charge(h) \/ ExtendFails(h), ~Finish(h)
      PROVE  JobsKnow(job', rows) /\ rows' = rows
  <2>1. PICK x \in {"writing", "astray"} :
          /\ job' = [job EXCEPT ![h].at = x] /\ job[h].at # "idle"
          /\ x = "astray" => job[h].kind \in Paying
    BY <1>3 DEF Charge, ExtendFails
  <2>2. job'[h] = [job[h] EXCEPT !.at = x] BY <2>1
  <2>3. job'[h] \in Work BY <2>2 DEF Work
  <2>4. job' \in [Handler -> Work] BY <2>1, <2>3
  <2>5. job'[h].kind = job[h].kind /\ job'[h].row = job[h].row /\ job'[h].at = x
    BY <2>2 DEF Work
  <2>6. \A g \in Handler : g # h => job'[g] = job[g] BY <2>1
  <2>7. rows' = rows BY <1>3 DEF Charge, ExtendFails, row
  <2> QED BY <2>1, <2>4, <2>5, <2>6, <2>7
<1>4. ASSUME NEW h \in Handler, Finish(h), rows' = rows
      PROVE  JobsKnow(job', rows)
  BY <1>4, IdleIsWork DEF Finish
<1>5. ASSUME NEW h \in Handler, RedeemCreates(h)
      PROVE  JobsKnow(job', rows') /\ rows' = rows + 1 /\ rows' \in 0 .. MaxRow
  BY <1>5, IdleIsWork DEF RedeemCreates, Finish
<1>6. ASSUME MarkExpired \/ DayPasses \/ UNCHANGED lifeVars
      PROVE  JobsKnow(job', rows) /\ rows' = rows
  BY <1>6 DEF MarkExpired, DayPasses, lifeVars, row
<1>7. ASSUME NEW h \in Handler, Charge(h) \/ ExtendFails(h)
      PROVE  JobsKnow(job', rows) /\ rows' = rows
  <2>1. rows' = rows BY <1>7 DEF Charge, ExtendFails, row
  <2> QED BY <1>3, <1>4, <1>7, <2>1
<1>8. ASSUME NEW h \in Handler, Writing(h) \/ SetState(h)
      PROVE  JobsKnow(job', rows) /\ rows' = rows
  <2>1. Finish(h) /\ rows' = rows
    BY <1>8 DEF Writing, Extend, ExtendAstray, SetState, RedeemExtends
  <2> QED BY <1>4, <2>1
<1>9. rows \in Nat /\ rows \in 0 .. MaxRow OBVIOUS
<1>10. (JobsKnow(job', rows) /\ rows' = rows)
       \/ (JobsKnow(job', rows') /\ rows' = rows + 1 /\ rows' \in 0 .. MaxRow)
  <2> HIDE DEF JobsKnow, Known, LifeTypeOK, RowsKnown
  <2> QED BY <1>1, <1>2, <1>5, <1>6, <1>7, <1>8 DEF LifeNext, Writing
<1> QED
  <2> HIDE DEF JobsKnow, Known, LifeTypeOK, RowsKnown
  <2> QED BY <1>9, <1>10

LEMMA JobFields ==
  ASSUME Known, NEW h \in Handler
  PROVE  /\ job[h].code \in Coupon /\ job[h].plan \in Plan /\ job[h].until \in Nat
         /\ Days(h) \in Nat /\ today \in Nat
  BY DEF Known, LifeTypeOK, Work, Days

LEMMA KnownStep ==
  ASSUME Known, [LifeNext]_lifeVars
  PROVE  Known'
<1> DEFINE Rest == /\ today \in 0 .. MaxDay
                   /\ credit \in [Plan -> Nat] /\ planOf \in [Coupon -> Plan]
                   /\ redeemed \subseteq Coupon
                   /\ state \in [Row -> {"ACTIVE", "EXPIRED", "SUSPENDED"}]
                   /\ until \in [Row -> Nat] /\ boundTo \in [Row -> Coupon]
                   /\ owed \in [Row -> Nat] /\ paid \in [Row -> Nat]
                   /\ gift \in [Row -> Nat] /\ served \in [Row -> Nat] /\ befell \subseteq LifeHazard
<1>0. Rest /\ \A r \in Row \ Rows : served[r] = 0 BY DEF Known, LifeTypeOK, RowsKnown
<1>1. JobsKnow(job', rows') /\ rows' \in 0 .. MaxRow /\ rows <= rows' BY JobsType
<1>2. Rows \subseteq Row /\ Rows \subseteq Rows' /\ rows \in Nat
  BY <1>1 DEF Rows, Row, Known, LifeTypeOK
<1>3. ASSUME NEW h \in Handler, NEW k \in Kind, NEW c \in Coupon, ReadRow(h, k, c) \/ Redeem(h, c)
      PROVE  Rest' /\ served' = served
  BY <1>0, <1>3 DEF ReadRow, Redeem, row
<1>4. ASSUME NEW h \in Handler, Charge(h) PROVE Rest' /\ served' = served
  <2>1. job[h].plan \in Plan BY JobFields
  <2>2. credit' \in [Plan -> Nat] BY <1>0, <1>4, <2>1 DEF Charge
  <2> QED BY <1>0, <1>4, <2>2 DEF Charge, row
<1>5. ASSUME NEW h \in Handler, Writing(h) PROVE Rest' /\ served' = served
  <2>1. job[h].plan \in Plan /\ job[h].code \in Coupon /\ job[h].until \in Nat
        /\ Days(h) \in Nat /\ today \in Nat
    BY JobFields
  <2>2. Extended(job[h].until, Days(h)) \in Nat BY <2>1, ExtendedLeaves
  <2>3. Rewrites(h) /\ befell' \subseteq LifeHazard /\ UNCHANGED <<today, served>>
    BY <1>5, ExtendCases DEF Known
  <2>4. until' \in [Row -> Nat] BY <1>0, <2>2, <2>3 DEF Rewrites, WriteExpiry
  <2>5. paid' \in [Row -> Nat] /\ gift' \in [Row -> Nat]
    <3>1. \/ paid' = [paid EXCEPT ![job[h].row] = @ + Days(h)] /\ gift' = gift
          \/ gift' = [gift EXCEPT ![job[h].row] = @ + Days(h)] /\ paid' = paid
      BY <2>3 DEF Rewrites, Adds, Pay, Give
    <3>2. paid \in [Row -> Nat] /\ gift \in [Row -> Nat] /\ Days(h) \in Nat BY <1>0, <2>1
    <3> QED BY <3>1, <3>2, AddType
  <2>6. planOf' \in [Coupon -> Plan] /\ credit' = credit /\ redeemed' \subseteq Coupon
    BY <1>0, <1>5, <2>1 DEF Writing, Extend, ExtendAstray, RedeemExtends, ChangePlan
  <2>7. state' \in [Row -> {"ACTIVE", "EXPIRED", "SUSPENDED"}] /\ boundTo' \in [Row -> Coupon]
    BY <1>0, <1>5, <2>1 DEF Writing, Extend, ExtendAstray, RedeemExtends
  <2>8. owed' \in [Row -> Nat] BY <1>0, <1>5, <2>1, ExtendCases DEF Known, Owe
  <2> QED BY <1>0, <2>3, <2>4, <2>5, <2>6, <2>7, <2>8
<1>6. ASSUME NEW h \in Handler, ExtendFails(h) PROVE Rest' /\ served' = served
  <2>1. job[h].plan \in Plan /\ job[h].code \in Coupon BY JobFields
  <2>2. credit' \in [Plan -> Nat] BY <1>0, <1>6, <2>1 DEF ExtendFails, Refund
  <2>3. befell' \subseteq LifeHazard BY <1>0, <1>6, BefallsType DEF ExtendFails
  <2>4. planOf' \in [Coupon -> Plan] BY <1>0, <1>6, <2>1 DEF ExtendFails, ChangePlan
  <2> QED BY <1>0, <1>6, <2>2, <2>3, <2>4 DEF ExtendFails, row
<1>7. ASSUME NEW h \in Handler, SetState(h) PROVE Rest' /\ served' = served
  BY <1>0, <1>7 DEF SetState
<1>9. ASSUME NEW h \in Handler, RedeemCreates(h) PROVE Rest' /\ served' = served
  <2>1. job[h].code \in Coupon /\ Days(h) \in Nat /\ today \in Nat BY JobFields
  <2>2. until' \in [Row -> Nat] /\ paid' \in [Row -> Nat] /\ owed' \in [Row -> Nat]
    <3>1. /\ until' = [until EXCEPT ![rows + 1] = today + Days(h)]
          /\ paid' = [paid EXCEPT ![rows + 1] = Days(h)]
          /\ owed' = [owed EXCEPT ![rows + 1] = today + Days(h)]
      BY <1>9 DEF RedeemCreates
    <3>2. today + Days(h) \in Nat BY <2>1
    <3> QED BY <1>0, <2>1, <3>1, <3>2
  <2>3. boundTo' \in [Row -> Coupon] /\ redeemed' \subseteq Coupon
        /\ state' \in [Row -> {"ACTIVE", "EXPIRED", "SUSPENDED"}]
    BY <1>0, <1>9, <2>1 DEF RedeemCreates
  <2> QED BY <1>0, <1>9, <2>2, <2>3 DEF RedeemCreates
<1>10. CASE MarkExpired
  <2>1. Rest' /\ served' = served BY <1>0, <1>10 DEF MarkExpired
  <2> QED BY <1>0, <1>1, <1>2, <2>1 DEF Known, LifeTypeOK, RowsKnown, JobsKnow
<1>11. CASE DayPasses
  <2>1. today' \in 0 .. MaxDay BY <1>0, <1>11 DEF DayPasses
  <2>2. served' \in [Row -> Nat] /\ \A r \in Row \ Rows : served'[r] = 0
    BY <1>0, <1>11 DEF DayPasses
  <2>3. Rest' BY <1>0, <1>11, <2>1, <2>2 DEF DayPasses, row
  <2> QED BY <1>1, <1>2, <2>2, <2>3 DEF Known, LifeTypeOK, RowsKnown, JobsKnow
<1>12. CASE UNCHANGED lifeVars
  <2>1. Rest' /\ served' = served BY <1>0, <1>12 DEF lifeVars, row
  <2> QED BY <1>0, <1>1, <1>2, <2>1 DEF Known, LifeTypeOK, RowsKnown, JobsKnow
<1>13. ASSUME NEW h \in Handler,
              \/ \E c \in Coupon : Redeem(h, c) \/ \E k \in Kind : ReadRow(h, k, c)
              \/ Charge(h) \/ ExtendFails(h) \/ SetState(h)
              \/ Writing(h) \/ RedeemCreates(h)
       PROVE  Known'
  <2>1. Kind # {} BY DEF Kind
  <2>2. Rest' /\ served' = served
    BY <1>3, <1>4, <1>5, <1>6, <1>7, <1>9, <1>13, <2>1
  <2> QED BY <1>0, <1>1, <1>2, <2>2 DEF Known, LifeTypeOK, RowsKnown, JobsKnow
<1> QED BY <1>10, <1>11, <1>12, <1>13 DEF LifeNext, Writing

-----------------------------------------------------------------------------
(* No free day.                                                            *)

(* The worth of each row as a function, and WithinWorth by it.             *)
worth == [r \in Row |-> paid[r] + gift[r]]

Within ==
  /\ \A r \in Rows : served[r] + DaysLeft(until[r]) <= worth[r]
  /\ \A h \in Handler : job[h].at # "idle" /\ job[h].row # 0 =>
       served[job[h].row] + DaysLeft(job[h].until) <= worth[job[h].row]

LEMMA WorthType == LifeTypeOK => worth \in [Row -> Nat]
  BY DEF LifeTypeOK, worth

LEMMA JobRow ==
  ASSUME Known, NEW h \in Handler, job[h].row # 0
  PROVE  job[h].row \in Rows /\ job[h].row \in Row
<1>1. job[h].row \in 0 .. rows /\ rows \in 0 .. MaxRow BY DEF Known, LifeTypeOK, RowsKnown
<1> QED BY <1>1 DEF Rows, Row

LEMMA WithinIsWorth ==
  ASSUME Known
  PROVE  WithinWorth <=> Within
<1>1. \A r \in Row : worth[r] = Worth(r) BY DEF worth, Worth
<1>2. Rows \subseteq Row BY RowsAreRow DEF Known
<1> QED BY <1>1, <1>2, JobRow DEF WithinWorth, Within

(* Days that are paid or given make the row worth as much more.            *)
LEMMA AddsWorth ==
  ASSUME Known, NEW h \in Handler, Adds(h), job[h].row \in Row
  PROVE  worth' = [worth EXCEPT ![job[h].row] = @ + Days(h)]
<1>1. PICK q \in Row, days \in Nat : q = job[h].row /\ days = Days(h) BY JobFields
<1>2. paid \in [Row -> Nat] /\ gift \in [Row -> Nat] BY DEF Known, LifeTypeOK
<1>3. \/ paid' = [paid EXCEPT ![q] = @ + days] /\ gift' = gift
      \/ gift' = [gift EXCEPT ![q] = @ + days] /\ paid' = paid
  BY <1>1 DEF Adds, Pay, Give
<1>4. \A r \in Row : paid'[r] + gift'[r]
                      = IF r = q THEN paid[r] + gift[r] + days ELSE paid[r] + gift[r]
  BY <1>1, <1>2, <1>3
<1> QED BY <1>1, <1>4 DEF worth

(* A row that is written lasts, from today, for what the request had to    *)
(* give and the days it paid; other requests have no more than before.     *)
LEMMA RewriteWithin ==
  ASSUME Known, Known', Within, NEW h \in Handler, Writing(h)
  PROVE  Within'
<1>1. Rewrites(h) /\ UNCHANGED <<today, rows, served>>
  BY ExtendCases DEF Known
<1>a. PICK r : r = job[h].row OBVIOUS
<1>0. /\ served \in [Row -> Nat] /\ worth \in [Row -> Nat] /\ until \in [Row -> Nat]
      /\ rows \in 0 .. MaxRow /\ job \in [Handler -> Work]
  BY WorthType DEF Known, LifeTypeOK
<1>2. /\ r \in Rows /\ job[h].until \in Nat /\ Days(h) \in Nat /\ today \in Nat
  BY <1>1, <1>a, JobFields DEF Rewrites
<1>3. /\ \A q \in Rows : served[q] + DaysLeft(until[q]) <= worth[q]
      /\ \A g \in Handler : job[g].at # "idle" /\ job[g].row # 0 =>
           served[job[g].row] + DaysLeft(job[g].until) <= worth[job[g].row]
  BY DEF Within
<1>5. Rows' = Rows /\ Rows \subseteq Row
  BY <1>1, RowsAreRow DEF Rows, Known
<1>4. /\ until' = [until EXCEPT ![r] = Extended(job[h].until, Days(h))]
      /\ worth' = [worth EXCEPT ![r] = @ + Days(h)]
      /\ job' = [job EXCEPT ![h] = Idle]
  BY <1>1, <1>2, <1>5, <1>a, AddsWorth DEF Rewrites, WriteExpiry, Finish
<1>6. ASSUME NEW q \in Rows
      PROVE  served'[q] + DaysLeft(until[q])' <= worth'[q]
  <2>1. CASE q = r
    <3>1. served[r] + DaysLeft(job[h].until) <= worth[r] 
      BY <1>1, <1>2, <1>3, <1>a DEF Rewrites, Rows
    <3>2. until'[r] = Extended(job[h].until, Days(h)) /\ worth'[r] = worth[r] + Days(h)
      BY <1>0, <1>2, <1>4, <1>5
    <3>3. DaysLeft(until[r])' = DaysLeft(job[h].until) + Days(h)
      <4>1. DaysLeft(until[r])' = DaysLeft(Extended(job[h].until, Days(h)))
        BY <1>1, <3>2, <2>1 DEF DaysLeft
      <4> QED BY <4>1, <1>2, ExtendedLeaves
    <3>4. DaysLeft(job[h].until) \in Nat /\ served[r] \in Nat /\ worth[r] \in Nat
      BY <1>0, <1>2, <1>5, DaysLeftType
    <3>5. served'[r] = served[r] BY <1>1
    <3>6. served'[r] + DaysLeft(until[r])' <= worth'[r] BY <1>2, <3>1, <3>2, <3>3, <3>4, <3>5
    <3> QED BY <3>6, <2>1
  <2>2. CASE q # r
    BY <1>0, <1>1, <1>3, <1>4, <1>5, <2>2 DEF DaysLeft
  <2> QED BY <2>1, <2>2
<1>7. ASSUME NEW g \in Handler, job'[g].at # "idle", job'[g].row # 0
      PROVE  served'[job'[g].row] + DaysLeft(job[g].until)' <= worth'[job'[g].row]
  <2>1. g # h /\ job'[g] = job[g] BY <1>0, <1>4, <1>7, IdleIsWork
  <2>2. served[job[g].row] + DaysLeft(job[g].until) <= worth[job[g].row] BY <1>3, <1>7, <2>1
  <2>3. job[g].row \in Row /\ job[g].until \in Nat
    <3>1. job[g] \in Work BY <1>0
    <3>2. job[g].row \in 0 .. MaxRow /\ job[g].row # 0 BY <3>1, <1>7, <2>1 DEF Work
    <3> QED BY <3>2, JobFields DEF Row
  <2>4. worth'[job[g].row] >= worth[job[g].row]
    BY <1>0, <1>2, <1>4, <2>3
  <2>5. DaysLeft(job[g].until)' = DaysLeft(job[g].until) BY <1>1, <2>1 DEF DaysLeft
  <2>6. DaysLeft(job[g].until) \in Nat /\ served[job[g].row] \in Nat /\ worth[job[g].row] \in Nat
    BY <1>0, <1>2, <2>3, DaysLeftType
  <2>7. worth'[job[g].row] \in Nat BY <1>0, <1>2, <1>4, <2>3
  <2> QED BY <1>1, <2>1, <2>2, <2>4, <2>5, <2>6, <2>7
<1> QED BY <1>5, <1>6, <1>7 DEF Within

(* A request that begins has read what its row has now.                    *)
LEMMA ReadWithin ==
  ASSUME Known, Within, NEW h \in Handler, NEW c \in Coupon,
         Redeem(h, c) \/ \E k \in Kind : ReadRow(h, k, c)
  PROVE  Within'
<1>1. PICK r \in 0 .. rows :
        job' = [job EXCEPT ![h] = job'[h]]
        /\ job'[h].row = r /\ (r # 0 => job'[h].until = until[r])
  <2>1. job \in [Handler -> Work] /\ rows \in Nat BY DEF Known, LifeTypeOK
  <2>2. CASE Redeem(h, c) BY <2>1, <2>2 DEF Redeem
  <2>3. CASE \E k \in Kind : ReadRow(h, k, c)
    <3>1. PICK k \in Kind : ReadRow(h, k, c) BY <2>3
    <3> QED BY <2>1, <3>1 DEF ReadRow, RowOf, Rows
  <2> QED BY <2>2, <2>3
<1>2. UNCHANGED <<today, rows, until, worth, served>>
  BY DEF Redeem, ReadRow, row, worth
<1>3. job \in [Handler -> Work] /\ rows \in Nat BY DEF Known, LifeTypeOK
<1> QED BY <1>1, <1>2, <1>3 DEF Within, DaysLeft, Rows

(* A request that goes on or gives up knows what it knew.                  *)
LEMMA GoOnWithin ==
  ASSUME Known, Within, NEW h \in Handler, Charge(h) \/ ExtendFails(h) \/ SetState(h)
  PROVE  Within'
<1>1. job \in [Handler -> Work] BY DEF Known, LifeTypeOK
<1>2. \A g \in Handler : job'[g].at # "idle" =>
        job[g].at # "idle" /\ job'[g].row = job[g].row /\ job'[g].until = job[g].until
  <2>1. CASE Finish(h) BY <1>1, <2>1, IdleIsWork DEF Finish
  <2>2. CASE ~Finish(h)
    <3>1. PICK x \in {"writing", "astray"} : job' = [job EXCEPT ![h].at = x]
      BY <2>2 DEF Charge, ExtendFails, SetState
    <3>2. job[h].at # "idle" BY DEF Charge, ExtendFails, SetState
    <3>3. job'[h] = [job[h] EXCEPT !.at = x] BY <1>1, <3>1
    <3>4. job'[h].row = job[h].row /\ job'[h].until = job[h].until BY <1>1, <3>3 DEF Work
    <3>5. \A g \in Handler : g # h => job'[g] = job[g] BY <1>1, <3>1
    <3> QED BY <3>2, <3>4, <3>5
  <2> QED BY <2>1, <2>2
<1>3. UNCHANGED <<today, rows, until, worth, served>>
  BY DEF Charge, ExtendFails, SetState, row, worth
<1> QED BY <1>2, <1>3 DEF Within, DaysLeft, Rows

LEMMA CreateWithin ==
  ASSUME Known, Within, NEW h \in Handler, RedeemCreates(h)
  PROVE  Within'
<1>1. /\ rows \in Nat /\ rows + 1 \in Row /\ served[rows + 1] = 0
      /\ job \in [Handler -> Work] /\ until \in [Row -> Nat] /\ worth \in [Row -> Nat]
  <2>1. rows \in 0 .. MaxRow /\ rows < MaxRow BY DEF RedeemCreates, Known, LifeTypeOK
  <2>2. rows + 1 \in Row \ Rows BY <2>1 DEF Row, Rows
  <2> QED BY <2>1, <2>2, WorthType DEF Known, LifeTypeOK, RowsKnown
<1>2. Days(h) \in Nat /\ today \in Nat BY JobFields
<1>3. /\ \A q \in Rows : served[q] + DaysLeft(until[q]) <= worth[q]
      /\ \A g \in Handler : job[g].at # "idle" /\ job[g].row # 0 =>
           served[job[g].row] + DaysLeft(job[g].until) <= worth[job[g].row]
  BY DEF Within
<1>4. /\ until' = [until EXCEPT ![rows + 1] = today + Days(h)]
      /\ worth' = [worth EXCEPT ![rows + 1] = Days(h) + gift[rows + 1]]
      /\ job' = [job EXCEPT ![h] = Idle]
      /\ rows' = rows + 1 /\ today' = today /\ served' = served
  <2>1. /\ until' = [until EXCEPT ![rows + 1] = today + Days(h)]
        /\ paid' = [paid EXCEPT ![rows + 1] = Days(h)] /\ gift' = gift
        /\ job' = [job EXCEPT ![h] = Idle]
        /\ rows' = rows + 1 /\ today' = today /\ served' = served
    BY DEF RedeemCreates, Finish
  <2>2. paid \in [Row -> Nat] BY DEF Known, LifeTypeOK
  <2>3. worth' = [worth EXCEPT ![rows + 1] = Days(h) + gift[rows + 1]]
    BY <1>1, <2>1, <2>2 DEF worth
  <2> QED BY <2>1, <2>3
<1>g. gift[rows + 1] \in Nat BY <1>1 DEF Known, LifeTypeOK
<1>5. ASSUME NEW q \in Rows'
      PROVE  served'[q] + DaysLeft(until[q])' <= worth'[q]
  <2>1. CASE q = rows + 1 BY <1>1, <1>2, <1>4, <1>g, <2>1 DEF DaysLeft
  <2>2. CASE q # rows + 1
    <3>1. q \in Rows BY <1>1, <1>4, <2>2 DEF Rows
    <3>2. until'[q] = until[q] /\ worth'[q] = worth[q] BY <1>1, <1>4, <2>2
    <3> QED BY <1>3, <1>4, <3>1, <3>2 DEF DaysLeft
  <2> QED BY <2>1, <2>2
<1>6. ASSUME NEW g \in Handler, job'[g].at # "idle", job'[g].row # 0
      PROVE  served'[job'[g].row] + DaysLeft(job[g].until)' <= worth'[job'[g].row]
  <2>1. g # h /\ job'[g] = job[g] BY <1>1, <1>4, <1>6, IdleIsWork
  <2>2. job[g].row # rows + 1 BY <1>1 DEF Known, RowsKnown
  <2>3. worth'[job[g].row] = worth[job[g].row] BY <1>1, <1>4, <2>2
  <2> QED BY <1>3, <1>4, <1>6, <2>1, <2>3 DEF DaysLeft
<1> QED BY <1>5, <1>6 DEF Within

(* A day that is given is a day less that is left.                         *)
LEMMA DayWithin ==
  ASSUME Known, Within, DayPasses
  PROVE  Within'
<1>1. /\ today \in Nat /\ today' = today + 1
      /\ served \in [Row -> Nat] /\ until \in [Row -> Nat] /\ worth \in [Row -> Nat]
      /\ rows \in 0 .. MaxRow /\ Rows \subseteq Row /\ Rows' = Rows
      /\ UNCHANGED <<until, worth, job, rows>>
  <2>1. UNCHANGED <<until, worth, job, rows>> BY DEF DayPasses, row, worth
  <2>2. Rows' = Rows BY <2>1 DEF Rows
  <2>3. today \in Nat BY DEF Known, LifeTypeOK
  <2> QED BY <2>1, <2>2, <2>3, RowsAreRow, WorthType DEF DayPasses, Known, LifeTypeOK
<1>2. /\ \A q \in Rows : served[q] + DaysLeft(until[q]) <= worth[q]
      /\ \A g \in Handler : job[g].at # "idle" /\ job[g].row # 0 =>
           served[job[g].row] + DaysLeft(job[g].until) <= worth[job[g].row]
  BY DEF Within
<1>3. ASSUME NEW q \in Rows
      PROVE  served'[q] \in Nat /\ served'[q] <= served[q] + 1
             /\ (until[q] <= today => served'[q] = served[q])
  BY <1>1 DEF DayPasses
<1>4. ASSUME NEW q \in Rows
      PROVE  served'[q] + DaysLeft(until[q])' <= worth'[q]
  <2>1. served[q] \in Nat /\ until[q] \in Nat /\ worth[q] \in Nat BY <1>1
  <2>2. served[q] + DaysLeft(until[q]) <= worth[q] BY <1>2
  <2> QED BY <1>1, <1>3, <2>1, <2>2 DEF DaysLeft
<1>5. ASSUME NEW g \in Handler, job'[g].at # "idle", job'[g].row # 0
      PROVE  served'[job'[g].row] + DaysLeft(job[g].until)' <= worth'[job'[g].row]
  <2>1. PICK q \in Rows : q = job[g].row
    BY <1>1, <1>5 DEF Known, RowsKnown, Rows
  <2>2. PICK e \in Nat : e = job[g].until BY JobFields
  <2>3. served[q] + DaysLeft(e) <= worth[q] BY <1>1, <1>2, <1>5, <2>1, <2>2
  <2>4. served[q] \in Nat /\ worth[q] \in Nat /\ until[q] \in Nat BY <1>1
  <2>5. served'[q] + DaysLeft(until[q])' <= worth[q] BY <1>1, <1>4
  <2>6. served'[q] + DaysLeft(e)' <= worth[q]
    BY <1>1, <1>3, <2>3, <2>4, <2>5 DEF DaysLeft
  <2> QED BY <1>1, <2>1, <2>2, <2>6 DEF DaysLeft
<1> QED BY <1>1, <1>4, <1>5 DEF Within

LEMMA WithinStep ==
  ASSUME Known, WithinWorth, [LifeNext]_lifeVars
  PROVE  WithinWorth'
<1>1. Known' /\ Within BY KnownStep, WithinIsWorth
<1>2. ASSUME MarkExpired \/ UNCHANGED lifeVars PROVE Within'
  BY <1>1, <1>2 DEF MarkExpired, lifeVars, row, Within, worth, DaysLeft, Rows
<1>3. Within'
  BY <1>1, <1>2, RewriteWithin, ReadWithin, GoOnWithin, CreateWithin, DayWithin
  DEF LifeNext, Writing
<1>4. Known' => (WithinWorth' <=> Within') BY WithinIsWorth, PTL
<1> QED BY <1>1, <1>3, <1>4

-----------------------------------------------------------------------------
(* Every paid day arrives.                                                 *)

LEMMA ArriveStep ==
  ASSUME Known, DaysArrive, [LifeNext]_lifeVars
  PROVE  DaysArrive'
<1> SUFFICES ASSUME "overlap" \notin befell' PROVE \A r \in Rows' : until'[r] >= owed'[r]
  BY DEF DaysArrive
<1>0. /\ until \in [Row -> Nat] /\ owed \in [Row -> Nat]
      /\ rows \in 0 .. MaxRow /\ Rows \subseteq Row
  BY RowsAreRow DEF Known, LifeTypeOK
<1>1. ASSUME "overlap" \notin befell, UNCHANGED <<until, owed, rows>>
      PROVE  \A r \in Rows' : until'[r] >= owed'[r]
  BY <1>1 DEF DaysArrive, Rows
<1>2. ASSUME NEW h \in Handler, Writing(h)
      PROVE  \A r \in Rows' : until'[r] >= owed'[r]
  <2>1. Rewrites(h) /\ (Owe(h) \/ owed' = owed) /\ UNCHANGED <<today, rows, served>>
    BY <1>2, ExtendCases DEF Known
  <2>2. PICK q \in Rows, old \in Nat, days \in Nat :
          q = job[h].row /\ old = job[h].until /\ days = Days(h)
    BY <2>1, JobFields DEF Rewrites
  <2>3. until[q] = old /\ "overlap" \notin befell
    BY <2>1, <2>2 DEF Rewrites, Overlaps
  <2>4. until' = [until EXCEPT ![q] = Extended(old, days)]
    BY <2>1, <2>2 DEF Rewrites, WriteExpiry
  <2>5. \A r \in Rows : until[r] >= owed[r] BY <2>3 DEF DaysArrive
  <2>6. until'[q] >= owed'[q]
    <3>1. /\ today \in Nat /\ owed[q] \in Nat /\ old >= owed[q]
          /\ until'[q] = (IF old > today THEN old ELSE today) + days
      BY <1>0, <2>2, <2>3, <2>4, <2>5, JobFields DEF Extended
    <3>2. CASE owed' = owed BY <2>2, <3>1, <3>2
    <3>3. CASE Owe(h)
      <4>1. owed'[q] = owed[q] + days \/ owed'[q] = today + days
        BY <1>0, <2>2, <3>3 DEF Owe
      <4> QED BY <2>2, <3>1, <4>1
    <3> QED BY <2>1, <3>2, <3>3
  <2>7. ASSUME NEW r \in Rows, r # q PROVE until'[r] = until[r] /\ owed'[r] = owed[r]
    BY <1>0, <2>1, <2>2, <2>4, <2>7 DEF Owe
  <2> QED BY <2>1, <2>5, <2>6, <2>7 DEF Rows
<1>3. ASSUME NEW h \in Handler, RedeemCreates(h)
      PROVE  \A r \in Rows' : until'[r] >= owed'[r]
  <2>1. PICK days \in Nat, now \in Nat : days = Days(h) /\ now = today BY JobFields
  <2>2. /\ until' = [until EXCEPT ![rows + 1] = now + days]
        /\ owed' = [owed EXCEPT ![rows + 1] = now + days]
        /\ rows' = rows + 1 /\ rows + 1 \in Row /\ rows \in Nat /\ befell' = befell
    BY <1>0, <1>3, <2>1 DEF RedeemCreates, Row
  <2>3. \A r \in Rows : until[r] >= owed[r] BY <2>2 DEF DaysArrive
  <2>4. ASSUME NEW r \in Rows' PROVE until'[r] >= owed'[r]
    <3>1. CASE r = rows + 1 BY <1>0, <2>1, <2>2, <3>1
    <3>2. CASE r # rows + 1
      <4>1. r \in Rows BY <2>2, <3>2 DEF Rows
      <4> QED BY <1>0, <2>2, <2>3, <3>2, <4>1
    <3> QED BY <3>1, <3>2
  <2> QED BY <2>4
<1> QED
  BY <1>1, <1>2, <1>3
  DEF LifeNext, Redeem, ReadRow, Charge, ExtendFails, Writing, SetState, MarkExpired, DayPasses, lifeVars, row,
      Befalls

-----------------------------------------------------------------------------
(* The theorems.                                                           *)

LEMMA LifeInitially == LifeInit => LifeInv /\ DaysArrive
<1> SUFFICES ASSUME LifeInit PROVE LifeInv /\ DaysArrive
  OBVIOUS
<1>1. Idle.code \in Coupon BY IdleIsWork DEF Work
<1>2. rows = 0 /\ Rows = {} BY DEF LifeInit, Rows
<1>3. LifeTypeOK BY <1>1, IdleIsWork DEF LifeInit, LifeTypeOK
<1>4. RowsKnown BY <1>2, IdleIsWork DEF LifeInit, RowsKnown
<1> QED BY <1>2, <1>3, <1>4, IdleIsWork DEF LifeInit, LifeInv, WithinWorth, DaysArrive

(* Neither a row nor a request that read it has more to give than what was *)
(* paid for it, or given with it by a request that was refunded, and has   *)
(* not been used.                                                          *)
THEOREM LifeInvariant == LifeSpec => []LifeInv
<1>1. LifeInv /\ [LifeNext]_lifeVars => LifeInv'
  BY KnownStep, WithinStep DEF LifeInv, Known
<1> QED BY <1>1, LifeInitially, PTL DEF LifeSpec

(* No interleaving of requests gives a day that was not paid for, but for  *)
(* the days of an extension that is refunded and written all the same: a   *)
(* row has these days once for each such refund, and no more.              *)
THEOREM NoDayIsFree == LifeSpec => []NoFreeDays
<1>1. LifeInv => NoFreeDays BY DEF LifeInv, WithinWorth, Worth, NoFreeDays
<1> QED BY <1>1, LifeInvariant, PTL

(* A row lasts to the day that its payments run to, as long as no request  *)
(* writes an expiry over one that it did not read.  A period follows what  *)
(* was paid before, and one of a change of plan runs from that day.        *)
THEOREM PaidDaysArrive == LifeSpec => []DaysArrive
<1>1. LifeInv /\ DaysArrive /\ [LifeNext]_lifeVars => DaysArrive'
  BY ArriveStep DEF LifeInv, Known
<1> QED BY <1>1, LifeInitially, LifeInvariant, PTL DEF LifeSpec
=============================================================================
