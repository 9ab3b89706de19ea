--------------------------- MODULE ResellerCredit ---------------------------
(***************************************************************************)
(* Reseller credit for one plan: the handlers of routes/reseller.js and    *)
(* routes/admin-resellers.js that spend, move, set or give back credit,    *)
(* and the functions of services/subscription-service.ts they call.        *)
(*                                                                         *)
(* One reseller owns a list of credit entries; the list should hold one    *)
(* entry for the plan, and the code relies on that without enforcing it.   *)
(* A handler is a job; each await of it is an action, so jobs interleave   *)
(* between any two of their database calls.  Redemption is the abstraction *)
(* of module Activation: a code is claimed, then activated or handed back. *)
(***************************************************************************)
EXTENDS Integers, FiniteSets, SequencesExt

CONSTANTS
  Reseller, \* reseller accounts
  Job,      \* handler calls; each is used once
  Kinds,    \* the handlers the jobs may be
  MaxCode,  \* bound: activation codes that can be minted
  MaxQty,   \* bound: quantity of one request
  Initial,  \* credit each reseller was created with; 0 means no entry
  Sub,      \* sub-reseller accounts that "allot" may create
  Hazards,  \* the events named in Hazard that may happen
  NoOne     \* resellerId: null

Spend == {"generate", "renew", "transfer", "allot"}
Kind == Spend \cup {"return", "edit", "adminGenerate"}

Hazard == {
  "throw",       \* a call fails, without effect, after the deduction
  "halfWrite",   \* a call takes effect, in part or in full, and then fails
  "refundFails", \* the call that puts deducted credit back fails
  "logFails",    \* a ledger row is not created; the handler goes on
  "returnFails", \* a call of a credit return or of the daily task fails
  "crash",       \* the process of a handler dies
  "overlap",     \* two returns for one reseller are in flight together
  "editRace",    \* an admin edit overlaps another handler
  "pushRace",    \* two handlers create an account's missing entry together
  "listing",     \* an admin list marks lapsed codes EXPIRED
  "lateRedeem",  \* a customer presents a code that has lapsed
  "adminRace",   \* an admin writes codes a handler is working on
  "restorePaid" }\* an admin restores a code whose credit was returned

ASSUME KindsAssumption == Kinds \subseteq Kind
ASSUME BoundsAssumption == MaxCode \in Nat /\ MaxQty \in Nat \ {0}
ASSUME InitialAssumption == Initial \in [Reseller -> Nat]
ASSUME SubAssumption == Sub \subseteq {r \in Reseller : Initial[r] = 0}
ASSUME HazardsAssumption == Hazards \subseteq Hazard
ASSUME FiniteAssumption == IsFiniteSet(Reseller) /\ IsFiniteSet(Job)
ASSUME NoOneAssumption == NoOne \notin Reseller

Code == 1 .. MaxCode

VARIABLES
  created,  \* the reseller accounts that exist
  entries,  \* Reseller.credit: quantities of the entries for the plan
  ledger,   \* the sum of each reseller's CreditTransaction quantities
  status,   \* ActivationCode.status; NONE before the code is minted
  holder,   \* ActivationCode.resellerId
  lapsed,   \* codes whose codeExpiresAt has passed
  claim,    \* the redeem in flight that holds each code
  job,      \* the local state of each handler call
  sweep,    \* the local state of the daily expiry task
  returned, \* history: how often each code's credit was put back
  flipped,  \* history: codes a return or the daily task took out of use
  renewals, \* history: credits spent on renewals that took place
  granted,  \* history: credit the operator meant to have given out
  unwritten, \* history: the sum of each reseller's rows that were not created
  trouble   \* history: the kind of failure met, if one was

codeVars == <<status, holder, lapsed, claim>>
counts == <<returned, flipped, renewals, granted, unwritten>>
history == <<counts, trouble>>
vars == <<created, entries, ledger, codeVars, job, sweep, history>>

CodeStatus == {"NONE", "UNUSED", "ACTIVATING", "ACTIVATED", "REVOKED",
               "EXPIRED"}
Running == {"deducted", "push", "read", "flipped", "counted", "log", "refund"}
Free == [kind |-> "none", at |-> "idle", by |-> NoOne, to |-> NoOne,
         n |-> 0, ids |-> {}]
Asleep == [at |-> "idle", ids |-> {}, unpaid |-> {}, paid |-> NoOne]

(* One invariant for the shape of every variable: credit never below zero. *)
TypeOK ==
  /\ created \subseteq Reseller
  /\ entries \in [Reseller -> Seq(Nat)]
  /\ ledger \in [Reseller -> Int]
  /\ status \in [Code -> CodeStatus]
  /\ holder \in [Code -> Reseller \cup {NoOne}]
  /\ lapsed \subseteq Code /\ flipped \subseteq Code
  /\ claim \in [Code -> {"none", "held", "late"}]
  /\ job \in [Job -> [kind : Kinds \cup {"none"},
                      at : Running \cup {"idle", "done", "failed"},
                      by : Reseller \cup {NoOne}, to : Reseller \cup {NoOne},
                      n : Int, ids : SUBSET Code]]
  /\ sweep \in [at : {"idle", "recovered", "read", "flipped", "paying",
                      "push", "log"},
                ids : SUBSET Code, unpaid : SUBSET Reseller,
                paid : Reseller \cup {NoOne}]
  /\ returned \in [Code -> Nat]
  /\ renewals \in Nat /\ granted \in Int
  /\ unwritten \in [Reseller -> Int]
  /\ trouble \in {"none", "half", "loss"}

-----------------------------------------------------------------------------
(* Helpers.                                                                *)

(* Bound: a behaviour meets writes that count as failed though they took   *)
(* effect, or failures that may lose credit, never both.                   *)
Meet(kind) == trouble \in {"none", kind} /\ trouble' = kind

SumOf(f, S) == FoldFunctionOnSet(+, 0, f, S)

Total(list) == SumOf(list, DOMAIN list)

Unminted == {c \in Code : status[c] = "NONE"}

(* The next n codes: which plaintext is drawn does not matter.             *)
NextCodes(n) == {c \in Unminted : Cardinality({d \in Unminted : d < c}) < n}

InFlight(j) == job[j].at \in Running

(* The positional write of {'credit.planId': p}: the first entry.          *)
Added(list, n) == [list EXCEPT ![1] = @ + n]

(* Mutant: the deduction does not ask for enough credit.                   *)
EnoughUnchecked(list, n) == DOMAIN list

(* The entry {$elemMatch: {planId, quantity: {$gte: n}}} selects.          *)
Enough(list, n) == {i \in DOMAIN list : list[i] >= n}
Taken(list, n) ==
  [list EXCEPT ![CHOOSE i \in Enough(list, n) :
                   \A k \in Enough(list, n) : i <= k] = @ - n]

Goto(j, to) == job' = [job EXCEPT ![j].at = to]

(* Credit one reseller: $inc an entry, or go on to $push one.              *)
(* Mutant: an entry is pushed even when there is one.                      *)
IncByPush(r, n) == entries' = [entries EXCEPT ![r] = Append(@, n)]

Inc(r, n) == entries' = [entries EXCEPT ![r] = Added(@, n)]
Push(r, n) == entries' = [entries EXCEPT ![r] = Append(@, n)]

(* A handler that found no entry is about to $push one.                    *)
Pushing(r) ==
  \/ sweep.at = "push" /\ sweep.paid = r
  \/ \E j \in Job : job[j].at = "push" /\
       r = (IF job[j].kind = "return" THEN job[j].by ELSE job[j].to)

MayPush(r) == entries[r] = <<>> /\ ("pushRace" \in Hazards \/ ~Pushing(r))

(* Credit of the codes in cs has gone back to their reseller.              *)
CountReturned(cs) ==
  returned' = [c \in Code |-> returned[c] + (IF c \in cs THEN 1 ELSE 0)]

(* updateMany({_id in cs, status: from}, {status: to}).                    *)
Flip(cs, from, to) ==
  status' = [c \in Code |-> IF c \in cs /\ status[c] \in from THEN to
                            ELSE status[c]]

Init ==
  /\ created = Reseller \ Sub
  /\ entries = [r \in Reseller |-> IF Initial[r] = 0 THEN <<>>
                                   ELSE <<Initial[r]>>]
  /\ ledger = Initial
  /\ status = [c \in Code |-> "NONE"]
  /\ holder = [c \in Code |-> NoOne]
  /\ lapsed = {} /\ flipped = {}
  /\ claim = [c \in Code |-> "none"]
  /\ job = [j \in Job |-> Free]
  /\ sweep = Asleep
  /\ returned = [c \in Code |-> 0]
  /\ renewals = 0
  /\ granted = SumOf(Initial, Reseller)
  /\ unwritten = [r \in Reseller |-> 0]
  /\ trouble = "none"

-----------------------------------------------------------------------------
(* The handlers that spend credit: the deduction, the write it pays for,   *)
(* the ledger row, and the refund when a call fails in between.            *)

Paused(r) == "editRace" \in Hazards \/
  \A j \in Job : job[j].kind = "edit" /\ InFlight(j) => job[j].by # r

MayRequest(k, r, to, n) ==
  CASE k = "generate" ->
         /\ to = NoOne
         /\ n + SumOf([j \in Job |-> IF job[j].kind = "generate" /\
                          job[j].at = "deducted" THEN job[j].n ELSE 0], Job)
              <= Cardinality(Unminted)
    [] k = "renew" ->
         /\ to = NoOne /\ n = 1
         /\ \E c \in Code : holder[c] = r /\ status[c] = "ACTIVATED"
    [] k = "transfer" -> to \in created \ {r} /\ Paused(to)
    [] k = "allot" -> to \in Sub \ created

(* consumeCredit and the same update inlined in POST /codes/generate.      *)
Deduct(j, k, r, to, n) ==
  /\ job[j].at = "idle" /\ r \in created /\ Paused(r)
  /\ MayRequest(k, r, to, n)
  /\ Enough(entries[r], n) # {}
  /\ entries' = [entries EXCEPT ![r] = Taken(@, n)]
  /\ job' = [job EXCEPT ![j] = [kind |-> k, at |-> "deducted", by |-> r,
                                to |-> to, n |-> n, ids |-> {}]]
  /\ UNCHANGED <<created, ledger, codeVars, sweep, history>>

Mint(cs, r) ==
  /\ status' = [c \in Code |-> IF c \in cs THEN "UNUSED" ELSE status[c]]
  /\ holder' = [c \in Code |-> IF c \in cs THEN r ELSE holder[c]]

(* generateCodes: the documents of one request are inserted together.      *)
Generate(j) ==
  /\ job[j].at = "deducted" /\ job[j].kind = "generate"
  /\ Mint(NextCodes(job[j].n), job[j].by)
  /\ Goto(j, "log")
  /\ UNCHANGED <<created, entries, ledger, lapsed, claim, sweep, history>>

(* insertMany stores some or all of the documents, and then throws.        *)
GeneratePartly(j) ==
  /\ "halfWrite" \in Hazards
  /\ job[j].at = "deducted" /\ job[j].kind = "generate"
  /\ \E n \in 1 .. job[j].n : Mint(NextCodes(n), job[j].by)
  /\ Goto(j, "refund")
  /\ Meet("half")
  /\ UNCHANGED <<created, entries, ledger, lapsed, claim, sweep, counts>>

(* The writes a renewal, a transfer and an allotment are charged for; a    *)
(* transfer to an account without an entry goes on to $push one.           *)
Renew(j) ==
  /\ job[j].kind = "renew" /\ job[j].at = "deducted"
  /\ renewals' = renewals + 1
  /\ UNCHANGED <<created, entries>>

CreditRecipient(j) ==
  /\ job[j].kind = "transfer"
  /\ \/ /\ job[j].at = "deducted" /\ entries[job[j].to] # <<>>
        /\ Inc(job[j].to, job[j].n)
     \/ /\ job[j].at = "push"
        /\ Push(job[j].to, job[j].n)
  /\ UNCHANGED <<created, renewals>>

Allot(j) ==
  /\ job[j].kind = "allot" /\ job[j].at = "deducted"
  /\ job[j].to \notin created
  /\ created' = created \cup {job[j].to}
  /\ entries' = [entries EXCEPT ![job[j].to] = <<job[j].n>>]
  /\ UNCHANGED renewals

Perform(j, next) ==
  /\ Renew(j) \/ CreditRecipient(j) \/ Allot(j)
  /\ Goto(j, next)

SpendCredit(j) ==
  /\ Perform(j, "log")
  /\ UNCHANGED <<ledger, codeVars, sweep, returned, flipped, granted, unwritten, trouble>>

(* The call took effect and its answer was lost: the catch block refunds.  *)
SpendAndThrow(j) ==
  /\ "halfWrite" \in Hazards
  /\ Perform(j, "refund")
  /\ Meet("half")
  /\ UNCHANGED <<ledger, codeVars, sweep, returned, flipped, granted, unwritten>>

(* Mutant: an update that matched no entry is taken for a success.         *)
FindNoEntryIgnored(j) ==
  /\ job[j].at = "deducted" /\ job[j].kind = "transfer"
  /\ entries[job[j].to] = <<>>
  /\ Goto(j, "log")
  /\ UNCHANGED <<created, entries, ledger, codeVars, sweep, history>>

FindNoEntry(j) ==
  /\ job[j].at = "deducted" /\ job[j].kind = "transfer"
  /\ MayPush(job[j].to)
  /\ Goto(j, "push")
  /\ UNCHANGED <<created, entries, ledger, codeVars, sweep, history>>

(* A call between the deduction and the write fails, or the write itself   *)
(* does; a second account with the username makes "allot" fail this way.   *)
Throw(j) ==
  /\ job[j].kind \in Spend /\ job[j].at \in {"deducted", "push"}
  /\ "throw" \in Hazards \/
       (job[j].kind = "allot" /\ job[j].to \in created)
  /\ Goto(j, "refund")
  /\ UNCHANGED <<created, entries, ledger, codeVars, sweep, history>>

(* Mutant: the inner and the outer catch block both refund.                *)
RefundTwice(j) ==
  /\ job[j].at = "refund"
  /\ IF entries[job[j].by] = <<>> THEN UNCHANGED entries
     ELSE Inc(job[j].by, 2 * job[j].n)
  /\ Goto(j, "failed")
  /\ UNCHANGED <<created, ledger, codeVars, sweep, history>>

(* rollbackCredit and its siblings; without an entry it matches nothing.   *)
Refund(j) ==
  /\ job[j].at = "refund"
  /\ IF entries[job[j].by] = <<>> THEN UNCHANGED entries
     ELSE Inc(job[j].by, job[j].n)
  /\ Goto(j, "failed")
  /\ UNCHANGED <<created, ledger, codeVars, sweep, history>>

(* The refund throws too; it is single-shot, so nobody tries it again.     *)
RefundThrows(j) ==
  /\ "refundFails" \in Hazards
  /\ job[j].at = "refund"
  /\ Goto(j, "failed")
  /\ Meet("loss")
  /\ UNCHANGED <<created, entries, ledger, codeVars, sweep, counts>>

-----------------------------------------------------------------------------
(* returnUnusedCreditForReseller: all unused codes, or those of one batch. *)

ReturnRead(j, r, ids) ==
  /\ "return" \in Kinds
  /\ job[j].at = "idle" /\ r \in created /\ Paused(r)
  /\ "overlap" \in Hazards \/
       \A i \in Job : job[i].kind = "return" /\ InFlight(i) => job[i].by # r
  /\ ids # {}
  /\ ids \subseteq {c \in Code : holder[c] = r /\ status[c] = "UNUSED"}
  /\ job' = [job EXCEPT ![j] = [Free EXCEPT !.kind = "return", !.at = "read",
                                           !.by = r, !.ids = ids]]
  /\ UNCHANGED <<created, entries, ledger, codeVars, sweep, history>>

ReturnFlip(j) ==
  /\ job[j].kind = "return" /\ job[j].at = "read"
  /\ Flip(job[j].ids, {"UNUSED"}, "REVOKED")
  /\ flipped' = flipped \cup {c \in job[j].ids : status[c] = "UNUSED"}
  /\ Goto(j, "flipped")
  /\ UNCHANGED <<created, entries, ledger, holder, lapsed, claim, sweep,
                 returned, renewals, granted, unwritten, trouble>>

(* The codes counted are those of the snapshot that are REVOKED by now.    *)
Revoked(ids) == {c \in ids : status[c] = "REVOKED"}

ReturnRecount(j) ==
  /\ job[j].kind = "return" /\ job[j].at = "flipped"
  /\ LET ids == Revoked(job[j].ids)
     IN job' = [job EXCEPT ![j].ids = ids, ![j].n = Cardinality(ids),
                           ![j].at = IF ids = {} THEN "done" ELSE "counted"]
  /\ UNCHANGED <<created, entries, ledger, codeVars, sweep, history>>

(* Mutant: a return gives up when the account has no entry.                *)
ReturnPayEntryOnly(j) ==
  /\ job[j].kind = "return" /\ job[j].at = "counted"
  /\ IF entries[job[j].by] = <<>>
     THEN Goto(j, "done") /\ UNCHANGED <<entries, returned>>
     ELSE /\ Inc(job[j].by, job[j].n)
          /\ CountReturned(job[j].ids)
          /\ Goto(j, "log")
  /\ UNCHANGED <<created, ledger, codeVars, sweep, flipped, renewals, granted, unwritten, trouble>>

ReturnPay(j) ==
  /\ job[j].kind = "return" /\ job[j].at = "counted"
  /\ \/ MayPush(job[j].by) /\ Goto(j, "push")
        /\ UNCHANGED <<entries, returned>>
     \/ /\ entries[job[j].by] # <<>>
        /\ Inc(job[j].by, job[j].n)
        /\ CountReturned(job[j].ids)
        /\ Goto(j, "log")
  /\ UNCHANGED <<created, ledger, codeVars, sweep, flipped, renewals, granted, unwritten, trouble>>

ReturnPush(j) ==
  /\ job[j].kind = "return" /\ job[j].at = "push"
  /\ Push(job[j].by, job[j].n)
  /\ CountReturned(job[j].ids)
  /\ Goto(j, "log")
  /\ UNCHANGED <<created, ledger, codeVars, sweep, flipped, renewals, granted, unwritten, trouble>>

(* A call of the return throws: the route answers 500 and nothing retries. *)
ReturnThrows(j) ==
  /\ "returnFails" \in Hazards
  /\ job[j].kind = "return"
  /\ job[j].at \in {"read", "flipped", "counted", "push"}
  /\ Goto(j, "failed")
  /\ Meet("loss")
  /\ UNCHANGED <<created, entries, ledger, codeVars, sweep, counts>>

-----------------------------------------------------------------------------
(* PUT /admin/resellers/:id sets the credit to an absolute quantity.       *)

Held(list) == IF list = <<>> THEN 0 ELSE list[Len(list)]

EditRead(j, r) ==
  /\ "edit" \in Kinds
  /\ job[j].at = "idle" /\ r \in created
  /\ "editRace" \in Hazards \/
       /\ Paused(r) /\ sweep.at = "idle"
       /\ \A i \in Job : InFlight(i) => r \notin {job[i].by, job[i].to}
  /\ job' = [job EXCEPT ![j] = [Free EXCEPT !.kind = "edit", !.at = "read",
                                !.by = r, !.n = Held(entries[r])]]
  /\ UNCHANGED <<created, entries, ledger, codeVars, sweep, history>>

(* The ledger row is the new quantity less the one read before the write;  *)
(* an array without the plan, list = <<>>, drops the entry.                *)
EditWrite(j, list) ==
  /\ job[j].kind = "edit" /\ job[j].at = "read"
  /\ entries' = [entries EXCEPT ![job[j].by] = list]
  /\ job' = [job EXCEPT ![j].at = "log", ![j].n = Held(list) - @]
  /\ granted' = granted + Held(list) - job[j].n
  /\ UNCHANGED <<created, ledger, codeVars, sweep, returned, flipped, renewals, unwritten, trouble>>

-----------------------------------------------------------------------------
(* recordCreditTx; the two rows of a transfer are created together.  An    *)
(* allotment writes one, for the new account.                              *)

(* Mutant: a transfer writes the sender's row only.                        *)
RowOneSided(j, r) ==
  IF job[j].kind \in {"generate", "renew", "transfer"}
  THEN IF r = job[j].by THEN -job[j].n ELSE 0
  ELSE IF r = job[j].by THEN job[j].n ELSE 0

Row(j, r) ==
  CASE job[j].kind \in {"generate", "renew"} ->
         IF r = job[j].by THEN -job[j].n ELSE 0
    [] job[j].kind = "transfer" ->
         IF r = job[j].by THEN -job[j].n
         ELSE IF r = job[j].to THEN job[j].n ELSE 0
    [] job[j].kind = "allot" -> IF r = job[j].to THEN job[j].n ELSE 0
    [] OTHER -> IF r = job[j].by THEN job[j].n ELSE 0

(* Rows of the given quantities are created, but not those of the          *)
(* resellers in failed: an error is caught and printed, and no caller      *)
(* hears of it.  Bound: once in a behaviour.                               *)
Record(quantity, failed) ==
  /\ failed # {} => "logFails" \in Hazards /\ \A r \in Reseller : unwritten[r] = 0
  /\ ledger' = [r \in Reseller |-> ledger[r] + (IF r \in failed THEN 0 ELSE quantity[r])]
  /\ unwritten' = [r \in Reseller |-> unwritten[r] + (IF r \in failed THEN quantity[r] ELSE 0)]

Log(j) ==
  /\ job[j].at = "log"
  /\ \E failed \in SUBSET ({job[j].by, job[j].to} \cap Reseller) :
       Record([r \in Reseller |-> Row(j, r)], failed)
  /\ Goto(j, "done")
  /\ UNCHANGED <<created, entries, codeVars, sweep, returned, flipped, renewals, granted, trouble>>

Crash(j) ==
  /\ "crash" \in Hazards /\ InFlight(j)
  /\ Goto(j, "failed")
  /\ Meet("loss")
  /\ UNCHANGED <<created, entries, ledger, codeVars, sweep, counts>>

(* POST /admin/activation-codes/generate: a code that belongs to nobody.   *)
AdminGenerate(j) ==
  /\ "adminGenerate" \in Kinds
  /\ job[j].at = "idle" /\ Unminted # {}
  /\ \A i \in Job : ~(job[i].kind = "generate" /\ job[i].at = "deducted")
  /\ Mint(NextCodes(1), NoOne)
  /\ job' = [job EXCEPT ![j].kind = "adminGenerate", ![j].at = "done"]
  /\ UNCHANGED <<created, entries, ledger, lapsed, claim, sweep, history>>

-----------------------------------------------------------------------------
(* expireStaleCodesAndReturnCredit, the daily task.                        *)

SweepRecover ==
  /\ sweep.at = "idle"
  /\ status' = [c \in Code |-> IF status[c] = "ACTIVATING" /\ claim[c] = "none"
                               THEN "UNUSED" ELSE status[c]]
  /\ sweep' = [sweep EXCEPT !.at = "recovered"]
  /\ UNCHANGED <<created, entries, ledger, holder, lapsed, claim, job, history>>

SweepRead ==
  /\ sweep.at = "recovered"
  /\ LET ids == {c \in lapsed : status[c] = "UNUSED"}
     IN sweep' = IF ids = {} THEN Asleep
                 ELSE [sweep EXCEPT !.at = "read", !.ids = ids]
  /\ UNCHANGED <<created, entries, ledger, codeVars, job, history>>

SweepFlip ==
  /\ sweep.at = "read"
  /\ Flip(sweep.ids, {"UNUSED"}, "EXPIRED")
  /\ flipped' = flipped \cup {c \in sweep.ids : status[c] = "UNUSED"}
  /\ sweep' = [sweep EXCEPT !.at = "flipped"]
  /\ UNCHANGED <<created, entries, ledger, holder, lapsed, claim, job,
                 returned, renewals, granted, unwritten, trouble>>

(* Mutants: the task counts the snapshot, or codes it did not expire.      *)
ExpiredSnapshot(ids) == ids
ExpiredStillUnused(ids) == {c \in ids : status[c] = "UNUSED"}

Expired(ids) == {c \in ids : status[c] = "EXPIRED"}
CodesOf(r) == {c \in sweep.ids : holder[c] = r}

SweepRecount ==
  /\ sweep.at = "flipped"
  /\ LET ids == Expired(sweep.ids)
     IN sweep' = [sweep EXCEPT !.at = "paying", !.ids = ids,
                    !.unpaid = {holder[c] : c \in ids} \ {NoOne}]
  /\ UNCHANGED <<created, entries, ledger, codeVars, job, history>>

SweepPay(r) ==
  /\ sweep.at = "paying" /\ r \in sweep.unpaid
  /\ "editRace" \in Hazards \/ Paused(r)
  /\ \/ /\ MayPush(r)
        /\ sweep' = [sweep EXCEPT !.at = "push", !.paid = r]
        /\ UNCHANGED <<entries, returned>>
     \/ /\ entries[r] # <<>>
        /\ Inc(r, Cardinality(CodesOf(r)))
        /\ CountReturned(CodesOf(r))
        /\ sweep' = [sweep EXCEPT !.at = "log", !.paid = r]
  /\ UNCHANGED <<created, ledger, codeVars, job, flipped, renewals, granted, unwritten, trouble>>

SweepPush ==
  /\ sweep.at = "push"
  /\ Push(sweep.paid, Cardinality(CodesOf(sweep.paid)))
  /\ CountReturned(CodesOf(sweep.paid))
  /\ sweep' = [sweep EXCEPT !.at = "log"]
  /\ UNCHANGED <<created, ledger, codeVars, job, flipped, renewals, granted, unwritten, trouble>>

SweepLog ==
  /\ sweep.at = "log"
  /\ \E failed \in SUBSET {sweep.paid} :
       Record([r \in Reseller |-> IF r = sweep.paid THEN Cardinality(CodesOf(r)) ELSE 0], failed)
  /\ sweep' = [sweep EXCEPT !.at = "paying", !.paid = NoOne,
                            !.unpaid = @ \ {sweep.paid}]
  /\ UNCHANGED <<created, entries, codeVars, job, returned, flipped, renewals, granted, trouble>>

SweepEnd ==
  /\ sweep.at = "paying" /\ sweep.unpaid = {}
  /\ sweep' = Asleep
  /\ UNCHANGED <<created, entries, ledger, codeVars, job, history>>

(* A call of the task throws, or its process dies: the run is over.        *)
SweepFails ==
  /\ {"returnFails", "crash"} \cap Hazards # {} /\ sweep.at # "idle"
  /\ sweep' = Asleep
  /\ Meet("loss")
  /\ UNCHANGED <<created, entries, ledger, codeVars, job, counts>>

SweepNext ==
  \/ SweepRecover \/ SweepRead \/ SweepFlip \/ SweepRecount
  \/ \E r \in Reseller : SweepPay(r)
  \/ SweepPush \/ SweepLog \/ SweepEnd

-----------------------------------------------------------------------------
(* Redemption (module Activation has the details) and the clock.           *)

(* A claim is late when the code's expiry had passed as it was claimed.    *)
Claim(c) ==
  /\ status[c] = "UNUSED"
  /\ IF c \in lapsed THEN "lateRedeem" \in Hazards /\ Meet("loss") ELSE UNCHANGED trouble
  /\ status' = [status EXCEPT ![c] = "ACTIVATING"]
  /\ claim' = [claim EXCEPT ![c] = IF c \in lapsed THEN "late" ELSE "held"]
  /\ UNCHANGED <<created, entries, ledger, holder, lapsed, job, sweep, counts>>

(* The claim ends: activated, handed back after a failure, or rejected.    *)
EndClaim(c, st) ==
  /\ \/ claim[c] = "held" /\ st \in {"ACTIVATED", "UNUSED"}
     \/ claim[c] = "late" /\ st = "EXPIRED"
  /\ status' = [status EXCEPT ![c] = st]
  /\ claim' = [claim EXCEPT ![c] = "none"]
  /\ UNCHANGED <<created, entries, ledger, holder, lapsed, job, sweep, history>>

RedeemDies(c) ==
  /\ "crash" \in Hazards /\ claim[c] # "none"
  /\ claim' = [claim EXCEPT ![c] = "none"]
  /\ Meet("loss")
  /\ UNCHANGED <<created, entries, ledger, status, holder, lapsed, job, sweep,
                 counts>>

Lapse(c) ==
  /\ status[c] # "NONE" /\ c \notin lapsed
  /\ lapsed' = lapsed \cup {c}
  /\ UNCHANGED <<created, entries, ledger, status, holder, claim, job, sweep,
                 history>>

-----------------------------------------------------------------------------
(* Admin handlers that write codes in bulk.                                *)

(* expireStaleCodes, which the admin list and the statistics run.          *)
ListExpire ==
  /\ "listing" \in Hazards
  /\ \E c \in lapsed : status[c] = "UNUSED"
  /\ Flip(lapsed, {"UNUSED"}, "EXPIRED")
  /\ Meet("loss")
  /\ UNCHANGED <<created, entries, ledger, holder, lapsed, claim, job, sweep,
                 counts>>

(* A return or the daily task is working on the code.                      *)
Working(c) == c \in sweep.ids \/
  \E j \in Job : job[j].kind = "return" /\ InFlight(j) /\ c \in job[j].ids

MayWrite(c) ==
  "adminRace" \in Hazards \/ (claim[c] = "none" /\ ~Working(c))

BulkRevoke(c) ==
  /\ MayWrite(c)
  /\ status[c] \in {"UNUSED", "ACTIVATING", "EXPIRED"}
  /\ Flip({c}, {"UNUSED", "ACTIVATING", "EXPIRED"}, "REVOKED")
  /\ UNCHANGED <<created, entries, ledger, holder, lapsed, claim, job, sweep,
                 history>>

BulkRestore(c) ==
  /\ MayWrite(c)
  /\ "restorePaid" \in Hazards \/ returned[c] = 0
  /\ status[c] \in {"REVOKED", "EXPIRED"}
  /\ Flip({c}, {"REVOKED", "EXPIRED"}, "UNUSED")
  /\ lapsed' = lapsed \ {c}
  /\ UNCHANGED <<created, entries, ledger, holder, claim, job, sweep, history>>

-----------------------------------------------------------------------------
(* A server goes on with the handlers it has begun.                        *)
Step(j) ==
  \/ Generate(j) \/ SpendCredit(j) \/ FindNoEntry(j) \/ Refund(j)
  \/ ReturnFlip(j) \/ ReturnRecount(j) \/ ReturnPay(j) \/ ReturnPush(j)
  \/ \E list \in {<<>>} \cup {<<q>> : q \in 0 .. MaxQty} : EditWrite(j, list)
  \/ Log(j)

Request(j) ==
  \/ \E k \in Kinds \cap Spend, r \in Reseller, to \in Reseller \cup {NoOne},
        n \in 1 .. MaxQty : Deduct(j, k, r, to, n)
  \/ \E r \in Reseller, ids \in SUBSET Code : ReturnRead(j, r, ids)
  \/ \E r \in Reseller : EditRead(j, r)
  \/ AdminGenerate(j)

Fault(j) ==
  \/ GeneratePartly(j) \/ SpendAndThrow(j) \/ Throw(j) \/ RefundThrows(j)
  \/ ReturnThrows(j) \/ Crash(j)

CodeNext(c) ==
  \/ Claim(c)
  \/ \E st \in {"ACTIVATED", "UNUSED", "EXPIRED"} : EndClaim(c, st)
  \/ RedeemDies(c) \/ Lapse(c) \/ BulkRevoke(c) \/ BulkRestore(c)

Next ==
  \/ \E j \in Job : Request(j) \/ Step(j) \/ Fault(j)
  \/ SweepNext \/ SweepFails
  \/ \E c \in Code : CodeNext(c)
  \/ ListExpire

Spec == Init /\ [][Next]_vars

(* A request in flight goes on, a redeem ends, and the scheduler starts    *)
(* the daily task again and runs it to its end.                            *)
Fairness ==
  /\ \A j \in Job : WF_vars(Step(j))
  /\ \A c \in Code : WF_vars(\E st \in {"ACTIVATED", "UNUSED", "EXPIRED"} :
                               EndClaim(c, st))
  /\ WF_vars(SweepNext)

FairSpec == Spec /\ Fairness

(* Less fairness: none is asked for once a failure has lost credit.        *)
Sound == trouble # "loss"

SoundSpec ==
  /\ Spec
  /\ \A j \in Job : WF_vars(Sound /\ Step(j))
  /\ \A c \in Code :
       WF_vars(Sound /\ \E st \in {"ACTIVATED", "UNUSED", "EXPIRED"} : EndClaim(c, st))
  /\ WF_vars(Sound /\ SweepNext)

-----------------------------------------------------------------------------
(* Properties.                                                             *)

(* Credit deducted by a handler that has not used it or put it back yet.   *)
Reserved(j) ==
  IF job[j].kind \in Spend /\ job[j].at \in {"deducted", "push", "refund"}
  THEN job[j].n ELSE 0

(* A reseller's code stands for one credit, unless that credit was         *)
(* returned and the code can no longer be redeemed.                        *)
Dead(c) == status[c] \in {"REVOKED", "EXPIRED"}
Worth(c) ==
  IF holder[c] = NoOne \/ (returned[c] > 0 /\ Dead(c)) THEN 0 ELSE 1

Accounted ==
  SumOf([r \in Reseller |-> Total(entries[r])], Reseller)
    + SumOf([c \in Code |-> Worth(c)], Code)
    + SumOf([j \in Job |-> Reserved(j)], Job) + renewals

(* Nothing a handler does makes or loses credit: what the operator granted *)
(* is held by resellers, was turned into codes or renewals, or is on its   *)
(* way in a handler in flight.                                             *)
Conserved == Accounted = granted

(* Whatever crashes or fails, credit may be lost but is never made: no     *)
(* reseller ends up with more codes, renewals and credit than granted.     *)
(* Only a write that took effect and counts as failed is charged for and   *)
(* refunded, too.                                                          *)
NoFreeCredit == trouble # "half" => Accounted <= granted

(* The credit of one code is put back at most once, by whichever of the    *)
(* return and the daily task took it out of use, and only for a code that  *)
(* cannot be redeemed any more and was not.                                *)
ReturnedOnce ==
  \A c \in Code : returned[c] <= 1 /\ (returned[c] > 0 => Dead(c))

(* When no return and no daily task works on it any more, the credit of a  *)
(* reseller's code that one of them took out of use has been put back.     *)
FlippedIsPaid ==
  \A c \in flipped : holder[c] # NoOne /\ ~Working(c) => returned[c] > 0

(* When no handler is in flight, each reseller's ledger rows add up to the *)
(* credit the account shows, but for the very rows whose creation failed:  *)
(* recordCreditTx hides that from the handler, which reports success.      *)
LedgerAddsUp ==
  (sweep.at = "idle" /\ \A j \in Job : ~InFlight(j))
    => \A r \in Reseller : ledger[r] + unwritten[r] = Total(entries[r])

(* A reseller can spend while credit remains: one entry holds all of it.   *)
CreditUsable ==
  \A r \in Reseller : \A n \in 1 .. Total(entries[r]) :
    Enough(entries[r], n) # {}

(* A reseller's code that lapses unused has its credit returned, unless an *)
(* admin revokes it first: nobody has to ask for it.                       *)
LapsedPaysBack ==
  \A c \in Code :
    (c \in lapsed /\ status[c] = "UNUSED" /\ holder[c] # NoOne)
      ~> (returned[c] > 0 \/ status[c] = "REVOKED")

(* The same promise where an admin may list codes, calls of a return or of *)
(* the daily task may throw and processes may die: it holds until one of   *)
(* these has happened, whatever else is rolled back or half written.       *)
LapsedCodesPayBack ==
  \A c \in Code :
    (c \in lapsed /\ status[c] = "UNUSED" /\ holder[c] # NoOne)
      ~> (returned[c] > 0 \/ status[c] = "REVOKED" \/ trouble = "loss")
=============================================================================
