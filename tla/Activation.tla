----------------------------- MODULE Activation -----------------------------
(***************************************************************************)
(* Redemption of activation codes: redeemCode of                           *)
(* services/subscription-service.ts, the admin handlers that write the     *)
(* same documents (routes/admin-activation-codes.js), the daily recovery   *)
(* and expiry task, and the marking of lapsed subscriptions                *)
(* (services/ops-report-service.ts).                                       *)
(*                                                                         *)
(* MongoDB applies one document write atomically and nothing more, so one  *)
(* action is one awaited call.  A redeem call r moves through              *)
(*                                                                         *)
(*   idle -> claimed -> planned -> read -> minted -> activated -> ok       *)
(*                                                                         *)
(* or ends "refused" (a business error), "error" (an exception reached the *)
(* route) or "crashed" (its process died).  "late" has claimed a code      *)
(* whose own expiry has passed; "threw" is inside the catch block.         *)
(***************************************************************************)
EXTENDS Integers, FiniteSets

CONSTANTS
  Code,      \* activation codes
  User,      \* customer accounts
  Call,      \* calls of redeemCode; each is used once
  Owner,     \* the account each call redeems for
  Days,      \* duration of each code: customDurationDays or the plan's
  ExpiresOn, \* the codeExpiresAt each code was generated with
  MaxNow,    \* bound of the clock, in days
  MaxAdmins, \* bound of the admin handlers between a read and a write
  Hazards,   \* which of the events named in Hazard the environment produces
  Nobody     \* activatedBy: null, and "no subscription row"

Hazard == {
  "crash",      \* a process dies before the subscription is written
  "throw",      \* a database call fails before the subscription is written
  "lateCrash",  \* a process dies after the subscription is written
  "lateThrow",  \* a database call fails after the subscription is written
  "slow",       \* a redeem is still running 15 minutes after its claim
  "overlap",    \* two redeems of one account are in flight together
  "adminRace",  \* an admin handler acts on a code while a redeem holds it
  "sweepRace" } \* an account's row is marked EXPIRED during its redeem

ASSUME OwnerAssumption == Owner \in [Call -> User]
ASSUME DaysAssumption == Days \in [Code -> Nat \ {0}]
ASSUME ExpiresOnAssumption == ExpiresOn \in [Code -> Nat \cup {-1}]
ASSUME MaxNowAssumption == MaxNow \in Nat /\ MaxAdmins \in Nat
ASSUME HazardsAssumption == Hazards \subseteq Hazard
ASSUME NobodyAssumption == Nobody \notin User /\ Nobody \notin Call

VARIABLES
  status,      \* ActivationCode.status; DELETED once the document is gone
  activatedBy, \* ActivationCode.activatedBy
  expiry,      \* ActivationCode.codeExpiresAt as a day, or Never
  stale,       \* codes whose updatedAt is more than 15 minutes old
  pending,     \* admin handlers between their findById and their write
  row,         \* Subscription rows, named by the call that created them
  pc,          \* where each call is
  codeOf,      \* the code each call presents
  startedAt,   \* the local "now" of each call
  seen,        \* the ACTIVE row each call read, and the expiry it read
  now,         \* the day
  minted,      \* history: calls that wrote a subscription
  paidUntil    \* history: until when each account has paid

codeVars == <<status, activatedBy, expiry, stale>>
callVars == <<pc, codeOf, startedAt, seen>>
subVars  == <<row, minted, paidUntil>>
vars == <<codeVars, pending, callVars, subVars, now>>

Never == -1                       \* codeExpiresAt: null

CodeStatus == {"UNUSED", "ACTIVATING", "ACTIVATED", "REVOKED", "EXPIRED",
               "DELETED"}
Writing == {"late", "claimed", "planned", "read", "minted", "threw"}
Running == Writing \cup {"activated"}
Ended == {"ok", "refused", "error", "crashed"}

NoRow == [user |-> Nobody, status |-> "NONE", until |-> 0]
Rows == [user : User \cup {Nobody}, status : {"NONE", "ACTIVE", "EXPIRED"},
         until : Nat]
Edits == [code : Code, read : CodeStatus \ {"ACTIVATED"},
          write : {"REVOKED", "UNUSED", "DELETED"}]

(* One invariant for the shape of every variable.                          *)
TypeOK ==
  /\ status \in [Code -> CodeStatus]
  /\ activatedBy \in [Code -> User \cup {Nobody}]
  /\ expiry \in [Code -> Nat \cup {Never}]
  /\ stale \subseteq Code
  /\ pending \subseteq Edits
  /\ row \in [Call -> Rows]
  /\ pc \in [Call -> {"idle"} \cup Running \cup Ended]
  /\ codeOf \in [Call -> Code]
  /\ startedAt \in [Call -> Nat]
  /\ seen \in [Call -> [row : Call \cup {Nobody}, until : Nat]]
  /\ now \in Nat
  /\ minted \subseteq Call
  /\ paidUntil \in [User -> Nat]

-----------------------------------------------------------------------------
(* Helpers.                                                                *)

Later(a, b) == IF a > b THEN a ELSE b

Lapsed(c) == expiry[c] # Never /\ expiry[c] < now

(* A redeem in flight that has claimed, or still means to write, code c.   *)
Held(c) == \E r \in Call : codeOf[r] = c /\ pc[r] \in Running

RowWith(x, st, day) == [user |-> row[x].user, status |-> st, until |-> day]

ActiveRows(u) == {x \in Call : row[x].user = u /\ row[x].status = "ACTIVE"}

(* Every write of a code document sets updatedAt; a write by _id to a      *)
(* deleted document matches nothing.                                       *)
SetStatus(c, s) ==
  /\ status' = [status EXCEPT ![c] = IF @ = "DELETED" THEN @ ELSE s]
  /\ stale' = stale \ {c}

Goto(r, to) == pc' = [pc EXCEPT ![r] = to]

(* The call leaves everything but its own program counter alone.           *)
OnlyMoves(r, to) ==
  /\ Goto(r, to)
  /\ UNCHANGED <<codeVars, pending, codeOf, startedAt, seen, subVars, now>>

(* The call writes its code's status, unconditionally, and moves on.       *)
WritesCode(r, s, to) ==
  /\ SetStatus(codeOf[r], s)
  /\ Goto(r, to)
  /\ UNCHANGED <<activatedBy, expiry, pending, codeOf, startedAt, seen,
                 subVars, now>>

Init ==
  /\ status = [c \in Code |-> "UNUSED"]
  /\ activatedBy = [c \in Code |-> Nobody]
  /\ expiry = ExpiresOn
  /\ stale = {}
  /\ pending = {}
  /\ row = [x \in Call |-> NoRow]
  /\ pc = [r \in Call |-> "idle"]
  /\ codeOf \in [Call -> Code]
  /\ startedAt = [r \in Call |-> 0]
  /\ seen = [r \in Call |-> [row |-> Nobody, until |-> 0]]
  /\ now = 0
  /\ minted = {}
  /\ paidUntil = [u \in User |-> 0]

-----------------------------------------------------------------------------
(* redeemCode, one action per awaited call.                                *)

(* Mutant: the claim also takes a code another call is activating.         *)
ClaimTakesActivating(r) ==
  LET c == codeOf[r] IN
  /\ pc[r] = "idle"
  /\ status[c] \in {"UNUSED", "ACTIVATING"}
  /\ SetStatus(c, "ACTIVATING")
  /\ startedAt' = [startedAt EXCEPT ![r] = now]
  /\ Goto(r, IF Lapsed(c) THEN "late" ELSE "claimed")
  /\ UNCHANGED <<activatedBy, expiry, pending, codeOf, seen, subVars, now>>

(* The atomic claim, UNUSED -> ACTIVATING.  "now" is taken right after it, *)
(* and the claimed document is judged against that instant.                *)
Claim(r) ==
  LET c == codeOf[r] IN
  /\ pc[r] = "idle"
  /\ "overlap" \in Hazards
       \/ \A q \in Call \ {r} : Owner[q] = Owner[r] => pc[q] \notin Running
  /\ status[c] = "UNUSED"
  /\ SetStatus(c, "ACTIVATING")
  /\ startedAt' = [startedAt EXCEPT ![r] = now]
  /\ Goto(r, IF Lapsed(c) THEN "late" ELSE "claimed")
  /\ UNCHANGED <<activatedBy, expiry, pending, codeOf, seen, subVars, now>>

(* The claim matched nothing: the code is read again for the error's sake, *)
(* and every branch refuses.                                               *)
ClaimLost(r) ==
  /\ pc[r] = "idle"
  /\ status[codeOf[r]] # "UNUSED"
  /\ OnlyMoves(r, "refused")

(* The claimed code has expired.                                           *)
ExpireClaimed(r) ==
  /\ pc[r] = "late"
  /\ WritesCode(r, "EXPIRED", "refused")

(* The plan is missing or not Active: the claim is released.               *)
PlanUnavailable(r) ==
  /\ pc[r] = "claimed"
  /\ WritesCode(r, "UNUSED", "refused")

(* Mutant: the code is marked ACTIVATED before the subscription is written. *)
PlanFoundActivatesFirst(r) ==
  /\ pc[r] = "claimed"
  /\ SetStatus(codeOf[r], "ACTIVATED")
  /\ activatedBy' = [activatedBy EXCEPT ![codeOf[r]] = Owner[r]]
  /\ Goto(r, "planned")
  /\ UNCHANGED <<expiry, pending, codeOf, startedAt, seen, subVars, now>>

PlanFound(r) ==
  /\ pc[r] = "claimed"
  /\ OnlyMoves(r, "planned")

(* registerDevice answered DEVICE_LIMIT_REACHED (or a bad id).             *)
DeviceRefused(r) ==
  /\ pc[r] = "planned"
  /\ WritesCode(r, "UNUSED", "refused")

(* Mutant: only a row that has not lapsed is looked for.                   *)
ReadUnlapsedSubscription(r) ==
  LET found == {x \in ActiveRows(Owner[r]) : row[x].until > now} IN
  /\ pc[r] = "planned"
  /\ seen' \in
       IF found = {}
       THEN {[seen EXCEPT ![r] = [row |-> Nobody, until |-> 0]]}
       ELSE {[seen EXCEPT ![r] = [row |-> x, until |-> row[x].until]] :
               x \in found}
  /\ Goto(r, "read")
  /\ UNCHANGED <<codeVars, pending, codeOf, startedAt, subVars, now>>

(* The device is registered, or none was sent; any ACTIVE row of the       *)
(* account is read.                                                        *)
ReadSubscription(r) ==
  LET found == ActiveRows(Owner[r]) IN
  /\ pc[r] = "planned"
  /\ seen' \in
       IF found = {}
       THEN {[seen EXCEPT ![r] = [row |-> Nobody, until |-> 0]]}
       ELSE {[seen EXCEPT ![r] = [row |-> x, until |-> row[x].until]] :
               x \in found}
  /\ Goto(r, "read")
  /\ UNCHANGED <<codeVars, pending, codeOf, startedAt, subVars, now>>

(* History: call r wrote a subscription, and its account has paid for Days *)
(* more from the later of its paid-until day and the call's now.           *)
Pays(r) ==
  LET u == Owner[r] IN
  /\ minted' = minted \cup {r}
  /\ paidUntil' = [paidUntil EXCEPT
       ![u] = Later(@, startedAt[r]) + Days[codeOf[r]]]

(* Mutant: the extension always starts from now.                           *)
ExtendFromNow(r) ==
  LET x == seen[r].row IN
  /\ pc[r] = "read"
  /\ x # Nobody
  /\ row' = [row EXCEPT ![x] = RowWith(x, row[x].status,
       startedAt[r] + Days[codeOf[r]])]
  /\ Pays(r)
  /\ Goto(r, "minted")
  /\ UNCHANGED <<codeVars, pending, codeOf, startedAt, seen, now>>

(* The row that was read is extended from the later of the expiry that was *)
(* read and now; save() writes the fields assigned, status is not one.     *)
ExtendSubscription(r) ==
  LET x == seen[r].row IN
  /\ pc[r] = "read"
  /\ x # Nobody
  /\ row' = [row EXCEPT ![x] = RowWith(x, row[x].status,
       Later(seen[r].until, startedAt[r]) + Days[codeOf[r]])]
  /\ Pays(r)
  /\ Goto(r, "minted")
  /\ UNCHANGED <<codeVars, pending, codeOf, startedAt, seen, now>>

CreateSubscription(r) ==
  /\ pc[r] = "read"
  /\ seen[r].row = Nobody
  /\ row' = [row EXCEPT ![r] = [user |-> Owner[r], status |-> "ACTIVE",
                                until |-> startedAt[r] + Days[codeOf[r]]]]
  /\ Pays(r)
  /\ Goto(r, "minted")
  /\ UNCHANGED <<codeVars, pending, codeOf, startedAt, seen, now>>

(* code.save(): ACTIVATED by _id, whatever the status is by now.  save()   *)
(* on a document that is gone throws.                                      *)
ActivateCode(r) ==
  LET c == codeOf[r] IN
  /\ pc[r] = "minted"
  /\ IF status[c] = "DELETED"
     THEN Goto(r, "threw") /\ UNCHANGED <<status, stale, activatedBy>>
     ELSE /\ SetStatus(c, "ACTIVATED")
          /\ activatedBy' = [activatedBy EXCEPT ![c] = Owner[r]]
          /\ Goto(r, "activated")
  /\ UNCHANGED <<expiry, pending, codeOf, startedAt, seen, subVars, now>>

(* accessGroups, the SUCCESS ledger row and the device count.              *)
Answer(r) ==
  /\ pc[r] = "activated"
  /\ OnlyMoves(r, "ok")

(* A call before the try block throws: the route answers 500.              *)
ThrowOutsideTry(r) ==
  /\ "throw" \in Hazards
  /\ pc[r] \in {"late", "claimed"}
  /\ OnlyMoves(r, "error")

(* A call inside the try block throws.                                     *)
Throw(r) ==
  /\ \/ "throw" \in Hazards /\ pc[r] \in {"planned", "read"}
     \/ "lateThrow" \in Hazards /\ pc[r] \in {"minted", "activated"}
  /\ OnlyMoves(r, "threw")

(* The catch block.  It calls code.updateOne(X, Y) on the DOCUMENT, whose  *)
(* first argument is the update and whose filter is always {_id}, as the   *)
(* two releases above show.  X = {_id, status: 'ACTIVATING'} is therefore  *)
(* written, unguarded, and Y = {$set: {status: 'UNUSED'}} is passed as     *)
(* query options, which nothing reads.                                     *)
CatchRestore(r) ==
  /\ pc[r] = "threw"
  /\ WritesCode(r, "ACTIVATING", "error")

(* The process running the call dies.                                      *)
Crash(r) ==
  /\ \/ "crash" \in Hazards /\ pc[r] \in Writing \ {"minted"}
     \/ "lateCrash" \in Hazards /\ pc[r] \in Running /\ r \in minted
  /\ OnlyMoves(r, "crashed")

-----------------------------------------------------------------------------
(* Time, the daily task and the subscription sweep.                        *)

Tick ==
  /\ now < MaxNow
  /\ now' = now + 1
  /\ UNCHANGED <<codeVars, pending, callVars, subVars>>

(* 15 minutes pass since the last write of an ACTIVATING code.             *)
ClaimAges(c) ==
  /\ status[c] = "ACTIVATING"
  /\ c \notin stale
  /\ "slow" \in Hazards \/ ~Held(c)
  /\ stale' = stale \cup {c}
  /\ UNCHANGED <<status, activatedBy, expiry, pending, callVars, subVars, now>>

(* Mutants: recovery forgets the 15 minutes; recovery only looks at codes  *)
(* that have not expired.                                                  *)
RecoverAnyClaim(c) ==
  /\ status[c] = "ACTIVATING"
  /\ SetStatus(c, "UNUSED")
  /\ UNCHANGED <<activatedBy, expiry, pending, callVars, subVars, now>>

RecoverUnexpired(c) ==
  /\ status[c] = "ACTIVATING"
  /\ c \in stale
  /\ ~Lapsed(c)
  /\ SetStatus(c, "UNUSED")
  /\ UNCHANGED <<activatedBy, expiry, pending, callVars, subVars, now>>

(* The daily task hands a stale claim back to the pool.                    *)
RecoverStale(c) ==
  /\ status[c] = "ACTIVATING"
  /\ c \in stale
  /\ SetStatus(c, "UNUSED")
  /\ UNCHANGED <<activatedBy, expiry, pending, callVars, subVars, now>>

(* The daily task, and the admin list, expire an UNUSED code.              *)
ExpireUnused(c) ==
  /\ status[c] = "UNUSED"
  /\ Lapsed(c)
  /\ SetStatus(c, "EXPIRED")
  /\ UNCHANGED <<activatedBy, expiry, pending, callVars, subVars, now>>

(* The ops report marks a row that is past its expiry.                     *)
MarkExpired(x) ==
  /\ row[x].status = "ACTIVE"
  /\ row[x].until <= now
  /\ "sweepRace" \in Hazards
       \/ \A r \in Call : Owner[r] = row[x].user => pc[r] \notin Running
  /\ row' = [row EXCEPT ![x] = RowWith(x, "EXPIRED", row[x].until)]
  /\ UNCHANGED <<codeVars, pending, callVars, minted, paidUntil, now>>

-----------------------------------------------------------------------------
(* Admin handlers.  The single-code ones read the document, judge it, and  *)
(* save it by _id one await later; the bulk ones are one guarded write.    *)

(* Mutant: the early return for an ACTIVATED code is gone.                 *)
AdminReadAnyStatus(c, w) ==
  /\ status[c] \notin {"DELETED", w}
  /\ "adminRace" \in Hazards \/ ~Held(c)
  /\ Cardinality(pending) < MaxAdmins
  /\ pending' = pending \cup {[code |-> c, read |-> status[c], write |-> w]}
  /\ UNCHANGED <<codeVars, callVars, subVars, now>>

(* revoke, restore and delete: the read, and the early returns after it.   *)
AdminRead(c, w) ==
  /\ status[c] \notin {"ACTIVATED", "DELETED", w}
  /\ "adminRace" \in Hazards \/ ~Held(c)
  /\ Cardinality(pending) < MaxAdmins
  /\ pending' = pending \cup {[code |-> c, read |-> status[c], write |-> w]}
  /\ UNCHANGED <<codeVars, callVars, subVars, now>>

(* The write.  Restoring clears an expiry that has passed.                 *)
AdminSave(e) ==
  LET c == e.code IN
  /\ "adminRace" \in Hazards \/ (~Held(c) /\ status[c] = e.read)
  /\ SetStatus(c, e.write)
  /\ expiry' = IF e.write = "UNUSED" /\ Lapsed(c)
               THEN [expiry EXCEPT ![c] = Never] ELSE expiry
  /\ pending' = pending \ {e}
  /\ UNCHANGED <<activatedBy, callVars, subVars, now>>

(* Mutant: bulk revoke without { $ne: 'ACTIVATED' }.                       *)
BulkRevokeAnything(c) ==
  /\ status[c] \notin {"REVOKED", "DELETED"}
  /\ "adminRace" \in Hazards \/ ~Held(c)
  /\ SetStatus(c, "REVOKED")
  /\ UNCHANGED <<activatedBy, expiry, pending, callVars, subVars, now>>

BulkRevoke(c) ==
  /\ status[c] \notin {"ACTIVATED", "REVOKED", "DELETED"}
  /\ "adminRace" \in Hazards \/ ~Held(c)
  /\ SetStatus(c, "REVOKED")
  /\ UNCHANGED <<activatedBy, expiry, pending, callVars, subVars, now>>

BulkRestore(c) ==
  /\ status[c] \in {"REVOKED", "EXPIRED"}
  /\ SetStatus(c, "UNUSED")
  /\ expiry' = IF Lapsed(c) THEN [expiry EXCEPT ![c] = Never] ELSE expiry
  /\ UNCHANGED <<activatedBy, pending, callVars, subVars, now>>

-----------------------------------------------------------------------------
Redeem(r) ==
  \/ Claim(r)
  \/ ClaimLost(r)
  \/ ExpireClaimed(r)
  \/ PlanUnavailable(r)
  \/ PlanFound(r)
  \/ DeviceRefused(r)
  \/ ReadSubscription(r)
  \/ ExtendSubscription(r)
  \/ CreateSubscription(r)
  \/ ActivateCode(r)
  \/ Answer(r)
  \/ CatchRestore(r)

Fault(r) == ThrowOutsideTry(r) \/ Throw(r) \/ Crash(r)

DailyTask(c) == RecoverStale(c) \/ ExpireUnused(c)

Admin(c) ==
  \/ \E w \in {"REVOKED", "UNUSED", "DELETED"} : AdminRead(c, w)
  \/ BulkRevoke(c)
  \/ BulkRestore(c)

Next ==
  \/ \E r \in Call : Redeem(r) \/ Fault(r)
  \/ \E c \in Code : ClaimAges(c) \/ DailyTask(c) \/ Admin(c)
  \/ \E x \in Call : MarkExpired(x)
  \/ \E e \in pending : AdminSave(e)
  \/ Tick

Spec == Init /\ [][Next]_vars

(* The event loop resumes every continuation of a live process, minutes    *)
(* pass, and the scheduler runs the daily task.  Nobody promises that a    *)
(* request arrives, that a fault happens or that an admin acts.            *)
Fairness ==
  /\ \A r \in Call : WF_vars(pc[r] # "idle" /\ Redeem(r))
  /\ \A c \in Code : WF_vars(ClaimAges(c)) /\ WF_vars(RecoverStale(c))

FairSpec == Spec /\ Fairness

-----------------------------------------------------------------------------
(* Properties.                                                             *)

PaidFrom(c) == {r \in minted : codeOf[r] = c}

(* "Two concurrent redeems of the same code can never both mint a          *)
(* subscription" (redeemCode), and a used code is refused afterwards: over *)
(* its whole life one code pays for one subscription write.                *)
OneMintPerCode == \A p, q \in minted : codeOf[p] = codeOf[q] => p = q

(* A code that can be redeemed, now or after an admin restores it, has not *)
(* paid for anything yet: releases, recovery and restores never put a      *)
(* spent code back into the pool.                                          *)
OpenMeansUnpaid ==
  \A c \in Code :
    status[c] \in {"UNUSED", "REVOKED", "EXPIRED"} => PaidFrom(c) = {}

(* No paid code is burnt: redeemCode writes the subscription before it     *)
(* marks the code, so a code marked ACTIVATED did pay for a subscription   *)
(* of the very account it names, whatever failed or raced on the way.      *)
ActivatedMeansPaid ==
  \A c \in Code : status[c] = "ACTIVATED" =>
    \E r \in PaidFrom(c) : Owner[r] = activatedBy[c]

(* "A user who already holds an ACTIVE subscription gets its expiry        *)
(* extended instead of creating a conflicting row."                        *)
OneActiveRow == \A u \in User : \A x, y \in ActiveRows(u) : x = y

(* An account that has paid until a later day holds an ACTIVE row that     *)
(* runs to exactly that day: no extension is lost and none is invented.    *)
PaidDaysKept ==
  \A u \in User : paidUntil[u] > now =>
    \E x \in ActiveRows(u) : row[x].until = paidUntil[u]

(* Once ACTIVATED a code is never anything else: revoke, restore, delete,  *)
(* recovery and expiry all spare it.                                       *)
ActivatedIsFinal ==
  [][\A c \in Code : status[c] = "ACTIVATED" => status'[c] = "ACTIVATED"]_vars

(* "Any failure after the claim must not burn a paid code - hand it back   *)
(* to the pool so the customer can retry": a call that ends in an          *)
(* exception leaves its code redeemable.                                   *)
FailureHandsBack ==
  [][\A r \in Call : pc[r] = "threw" /\ pc'[r] = "error" =>
       status'[codeOf[r]] # "ACTIVATING"]_vars

(* However a redeem ends, by an answer, an exception or a dead process,    *)
(* its code does not stay ACTIVATING for ever.                             *)
ClaimsResolve ==
  \A c \in Code : status[c] = "ACTIVATING" ~> status[c] # "ACTIVATING"

(* What redemption promises, with the claim and the calls hidden: see      *)
(* RedeemOnce.  A code is spent from the moment its subscription is        *)
(* written.                                                                *)
AbsState(c) ==
  IF PaidFrom(c) # {} THEN "spent"
  ELSE IF status[c] \in {"REVOKED", "EXPIRED", "DELETED"} THEN "void"
  ELSE "open"

AbsPayees(c) == {Owner[r] : r \in PaidFrom(c)}

Promise == INSTANCE RedeemOnce WITH
  state <- [c \in Code |-> AbsState(c)],
  payees <- [c \in Code |-> AbsPayees(c)]

(* Redemption implements the promise.                                      *)
KeepsPromise == Promise!Spec
=============================================================================
