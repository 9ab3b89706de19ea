# Verification of DZ HOOF

DZ HOOF is an IPTV service. An Express server with MongoDB and Redis
(`src/server/backend`) sells access in the form of *activation codes*. An admin
or a reseller generates codes, or a customer buys one online. A customer redeems
a code for a *subscription*, and resellers pay for codes with *credit*. A Next.js
site (`src/server/frontend`) and an Android player (`src/android`) sit in front
of the server, and a relay (`src/server/relay`) carries streams.

This directory holds TLA+ models of the parts where a race, a crash or a lost
answer does harm: first those where it costs somebody money (codes, reseller
credit, online payments, paid days), then the locks, limits and retries around
them (scheduler, devices, stream sessions, catalogue, recordings, pairing, the
player). It also holds the TLC configurations that check the models and the
TLAPS proofs about them. The server uses no MongoDB transactions. A
single-document write is atomic, a multi-document update is guarded document by
document, and anything may happen between two awaited calls. The models of the
server are built on that reading: **one awaited database or Redis call is one
action**, and calls of different requests, of different processes and of the
scheduler interleave freely.

## The system

### Inventory

State and operations are those of `src/server/backend/src` unless a path says
otherwise. "Model" names the module, or `-` for a part that has none (the
reasons are under [Not modelled](#not-modelled)).

| Component | State | Operations | What is hard | Correct when | Model |
|---|---|---|---|---|---|
| Activation codes and redemption (`services/subscription-service.ts`, `routes/activation.js`, `routes/admin-activation-codes.js`) | `ActivationCode.status`, `activatedBy`, `codeExpiresAt`; `Subscription` rows | redeem, revoke, restore, delete (single and bulk), daily recovery and expiry | claim races, failures between claim, subscription write and code write, recovery by age, admin saves of a document read earlier | a code pays once, a used code stays used, paid days are kept, a failure hands the code back | `Activation` |
| Reseller credit (`routes/reseller.js`, `routes/admin-resellers.js`, `services/subscription-service.ts`) | `Reseller.credit[]`, `CreditTransaction` ledger, holder and status of codes | generate, renew, transfer, allot to a sub-reseller, return unused, daily expiry with credit return, admin edit | deduct, act, refund and log as separate writes; `$inc` or `$push`; snapshot, guarded update and recount; absolute writes | credit is neither made nor lost, it goes back once, and only for codes that are out of use | `ResellerCredit` |
| Online payments (`routes/payments.js`, `models/Payment.ts`) | `Payment.status`, `activationCodeId`, `updatedAt` as claim token | checkout, two webhooks, status polls, claim, finalise, release, takeover | retried and concurrent webhooks, stalled or dead claimers, acks that stop retries | captured money becomes exactly one code | `Payments` |
| Device registry (`services/subscription-service.ts` 30-345) | `Device` rows, in-process lock chain, Redis lock | register, count, evict | a lock that expires, a fallback without Redis | never more devices than the plan allows | `DeviceRegistry` |
| Subscription lifecycle (`routes/reseller.js` 1018-1260) | `Subscription.expiresAt`, `status` | renew, change plan, suspend, reactivate | read, then write of an absolute value; two writes at once, of which one may fail | two paid renewals give two periods, a refunded one none | `SubscriptionLife` |
| Failed client redeem (`routes/activation.js` 87-290) | throwaway user and its rows | redeem without account, compensation | each step may fail, another customer may come first | never a used code of a deleted account | `ClientRedeem` |
| Scheduler (`services/scheduler-service.ts`, `services/task-registry.ts`) | `ScheduledTaskRun` as a lease | acquire, heartbeat, reclaim, complete, recover at start | several processes, stale locks | one live run of a task, history written by its owner | `TaskLease` |
| Stream sessions (`services/stream-session-service.ts`) | a sorted set per user in Redis | register, refresh, expire, revoke | a script or separate calls, silent clients, eviction policy | the limit holds | `StreamSessions` |
| Panel queue, bounded batches (`services/panel-request-queue.ts`, `utils/concurrency.ts`) | promise chains | enqueue, run | failures must not break the chain | one request per panel at a time | - |
| Catalogue sync and prune (`services/xtream-service.ts`, `services/m3u-service.ts`, `services/catalog-prune-guard.ts`) | channels, films, series of a source | fetch, upsert, prune | partial downloads | never prune what was not seen to be gone | `CatalogSync` |
| Sync snapshots (`services/sync-snapshot-service.ts`) | snapshot and chunks | build, read, replace | reading across a replacement | never a mixed snapshot | `CatalogSync` |
| Source failover and health (`services/source-failover-service.ts`) | primary and backup of a channel | probe, promote, return | flapping | a healthy source is used | `SourceWatchdog` |
| Recording (`services/recording-service.ts`) | rows in the database, captures in memory, files on disk | start, capture, remux, save, delete, retention | deletion and death in the middle of a capture, a capture that cannot start | row and files tell the same | `Recording` |
| TV pairing (`routes/tv.js`, `models/PairingRequest.ts`) | a request with its PIN and status | request, poll, confirm, expire | polls, confirmations and expiry in any order | television, row and owner agree | `TvPairing` |
| Android app (`src/android`) | the ladder of slots, proxies and containers; a reconnect job | play, fail, reconnect, ask for a fallback, zap | coroutines that go on after they are cancelled | the player gives up only after every URL | `PlayerRecovery` (the live player) |
| Accounts, sessions and tokens (`routes/jwt.js`, `routes/auth.js`) | users, refresh tokens | log in, rotate, log out | external exchanges | a token is refreshed once | - |
| External source and iptv-org caches; playback and upstream proxy; debts of resellers; programme guide; notifications, reports and metrics | caches, bytes in flight, bookkeeping, logs | read, refresh, send | mostly I/O and conversion | - | - |
| Web frontend, relay | user interface, network | - | - | - | - |

How the parts interact: `routes/*` handlers call the service functions, which
write MongoDB documents and Redis keys. There are no messages between
components. They interact through the shared documents: `ActivationCode` is
written by redemption, admins, resellers' returns and the daily task,
`Subscription` by redemption, resellers and the daily mark, `Reseller.credit`
by every handler that spends, moves, returns or sets credit, and `Payment` by
webhooks and polls. The scheduler runs `expireStaleCodesAndReturnCredit`, the
catalogue syncs and the watchdog, once for all processes if its lease works.
Payments call `generateCodes` and the gateways (Chargily, CinetPay) over HTTP.
A redeem registers a device; a playback registers a stream session. The Android
player asks the server for playback tokens and fallback slots.

### Plan

Done, in this order:

1. `Activation` with `RedeemOnce`, `ResellerCredit`, `Payments` with `Purchase`,
   and the proofs for codes and payments.
2. `TaskLease`, `DeviceRegistry`, `StreamSessions`, `SubscriptionLife`,
   `ClientRedeem`, then `CatalogSync`, `Recording`, `SourceWatchdog`,
   `TvPairing`, `PlayerRecovery`, with their inductive invariants.
3. The proofs of every safety property a run checks, `ResellerCredit`'s
   conservation of credit among them.

Left: `ActivatedStays`, `OneRow` and `NoneForgotten` under the weaker conditions
TLC suggests; change-plan's second plan in `ResellerCredit`; codes sold online on behalf
of a shop, whose return credits a shop that spent nothing; suspensions in
`Activation`, so that the rows of `SubscriptionLife` and the claims of
`Activation` meet in one module; admin edits of subscriptions; the health of
single channels and the choice of a backup; the player's catch-up branch.

## Modules

| Module | Contents |
|---|---|
| `Activation` | redemption of codes and everything that writes their status |
| `RedeemOnce` | abstract: a code is open, spent once for one account, or void |
| `ResellerCredit` | credit of resellers for one plan |
| `Payments` | one online payment |
| `Purchase` | abstract: one code after the capture, and always that one |
| `TaskLease` | runs of one scheduled task by several processes |
| `DeviceRegistry` | the devices of one user under the device lock |
| `StreamSessions` | the playback sessions of one user in Redis |
| `SubscriptionLife` | the subscription rows of one customer and their paid days |
| `ClientRedeem` | a redeem without an account, and its compensation |
| `CatalogSync` | syncs of one source, the prune guard, snapshots and rollbacks |
| `Recording` | recordings: rows, captures and files |
| `SourceWatchdog` | the verdict on one source |
| `TvPairing` | a television's PIN and its owner |
| `PlayerRecovery` | the live player's recovery ladder |
| `ActivationProofs`, `CreditProofs`, `PaymentsProofs`, `TaskLeaseProofs`, `SubscriptionLifeProofs`, `CatalogSyncProofs` | theorems about the module of that name |
| `LimitProofs` | theorems about `DeviceRegistry` and `StreamSessions` |
| `ServiceProofs` | theorems about `SourceWatchdog`, `Recording`, `TvPairing`, `ClientRedeem` and `PlayerRecovery` |
| `MCActivation`, `MCResellerCredit`, `MCPayments`, `MCCatalog`, `MCSubscriptionLife` | constants and symmetry for TLC |
| `MCServicesSafe`, `MCServicesLive`, `MCSalesSafe` | one instance each of several components that share no variable |

A model says in one of two ways which events its environment may produce, such
as a crash at a certain point, a failing call, or two handlers overlapping. In
some modules a constant (`Hazards`, `WatchdogHazards`) names the events that may
happen, so that a run or a theorem says under which events its property holds.
In the others every event may happen, and a history variable records those that
have (`happened`, `suffered`, `befell`, `occurred`, `strange`), or what they
have hit (`marred`, `blurred`, `upset`); the property then names the ones it
excepts. That is the stronger form: the exempted event is in the model and all
other properties face it. Each module lists its events. The
[frontier](#the-frontier) lists the event that breaks each property.

A definition marked "Mutant" is a plausible mistake in the definition after it.
No specification uses it. It shows that the property it is paired with in
`PROJECT.json` would notice that mistake.

### Activation

State: `status`, `activatedBy` and `expiry` are fields of each `ActivationCode`.
`stale` says that `updatedAt` is more than 15 minutes old. `row` holds the
`Subscription` documents. `pc`, `codeOf`, `startedAt` and `seen` are the local
variables of each `redeemCode` call. `pending` holds admin handlers between
their `findById` and their write. `minted` and `paidUntil` are history.

| `redeemCode` (`subscription-service.ts`) | action |
|---|---|
| atomic `findOneAndUpdate` UNUSED to ACTIVATING (129) | `Claim`, `ClaimLost` |
| the code's own expiry (166), the plan (173) | `ExpireClaimed`, `PlanUnavailable`, `PlanFound` |
| `registerDevice` refuses (182) | `DeviceRefused` |
| `findOne` ACTIVE subscription (195), save or create | `ReadSubscription`, `ExtendSubscription`, `CreateSubscription` |
| `code.save()` ACTIVATED (217), the rest | `ActivateCode`, `Answer` |
| exceptions and the catch block (240) | `ThrowOutsideTry`, `Throw`, `CatchRestore` |

`CatchRestore` writes ACTIVATING unguarded. The code calls
`code.updateOne(filter, update)` on a *document*, whose first argument is the
update, so the intended filter is what is written and the intended update is
ignored as options. The two releases above it in the same function use the
one-argument form. `RecoverStale`, `ExpireUnused`, `MarkExpired`, `AdminRead`,
`AdminSave`, `BulkRevoke` and `BulkRestore` are the other writers. The expiry of
a code and of a row, and `now`, are days.

Abstracted: the device count (its verdict is a choice), the plan (its duration
is `Days`), the redemption log, who calls. Generation is the initial state.

### ResellerCredit

One plan; credit for different plans never mixes except in change-plan, which is
not modelled. `entries` is the list of the reseller's credit entries for the
plan. A list and not a number, because the code assumes one entry per plan and
nothing enforces it. `ledger` sums the `CreditTransaction` rows, and the history
variable `unwritten` those that could not be created: `recordCreditTx` catches
that failure and its caller goes on (hazard `logFails`). A `job` is one
handler call. Its field `at` says where it is between its awaits, and `ids` is
the snapshot of codes it read. `sweep` is the daily task. Redemption is the
abstraction of `Activation`: `Claim`, then `EndClaim`.

| Code | action |
|---|---|
| `consumeCredit` in generate, renew, transfer and sub-reseller creation | `Deduct` |
| `generateCodes` and its failures | `Generate`, `GeneratePartly`, `Throw` |
| transfer: `$inc`, then `$push` if nothing matched | `SpendCredit`, `FindNoEntry`, `SpendAndThrow` |
| refund in the handlers' catch blocks | `Refund`, `RefundThrows` |
| `returnUnusedCreditForReseller`: snapshot, revoke, recount, pay | `ReturnRead`, `ReturnFlip`, `ReturnRecount`, `ReturnPay`, `ReturnPush`, `ReturnThrows` |
| `expireStaleCodesAndReturnCredit` | `SweepRecover`, `SweepRead`, `SweepFlip`, `SweepRecount`, `SweepPay`, `SweepPush`, `SweepLog`, `SweepEnd` |
| `PUT /admin/resellers/:id` with `cleanCredit` | `EditRead`, `EditWrite` |
| `recordCreditTx` | `Record`, in `Log` and `SweepLog` |
| `expireStaleCodes` (admin list) | `ListExpire` |

### Payments

`status`, `code`, `owner` and `stale` are the `Payment` document. Every write of
it sets `updatedAt`, which doubles as claim token. The model keeps the
information the fence uses: whether `updatedAt` is still the one a trigger got
from its claim (`owner`), and whether it is five minutes old (`stale`).
`gateway` and `events` are the environment: what the gateway knows, and the
webhooks it has to deliver until each is acked with 2xx. A trigger is one
webhook or poll in flight, in whichever process.

| `routes/payments.js` | action |
|---|---|
| checkout handlers | `Checkout` |
| webhooks (294, 534), polls with `reconcilePayment` (359) | `ChargilyWebhook`, `CinetpayWebhook`, `Poll`, `Ask`, `AskFails`, `Lose` |
| `claimFulfillment` (588), loser's re-read (686) | `Claim`, `ClaimDenied`, `Beaten` |
| `generateCodes`, `finalizeFulfillment` (616) | `Mint`, `Throw`, `Finalize`, `FinalizeLost`, `Discard` |
| `releaseFulfillmentClaim` (631) | `Release` |

`gatewayPaymentMismatch` is the report `"mismatch"`. Signature checks and the
lookup of plan and shop are left out. `Settle` and `Deliver` model the gateway
from how the handlers use it.

### TaskLease

A `ScheduledTaskRun` with status `running` is the lease of the task: a unique
index allows one, its runner refreshes `lockedAt`, and after five minutes without
a refresh somebody else takes the document over. `at` and `mine` are the locals
of each call of `executeTask`, `stale` and `old` say how long ago `lockedAt` and
`startedAt` are, `up` which processes live.

| `services/scheduler-service.ts` | action |
|---|---|
| interval (56), admin trigger (126), pause (16) | `Tick`, `TriggerManually`, `SetTaskEnabled` |
| acquire or reclaim, duplicate key (139-191) | `Acquire`, `Skip` |
| heartbeat (195) | `Heartbeat`, `Stall` when it does not come |
| handler, fenced end of a run (207-275) | `HandlerEnds`, `Complete`, `Fail`, `CompleteFails`, `FailFails` |
| recovery at start (109), death | `Boot`, `Die` |

### DeviceRegistry

`chain` is the promise chain of a user in each process, `lock` the Redis key with
the call whose token it holds, `devices` the `Device` rows. `late` are the calls
at work whose key has expired.

| `services/subscription-service.ts` | action |
|---|---|
| `withDeviceLock` (30-77) | `Register`, `MyTurnNoRedis`, `Lock`, `Busy`, `Release`, `ReleaseFails`, `LockExpires`, `LockLost` |
| `registerDevice` (286-341) | `Find`, `Touch`, `ReadLimit`, `CountDevices`, `Create` |
| an admin deletes a device (`routes/admin.js:897`) | `DeleteDevice` |

Without a subscription the limit is 0, which is no cap. A call that does not get
the lock in time throws, and the route answers 500: its BUSY branch is never
reached.

### StreamSessions

`order` is the sorted set of a user, oldest first, `key` the sessions whose key
lives, `token` those a client can still resume. Every Redis command is an action;
with `scripted` the decision is one (the script), else it is spread over
`Count`, `Oldest`, `Compare`, `Evict`, `Unlist`, `Add`, `SetKey`.
`ListMembers`, `CheckMember` and `RemoveMember` are the pruning before it,
`Decide` and `Respond` the script and its answer. `Authorize`, `PreIssue`,
`Resume` and `Look` are the callers in `routes/tv.js`. `Revoke` and
`RevokeMember` are the admin's disconnect, after which a client with a token may
register again: it is not a ban. A resume is limited by
`MAX_CONCURRENT_STREAMS_PER_USER`, not by the plan.

### SubscriptionLife

`state`, `until` and `boundTo` are the `Subscription` rows, `planOf` and
`redeemed` the codes, `credit` the reseller's. A `job` is a request with the
expiry it read. `served`, `paid` and `gift` are history: days given, days
paid, and days written by a request that was refunded. `owed` is the day to which
the last payment runs: a period follows what was paid before, and one of a change
of plan starts on that day.

| Code | action |
|---|---|
| renew (`routes/reseller.js:1018`), change plan (1100) | `ReadRow`, `Charge`, `Extend`, `ExtendFails`, `ExtendAstray`, `ChangePlan` |
| suspend, reactivate (1192-1238) | `SetState` |
| `redeemCode` (`subscription-service.ts:193`) | `Redeem`, `RedeemExtends`, `RedeemCreates` |
| `markExpiredSubscriptions` (`ops-report-service.ts:233`) | `MarkExpired` |
| the clock | `DayPasses` |

Change-plan sends its two writes, of the row and of the code's plan, in one
`Promise.all` (1146). If one fails, the other may be applied all the same, before
or after the refund. So `ExtendFails` refunds, writes the plan or not, and either
leaves the row alone (`writeFails`) or leaves its write under way (`halfWrite`),
to be applied by `ExtendAstray`. A renewal whose write took effect though its
answer was lost is the same case.

Suspend, redeem a second code, reactivate: this gives two ACTIVE rows, which the
comment of `redeemCode` excludes. Change-plan adds the new period to the
remaining days (1145), which its comment forfeits: "the remaining days of the old
plan are forfeited" (1108). `DaysArrive` asks only for what both agree on, the days
of the new plan.

### ClientRedeem

`phase` is where each `POST /activation/client-redeem` is; `users`,
`subscribers`, `withDevice`, `ledger` and `letIn` are the rows that exist for each
throwaway account. `Replay`, `ReplayDevice`, `Enter` are the handler's path for a
device that has redeemed before; `CreateAccount`, `ClaimCode`, `AddDevice`,
`Refuse`, `Subscribe`, `ActivateCode`, `BookRedemption` the redemption;
`ClaimThrows`, `RedeemThrows`, `CatchRestore` its failures; `ReleaseCode`, `Verify`, `RemoveSubscription`, `RemoveDevice`,
`RemoveLedger`, `DeleteAccount`, `UndoFails` the compensation
(`routes/activation.js:87-157`), each step of which may fail. `RecoverClaim` is
the daily task, `LateWrite` a write the database applies after its client gave
it up. `Book` is `recordRedemption`, which swallows its own failure.

`CatchRestore` writes ACTIVATING whatever the code is by then
(`subscription-service.ts:243`). After a throw past the code write, the release
and the read-back of the compensation look for ACTIVATED and find nothing, so the
account is deleted while `activatedBy` still names it. The code is a claim again:
the daily task frees it, and until the next activation it goes on naming an
account that is gone. `NoDanglingCode` is about ACTIVATED codes, which let a
client in.

### CatalogSync

One source (`sourceKind`) with channels and titles; `active` and `present` are
the documents, `stage`, `listing`, `counted` the locals of each sync, `snapshot`
and `chunks` the `SyncSnapshot` documents, `restore` the rollbacks.

| Code | action |
|---|---|
| `syncXtreamSource`, `syncM3USource` | `Check`, `Start`, `Fetch`, `Upsert`, `CountChannels`, `CountTitles`, `PruneChannels`, `PruneTitles`, `SaveIdle`, `SyncThrows`, `SaveError`, `SyncDies` |
| `createSyncPreview`, `markSnapshotApplied` | `Preview`, `WriteChunk`, `MarkSnapshotApplied` |
| `decideCatalogPrune` | `Plausible` |
| `rollbackSyncSnapshot` | `FindSnapshot`, `DeactivateAll`, `RestoreChannel`, `MarkRolledBack`, `RollbackFails` |
| `runCatalogCleanup`, an admin | `Hide` |

An M3U source has no prune guard; a rollback restores channels only; a crash in
a sync leaves `syncStatus` at `syncing`, which nothing resets. A comment
(`xtream-service.ts:1189`) says that upserts keep an operator's deactivation, but
`upsertChannel` sets `isActive` to true.

### Recording, SourceWatchdog, TvPairing

`Recording`: `row` is in the database, `activeJobs` in memory, `files` on disk.
`CheckRoom`, `LookForRow`, `CreateRow`, `Spawn` are `startRecording`, whose checks
precede its awaits, so that two starts may both pass. `SpawnThrows` is `mkdirSync`
(164) or `spawn` (174) throwing after the row was created: nobody handles the
rejection, the row stays at `recording` (stage `stuck`) and blocks its channel
until it is deleted. `Capture`, `CaptureEnds`,
`FindRow`, `Remux`, `UnlinkCapture`, `SaveEnd`, `SaveThrows` are the capture and
`finalize`; `Kill`, `FindDeleted`, `UnlinkMp4`, `UnlinkTs`, `DeleteRow` are
`deleteRecording`.

`SourceWatchdog`: `verdict` is in the database and `consecutiveVerified` in the
memory of each process. `ReadSource`, `ProbeSource`, `WriteVerdict` are one source
in one run of `runSourceWatchdog`; `VerifyStarts`, `VerifyEnds` and
`ChangeCredentials` are the other writers. The first good probe of a `pending`
source stores `unknown`, which is outside the enum of `models/XtreamSource.ts:80`.

`TvPairing`: `request`, `linked` and `overdue` are the rows. `DrawPin` and
`SaveRequest` are the request, `AskStatus` and `TvMarksExpired` the poll,
`FindRequest`, `OwnerMarksExpired`, `LinkOwner`, `AnswerOwner` the confirmation,
`RowExpires` the TTL index.

### PlayerRecovery

`ErrorRecoveryManager.kt` with what `PlayerViewModel.kt` and `PlayerScreen.kt` make
of it. `slots`, `slot`, `attempt` and `total` are the ladder, `job` is
`reconnectJob`, `probes` the verdicts that wait for `probeEmptyPlaylist`,
`leftovers` the cancelled requests that have yet to answer. `Press`, `Show` and
`ShowFails` are a zap; `PrepareBegins`, `PrepareEnds`, `PrepareFails`,
`LateFailure` the effect that prepares a channel; `Stalls`, `Breaks`,
`Unresponsive`, `ParseError`, `NetworkError`, `OtherError` what goes wrong;
`JobSteps`, `Answered`, `NotAnswered`, `JobPrepares`, `LateNull` the reconnect;
`ProbeAnswers` the late verdict. `requestPlaybackUrl` catches its own
cancellation and answers null, so a fast zap reports "Invalid stream URL" on the
new channel and a cancelled job goes on; one lost answer ends the ladder.
Playback by the server's tokens is modelled, the other branches are not.

## What TLC checks

| Run | Shows | Instance and time |
|---|---|---|
| `activation_claims` | `OneMintPerCode`, `OpenMeansUnpaid`, `OneActiveRow`, `PaidDaysKept`, `ActivatedIsFinal`, refinement of `RedeemOnce` (`KeepsPromise`): three calls, two of one account, contend for two codes of different length, one of which expires; an admin between read and write, days that pass, rows that lapse, early exceptions | 1,821,728 states, 2 min |
| `activation_faults` | `ActivatedMeansPaid`, and `ClaimsResolve` under fairness, with every hazard | 125,706 states, 30 s |
| `activation_hand_back` | **violation** of `FailureHandsBack` | |
| `credit_conserved` | `TypeOK`, `Conserved`, `ReturnedOnce`, `FlippedIsPaid`, `LedgerAddsUp`, `CreditUsable`: three handlers of any kind, the daily task, redeems and admin writes, a ledger row that is not created | 1,089,067 states, 2 min |
| `credit_losses` | `NoFreeCredit` through crashes, failing refunds and returns, half writes; `LapsedCodesPayBack` under fairness | 752,554 states, 2 min |
| `credit_listing` | **violation** of `LapsedPaysBack` | |
| `sales_safe` | `NoOrphan`, `PaidHasCode` (payments): three triggers, crashes, stalls, failures, second attempts; `NoFreeDays`, `DaysArrive` (subscriptions): two requests of any kind on two rows, overlapping, failing, and failing though they wrote | 2,398,732 states, 2.5 min |
| `payments_live` | `NeverStranded`, refinement of `Purchase` (`IssuesOnce`), `CapturedGetsCode` under fairness | 54,194 states, 1 min |
| `payments_release_race` | **violation** of `CapturedGetsCode` | |
| `services_safe` | `NoOverlap`, `LiveRunShown` (scheduler), `CapHolds`, `AloneInTime` (devices), `LimitHolds`, `StillWatching` (sessions), `PruneKeepsHalf`, `RollbackUndoes` (catalogue) | 1,556,694 states, 1.5 min |
| `services_live` | `NoDanglingCode`, `HolderIsSubscribed`, `NothingLeftBehind` (client redeem), `RowsMatchDisk` (recording), `PairingAgrees`, `DeadAfterAllTried` (player), `RecoversSlowly` (watchdog); under fairness `TaskRunsAgain`, `EveryCallAnswers` | 657,416 states, 3 min |
| `catalog_relist` | **violation** of `NeverEmptied` | |

The components of `sales_safe`, those of `services_safe` and those of
`services_live` share no
variable, so an interleaving of two of them shows nothing that one of them does
not. The variable `part`, chosen by Init, says which one moves; the others keep
their initial values. The run is the union of the components' state spaces, and
not their product.

### Bounds

*Activation.* `MaxNow` 2 bounds the clock, against codes that run for one and two
days and one that expires at once, so that rows lapse and codes expire within the
run. `MaxAdmins` bounds admin handlers in flight. Each call is used once, so two
or three calls are all the redeems there are. Three calls make a winner, a loser
and a third that comes after a recovery. Two accounts tell "another call" from
"another customer".

*ResellerCredit.* `MaxCode` is 2 and `MaxQty` 2: a request for two codes, or two
requests for one. A snapshot of two codes can lose one to a redeem and flip the
other. Two resellers suffice for transfers, one of them without an entry, which
is the case in which `$inc` finds nothing. Three jobs are two that race and one
that comes later. The variable `trouble` bounds the failures of a behaviour: it
meets writes that count as failed though they took effect (`half`), or failures
that may lose credit (`loss`), never both. The rows that are not created are
those of one call of a behaviour. `SoundSpec`, the specification of
`credit_losses`, asks for fairness only while no credit has been lost.

*Payments.* `MaxFaults` bounds failures, crashes and stalls; every failed attempt
uses up a code, so the number of codes exceeds it. With three triggers there is
a stalled winner, a taker-over and a loser. In `sales_safe` the codes are numbers,
minted in order (`MintedInOrder`), since one is like the other.

*Services.* Two processes, with two calls on one and one on the other, tell "another
call of this process" from "another process", which is what a PROCESS_ID and a
local queue distinguish. `MaxLeaseFaults` 2 is a failure and one more during its
recovery. `MaxDevices` 1 with two devices, and `PlanMax` 1, `EnvMax` 2 with three
sessions on two devices, are the smallest limits that can be passed and that
differ. `MaxOccurred` 1 allows one event of the environment per behaviour. Three channels are the fewest of which a prune may
take one and not two. The player's `FirstTries` 3 and `MaxFallbackSlots` 4 are
the code's; one channel has all four slots and one has a single one with a
proxy; two presses zap away and back. `Bounded` in `MCServicesSafe` lets the third
session play under the usual configuration only, and one request at a time use a
store without scripts, of which no property asks anything.

*SubscriptionLife.* `MaxRow` 2, `MaxDay` 1 and plans of one and two days let rows
lapse and be extended before and after. Two requests are one that reads and one
that writes in between. `MaxBefell` 1 allows one kind of event in a behaviour, as
often as it likes; a refunded extension that is written happens once. The two
activation codes start alike, so the first is redeemed before the second
(`RedeemedInOrder`).

Nothing else is bounded, and no run has a state constraint. Deadlock is not
checked, because each system may really stop: all calls used, all codes spent.
Symmetry is used only over interchangeable values, and never in a run with a
liveness property.

### Fairness

Assumed is only this. The event loop resumes the continuation of a request in
flight. The scheduler's intervals fire, and it starts the daily task again. Time
passes: claims, locks and keys age. A process that died is started again. The
gateway repeats a webhook until it is acked, which is what the code's "No ACK on
purpose" relies on. No fairness is assumed of a customer, an admin, a poll or a
fault.

In `LiveSpec` this is weak fairness of `GoesOn`, `LockAges` and `Boot` for the
scheduler, and of `Continue` and `LockExpires` for the registry. In `Payments`
steps and deliveries are strongly fair: `Release` can be held off by the exclusion
of the hazard `releaseRace`, and strong fairness keeps the exclusion from
postponing it for ever; delivery is strong because polls may occupy the triggers
in between.

### The frontier

Each property holds in its run with the hazards of its configuration. Adding the
hazard on the left to the set `Hazards` of that configuration makes TLC find the
property violated (alone or after another one that the same event breaks). Where
a comment of the code promises the property all the same, the table quotes it.

| Hazard added | to | breaks | because |
|---|---|---|---|
| `lateThrow` | `ActivationClaims` | `ActivatedIsFinal` | the catch block writes ACTIVATING over ACTIVATED; the daily recovery then frees a paid code. "its catch block releases a still-ACTIVATING claim" (`routes/activation.js:46`) |
| `lateCrash` | `ActivationClaims` | `OneMintPerCode` | the subscription is written, the code is not, and recovery frees the code |
| `slow` | `ActivationClaims` | `OneMintPerCode` | recovery frees the claim of a redeem that still runs. "two concurrent redeems of the same code can never both mint a subscription" (`subscription-service.ts:123`) |
| `adminRace` | `ActivationClaims` | `ActivatedIsFinal` | `revokeCode` saves by `_id` a status it read before |
| `overlap` | `ActivationClaims` | `OneActiveRow` | two redeems of one account both find no ACTIVE row |
| `sweepRace` | `ActivationClaims` | `PaidDaysKept` | the row read is marked EXPIRED before it is extended, and the extension does not set its status |
| `overlap` | `CreditConserved` | `ReturnedOnce` | each of two returns counts the codes the other revoked. "never from the pre-read snapshot" (`subscription-service.ts:546`) |
| `editRace` | `CreditConserved` | `LedgerAddsUp` | an absolute write over a deduction, logged as a delta |
| `returnFails` | `CreditConserved` | `FlippedIsPaid` | codes revoked, credit not restored, and a retry finds nothing unused |
| `pushRace` | `CreditConserved` | `CreditUsable` | two `$push`es leave two entries, and a deduction wants one |
| `restorePaid` | `CreditConserved` | `ReturnedOnce` | an admin restores a code whose credit went back |
| `adminRace` | `CreditConserved` | `ReturnedOnce`, `FlippedIsPaid` | an admin writes codes between a handler's update and its recount |
| `crash`, `refundFails` | `CreditConserved` | `Conserved` | deducted credit is gone (`NoFreeCredit` still holds) |
| `halfWrite` | `CreditConserved` | `Conserved`, `LedgerAddsUp` | an insert that took effect and then failed is refunded. "a generation that already minted codes must never be refunded" (`routes/reseller.js:445`) |
| `lateRedeem` (in place of `listing`) | `CreditListing` | `LapsedPaysBack` | a redeem marks the lapsed code EXPIRED and the daily task no longer sees it |
| `orphan` | `SalesSafe` | `NoOrphan` | a failure between storing a code and storing `paid` leaves a valid code nobody was given |
| `secondAttempt` | `PaymentsLive` | `NeverStranded` | a late `payment.save()` writes `failed` over captured money |
| `legacy` | `SalesSafe` | `PaidHasCode` | rows stored before the code and `paid` were one write |
| `overlap` | `WatchdogHazards` of `ServicesLive` | `RecoversSlowly` | two runs read one verdict, and the later one writes over what it did not see. "TWO consecutive verified probes" (`source-failover-service.ts:46`) |
| `elsewhere` | the same | `RecoversSlowly` | a process adds a probe to a streak that another process has ended |
| `overrule` | the same | `RecoversSlowly` | a verification marks the source down, the streak goes on |

`NoFreeCredit` excepts behaviours with a `halfWrite`, which credit_losses does
contain. The components below contain their events, and their properties name
those they except. Without the exception TLC finds each of them violated (the two of the
sessions once the bound `Bounded` is lifted as well; `PruneKeepsHalf` with `relist`
in the instance of `catalog_relist`):

| Property | excepts | because |
|---|---|---|
| `NoOverlap` | `stall`, `longRun` | a live runner that does not refresh its lock is taken over; a start ends every run older than four hours |
| `LiveRunShown` | `ownReclaim`, `longRun` | the fence at the end of a run names the process and not the call |
| `CapHolds` | `slow`, `noRedis`, `unsubscribed` | the lock expires under its holder; without Redis each process has its own; without a subscription there is no cap |
| `AloneInTime` | calls in `late` | as `slow` |
| `LimitHolds`, `StillWatching` | a store without scripts; policy `evict` (the latter) | count and insert are separate commands; eviction is meant |
| `NoFreeDays` | the days in `gift` (`halfWrite`) | a change of plan, or a renewal, is refunded and extends the row all the same |
| `LedgerAddsUp` | the rows in `unwritten` (`logFails`) | `recordCreditTx` swallows the failure, and credit has moved without its row |
| `DaysArrive` | `overlap` | an absolute expiry is written over one that was not read |
| `NoDanglingCode`, `HolderIsSubscribed` | `lateWrite` | the code names an account that is gone already |
| `NothingLeftBehind` | `replay` (devices and sessions) | a retry is let in with an account that is being undone |
| `PruneKeepsHalf` | `overlap`, `duplicate`, `merge`, `hide`, `relist`; M3U sources | the guard compares numbers of what was listed and of what is active; with two titles `relist` is the finding |
| `RollbackUndoes` | rollbacks not in `alone` | a sync writes between its steps |
| `RowsMatchDisk` | recordings in `marred` | a deletion before the end is saved leaves the .mp4, a crash leaves the row at `recording` |
| `RowsMatchDisk` | recordings that are `stuck` (files only: they have none) | a capture that could not start leaves the row at `recording` |
| `PairingAgrees` | televisions in `blurred` | a shared PIN, two users at once, an expiry during the confirmation |
| `DeadAfterAllTried` | `upset` channels | a lost answer, a late verdict or null of an earlier channel |

### Findings

1. `FailureHandsBack`: the catch block of `redeemCode` does not hand the code
   back (`subscription-service.ts:243`); see `CatchRestore` above. After any
   failure past the claim the customer cannot retry until the daily recovery.
2. `LapsedPaysBack`: the admin code list runs `expireStaleCodes`, which marks
   lapsed codes EXPIRED without returning credit, and the daily task looks only
   at UNUSED ones (`subscription-service.ts:432`).
3. `CapturedGetsCode`: a webhook that loses the claim re-reads the status. If the
   winner has failed and released the claim meanwhile, it reads `pending`, calls
   that `settled` and acks (`payments.js:693`). The gateway stops retrying and
   the captured payment waits for a poll that may never come.
4. `NeverEmptied`: the prune guard compares the number of titles the provider
   listed with the number that is active, but a title that was pruned and is
   listed again stays inactive (`$setOnInsert`, `xtream-service.ts:769`) and
   counts all the same (1206). One short answer lists one of two titles, the next
   lists the other, and none is active. "it may only proceed while the fetched
   list still resembles the source's existing catalog"
   (`catalog-prune-guard.ts:14`).

## What TLAPS proves

Every safety property and every refinement that a passing run checks, for any
number of codes, accounts, calls, processes, sessions, channels and faults, from
the `ASSUME`s of the modules alone (finite sets, positive durations and limits,
`None` and `Nobody` distinct from the rest). The condition in the last column is
the hazards the theorem excludes; where it is empty the theorem holds with every
event of the module, and the property itself names what it excepts. Adding
any one hazard of a condition makes TLC find the property violated, with four
exceptions, where the theorem excludes more than TLC can show to be needed because
it shares its invariant with others: `lateCrash` for `ActivatedStays`,
`sweepRace` for `OneRow`, `overlap` and `restorePaid` for `NoneForgotten`.

| Module | Theorem | Statement | Condition |
|---|---|---|---|
| `ActivationProofs` | `TypeCorrect` | `[]TypeOK` | |
| | `PaidCodesNeverBurnt` | `[]ActivatedMeansPaid` | |
| | `OneMint`, `OpenIsUnpaid`, `ActivatedStays` | `[]OneMintPerCode`, `[]OpenMeansUnpaid`, `ActivatedIsFinal` | `Calm` |
| | `Implements` | `KeepsPromise`: refinement of `RedeemOnce` | `Calm` |
| | `RowInvariant`, `OneRow`, `PaidDays` | `[]RowInv`, `[]OneActiveRow`, `[]PaidDaysKept` | `RowCalm` |
| `CreditProofs` | `CreditIsTyped` | `[]TypeOK`: credit never below zero | |
| | `CreditGoesBackOnce` | `[]ReturnedOnce` | `OnceCalm` |
| | `NoneForgotten` | `[]FlippedIsPaid` | `PaysCalm` |
| | `CreditStaysUsable` | `[]CreditUsable` | no `editRace`, `pushRace` |
| | `LedgerBalances` | `[]LedgerAddsUp` | `LedgerCalm` |
| | `CreditNeverMade` | `[]NoFreeCredit` | `MoneyCalm` |
| | `CreditIsConserved` | `[]Conserved` | `CostCalm` |
| `PaymentsProofs` | `TypeCorrect` | `[]TypeOK` | |
| | `Implements` | `IssuesOnce`: refinement of `Purchase` | |
| | `PaidShowsCode` | `[]PaidHasCode` | no `legacy` |
| | `NoneLeftOver` | `[]NoOrphan` | no `orphan` |
| | `NeverLost` | `[]NeverStranded` | no `secondAttempt` |
| `TaskLeaseProofs` | `LeaseInvariant`, `TaskRunsOnce`, `LiveRunKept` | `[]LeaseInv`, `[]NoOverlap`, `[]LiveRunShown` | |
| `LimitProofs` | `RegistryInvariant`, `OneAtATime`, `CapIsKept` | `[]RegistryInv`, `[]AloneInTime`, `[]CapHolds` | |
| | `SessionsWithinLimit`, `ViewersKeepWatching` | `[]LimitHolds`, `[]StillWatching` | |
| `SubscriptionLifeProofs` | `LifeInvariant`, `NoDayIsFree`, `PaidDaysArrive` | `[]LifeInv`, `[]NoFreeDays`, `[]DaysArrive` | |
| `CatalogSyncProofs` | `CatalogInvariant`, `RollbackRestores`, `PruneIsBounded` | `[]CatalogInv`, `RollbackUndoes`, `PruneKeepsHalf` | |
| `ServiceProofs` | `ClientInvariant`, `CodeNeverDangles`, `HolderKeepsSubscription`, `CompensationLeavesNothing` | `[]ClientInv`, `[]NoDanglingCode`, `[]HolderIsSubscribed`, `[]NothingLeftBehind` | |
| | `RowsAndFilesAgree` | `[]RowsMatchDisk` | |
| | `PairingStands` | `[]PairingAgrees` | |
| | `ExhaustedMeansTried` | `[]DeadAfterAllTried` | |
| | `ComesBackSlowly` | `RecoversSlowly` | `WatchdogHazards = {}` |

| Condition | excludes the hazards |
|---|---|
| `Calm` | `lateCrash`, `lateThrow`, `slow`, `adminRace` of `Activation` |
| `RowCalm` | `overlap`, `sweepRace` of `Activation` |
| `OnceCalm` | `overlap`, `restorePaid`, `adminRace` of `ResellerCredit` |
| `PaysCalm` | those of `OnceCalm`, `returnFails`, `crash` |
| `LedgerCalm` | `editRace`, `pushRace`, `halfWrite`, `refundFails`, `returnFails`, `crash`, and the handler `allot` |
| `MoneyCalm` | those of `OnceCalm`, `editRace` |
| `CostCalm` | those of `MoneyCalm`, `pushRace`, `halfWrite`, `refundFails`, `crash` |

`LedgerCalm` leaves `allot` out because an allotment writes a ledger row for the
new account only, and not for the one that pays: with it the ledger does not add
up in any run.

**Codes.** `ActivatedMeansPaid` is not inductive: `ActivateCode`
needs to know that its call has paid. `MintedFirst` adds it: a call at `minted`
is in the history of payments. No step undoes a payment, and no other step
writes ACTIVATED or `activatedBy`. For `OneMint` and its company `ClaimInv` says
who may write a code. A call that writes holds the claim (`HoldsClaim`:
ACTIVATING and not stale), and holds it alone (`Alone`). The calls that have paid
are those past the write (`PaidIsPast`), and one that went past the code write
left it ACTIVATED (`DoneIsActivated`). Recovery touches only stale claims, and
everyone else only codes that nobody holds. The refinement follows: the writes of
a subscription are `Spend`, and every other step keeps, voids or reopens an
unspent code. For the rows, `RowInv` says that one call at a time works for an
account (`Exclusive`), that what it read is still so when it writes (`StillSo`),
and that an ACTIVE row runs to the day paid for while an account without one has
used up what it paid for (`PaidUp`).

**Credit.** `OnceInv` follows a return and the daily task through their phases. What a
return has counted and means to pay for is unpaid (`ReturnHas`) and belongs to no
other return (`ReturnsApart`), and what the daily task still means to pay has not
been paid (`SweepHas`). `Owed`
turns this around for `NoneForgotten`: a code that was taken out of use and not
paid back is still in the hands of the return or the task that took it. For types and amounts,
`Accounts` bounds what each job carries, and `EntryInv` says who may touch an
entry: an admin edit works alone (`EditAlone`), who spent has an entry to be
refunded to (`SpenderHasEntry`), and there is one entry (`OneEntry`). `LedgerInv`
makes `LedgerAddsUp` inductive: the entries equal what was booked, that is the
ledger and the rows that were not created, plus what handlers (`Unlogged`) and the daily task (`SweepDelta`) have moved and not yet logged.
`Surplus` is what is accounted for beyond what was granted: credit held, coded,
on its way and used for renewals, less the grants. No step increases it, and
none changes it unless a failure loses credit. For the latter `Booked` is needed:
codes enough are left for every request that has paid, so that none is charged
for codes it cannot get. All of these are sums over sets of any size. What a sum
does when one summand changes is proved from a least counterexample in the
well-founded order of finite subsets, since the induction theorems themselves
are out of reach.

**Payments.** `Ledger` says where a code can be: with the one trigger that minted
it, or in the payment (`HeldOnce`). A waiting payment shows none
(`WaitingHasNone`), and who mints was told of a payment that was captured
(`ToldTheTruth`). Fences do the rest: `Finalize` writes only while the row is
`processing`, hence without a code. `NoneLeftOver` adds `Accounted`, by which
every stored code is in one of those places, and `NeverLost` adds `OneWord`, by
which reports, events and the gateway agree.

**Locks and limits.** `LeaseInv`: one document is running, and without stalls
whoever is in flight holds it and is alone (`HoldersAlone`); with stalls, the
last one to acquire a document still holds it unless its own process reclaimed it
(`LastHolds`).
`RegistryInv`: a call at work is the first of its process and, in time, holds the
key (`HolderHasLock`), so that what it counted is still so when it inserts
(`CountStands`). `LimitHolds` is inductive with the shape of the sorted set,
because the script decides and writes at once. `StillWatching` is not: pruning
acts on old lookups. `Admission` adds that every member, listed or looked up,
has its key or is `Gone`, that is replaced, revoked, or without a token and
without a request that would bring it back; a member that is gone never again
belongs to an admitted viewer.

**Days and catalogue.** `WithinWorth`: neither a row nor the expiry that a request
read earlier has more to give than its worth, the days paid or written for nothing
and not yet used; that covers every stale write at once, the astray ones too. `CatalogInv`: while one writer is at work what was listed is active
(`ListedIsActive`) and the verdict the guard gave still holds (`VerdictStands`);
a snapshot and a rollback know the channels that were active (`SnapshotTells`,
`RollbackTells`).

**Smaller services.** `ClientInv` says for each phase of the compensation what is
undone so far (`UndoneSoFar`), and that the account which holds an ACTIVATED code
has its rows and is at no step that removes them (`HolderStands`). Only the release
and the catch block end that state before the account is deleted.
`RecordingInv`, `PairingInv` and `WatchdogInv` describe each phase of a handler
likewise. `PlayerInv` follows the ladder: all URLs below the player's place have
been tried, and the attempts counted are not more than lead there (`Ladder`), or
every URL has been tried (`AllTried`). The counter of attempts alone would not
do, as the number of attempts allowed grows with every slot the server adds midway.

Only model-checked: the liveness properties `ClaimsResolve`,
`LapsedCodesPayBack`, `CapturedGetsCode`, `TaskRunsAgain` and `EveryCallAnswers`,
since neither fairness nor ENABLED is in the prover's reach; and the four
violations, which are counterexamples.

## Not modelled

- *Panel request queue, bounded batches*: a promise chain per panel and a loop
  over batches, whose order holds by their shape; no state outlives a call.
- *External source and iptv-org caches*: single-flight, stale-while-revalidate
  reads; a stale answer is what the code promises.
- *Playback and upstream proxy*: stateless checks and byte streaming; the state
  that matters is in the stream sessions.
- *Accounts, sessions and tokens*: hashing, mail and OAuth are external, and a
  refresh revokes one row and inserts another.
- *Debts, programme guide, notifications, reports, metrics, web frontend, relay*:
  bookkeeping by hand, parsing, output, pages, network.

Within the modelled parts: what `generateCodes` draws and hashes, batches,
prices and permissions, change-plan's second plan, codes sold online on behalf of
a shop (they carry its `resellerId`, so their return or expiry credits a shop
that spent none: listed as a hazard), admin edits of subscriptions and of titles,
parsing and merging of catalogues, the probes and the choice of a backup, request
validation and rate limits. MongoDB is taken to acknowledge majority writes: the
loss of an acknowledged write is outside the models, but for `LateWrite`.
