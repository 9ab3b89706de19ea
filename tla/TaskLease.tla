------------------------------ MODULE TaskLease -----------------------------
(***************************************************************************)
(* Runs of one scheduled task by several server processes:                 *)
(* services/scheduler-service.ts over the ScheduledTaskRun documents.  A   *)
(* document with status "running" is the lease of the task.  A unique      *)
(* index allows one, its runner refreshes lockedAt, and after five minutes *)
(* without a refresh another run takes the document over.                  *)
(*                                                                         *)
(* Processes start and die; PROCESS_ID is new at every start, so no later  *)
(* process is the one a dead process's document names.                     *)
(***************************************************************************)
EXTENDS Integers, FiniteSets

CONSTANTS
  Proc,          \* server processes, each with its PROCESS_ID
  Attempt,       \* calls of executeTask that can be in flight
  ProcOf,        \* the process that makes each call
  Run,           \* ScheduledTaskRun documents of the task
  MaxLeaseFaults,\* bound of the events of LeaseHazard
  Unowned        \* a PROCESS_ID no process has any more

LeaseHazard == {
  "crash",      \* a process dies
  "writeFails", \* the database refuses a write that ends a run
  "stall",      \* a live runner does not refresh its lock for five minutes
  "ownReclaim", \* ... and its own process takes the run over, perhaps later
  "longRun"}    \* a handler works for more than four hours

ASSUME ProcOfAssumption == ProcOf \in [Attempt -> Proc]
ASSUME RunAssumption == Run # {}
ASSUME LeaseFaultsAssumption == MaxLeaseFaults \in Nat
ASSUME UnownedAssumption == Unowned \notin Proc \cup Attempt \cup Run

VARIABLES
  up,       \* the processes that are running
  enabled,  \* the AppSetting that an admin pauses the task with
  at,       \* where each call is
  mine,     \* the document each call works under
  status,   \* ScheduledTaskRun.status; "none" before the insert
  lockedBy, \* ScheduledTaskRun.lockedBy
  runner,   \* history: the call that acquired the document last
  stale,    \* documents whose lockedAt is older than LOCK_TTL_MS
  old,      \* documents whose startedAt is more than four hours ago
  happened, \* history: the events of LeaseHazard that have happened
  faults    \* and how many

document == <<status, lockedBy, runner, stale, old>>
leaseVars == <<up, enabled, at, mine, document, happened, faults>>

InFlight == {"running", "ending", "failing"}

LeaseTypeOK ==
  /\ up \subseteq Proc /\ enabled \in BOOLEAN
  /\ at \in [Attempt -> {"idle", "due"} \cup InFlight]
  /\ mine \in [Attempt -> Run \cup {Unowned}]
  /\ status \in [Run -> {"none", "running", "completed", "failed"}]
  /\ lockedBy \in [Run -> Proc \cup {Unowned}]
  /\ runner \in [Run -> Attempt \cup {Unowned}]
  /\ stale \subseteq Run /\ old \subseteq Run
  /\ happened \subseteq LeaseHazard /\ faults \in 0 .. MaxLeaseFaults

LeaseInit ==
  /\ up = Proc /\ enabled = TRUE
  /\ at = [a \in Attempt |-> "idle"]
  /\ mine = [a \in Attempt |-> Unowned]
  /\ status = [r \in Run |-> "none"]
  /\ lockedBy = [r \in Run |-> Unowned]
  /\ runner = [r \in Run |-> Unowned]
  /\ stale = {} /\ old = {}
  /\ happened = {} /\ faults = 0

-----------------------------------------------------------------------------
(* Helpers.                                                                *)

RunIsAt(a, place) == at' = [at EXCEPT ![a] = place]

LeaseFault(kind) ==
  /\ faults < MaxLeaseFaults
  /\ faults' = faults + 1 /\ happened' = happened \cup {kind}

Calm == UNCHANGED <<happened, faults>>

(* The calls that work under document r, as they think.                    *)
Working(r) == {a \in Attempt : at[a] \in InFlight /\ mine[a] = r}

(* Those whose heartbeat refreshes it.                                     *)
Beating(r) == {a \in Working(r) : lockedBy[r] = ProcOf[a]}

(* Mutants: a stale lock is never taken over, or it need not be stale.     *)
ReclaimableNever(r) == FALSE
ReclaimableFresh(r) == status[r] = "running"

(* A document the filter of the acquisition matches.                       *)
Reclaimable(r) == status[r] = "running" /\ r \in stale

(* An identifier for a new document.  A run that has ended and that nobody *)
(* writes any more, expires from the history after thirty days.            *)
Fresh(r) == status[r] # "running" /\ Working(r) = {}

-----------------------------------------------------------------------------
(* Timers and admins call executeTask.                                     *)

(* An interval ends: a paused task is skipped.                             *)
Tick(a) ==
  /\ ProcOf[a] \in up /\ at[a] = "idle" /\ enabled
  /\ RunIsAt(a, "due")
  /\ UNCHANGED <<up, enabled, mine, document, happened, faults>>

(* An admin starts the task; a paused one too.                             *)
TriggerManually(a) ==
  /\ ProcOf[a] \in up /\ at[a] = "idle"
  /\ RunIsAt(a, "due")
  /\ UNCHANGED <<up, enabled, mine, document, happened, faults>>

SetTaskEnabled ==
  /\ enabled' = ~enabled
  /\ UNCHANGED <<up, at, mine, document, happened, faults>>

(* findOneAndUpdate with upsert: take over the stale document, or insert   *)
(* one when no document is running.                                        *)
Acquire(a, r) ==
  /\ at[a] = "due"
  /\ \/ Reclaimable(r)
     \/ Fresh(r) /\ \A s \in Run : status[s] # "running"
  /\ IF \E b \in Working(r) : ProcOf[b] = ProcOf[a]
     THEN LeaseFault("ownReclaim") ELSE Calm
  /\ RunIsAt(a, "running")
  /\ mine' = [mine EXCEPT ![a] = r]
  /\ status' = [status EXCEPT ![r] = "running"]
  /\ lockedBy' = [lockedBy EXCEPT ![r] = ProcOf[a]]
  /\ runner' = [runner EXCEPT ![r] = a]
  /\ stale' = stale \ {r} /\ old' = old \ {r}
  /\ UNCHANGED <<up, enabled>>

(* A lock that is held and fresh: E11000, and the call is given up.        *)
Skip(a) ==
  /\ at[a] = "due"
  /\ \E r \in Run : status[r] = "running" /\ r \notin stale
  /\ RunIsAt(a, "idle")
  /\ UNCHANGED <<up, enabled, mine, document, happened, faults>>

(* The interval that refreshes lockedAt while the process owns the run.    *)
Heartbeat(a) ==
  /\ at[a] \in InFlight
  /\ status[mine[a]] = "running" /\ lockedBy[mine[a]] = ProcOf[a]
  /\ mine[a] \in stale
  /\ stale' = stale \ {mine[a]}
  /\ UNCHANGED <<up, enabled, at, mine, status, lockedBy, runner, old, happened, faults>>

-----------------------------------------------------------------------------
(* The handler and the end of the run.                                     *)

(* The handler returns, or throws.                                         *)
HandlerEnds(a) ==
  /\ at[a] = "running"
  /\ \E end \in {"ending", "failing"} : RunIsAt(a, end)
  /\ UNCHANGED <<up, enabled, mine, document, happened, faults>>

(* Mutants: the fence is dropped; a run that ends leaves its document.     *)
OwnsNothing(a) == TRUE

(* The filter of the write that ends a run.                                *)
Owns(a) == lockedBy[mine[a]] = ProcOf[a]

(* The run ends as s if the process still owns the document.               *)
Record(a, s) ==
  /\ RunIsAt(a, "idle")
  /\ mine' = [mine EXCEPT ![a] = Unowned]
  /\ status' = IF Owns(a) THEN [status EXCEPT ![mine[a]] = s] ELSE status
  /\ UNCHANGED <<up, enabled, lockedBy, runner, stale, old>>

(* Completed, or failed when every subtask failed.                         *)
Complete(a) ==
  /\ at[a] = "ending"
  /\ \E s \in {"completed", "failed"} : Record(a, s)
  /\ Calm

Fail(a) == at[a] = "failing" /\ Record(a, "failed") /\ Calm

(* The completion cannot be written: the run is recorded as a failure.     *)
CompleteFails(a) ==
  /\ at[a] = "ending" /\ LeaseFault("writeFails")
  /\ RunIsAt(a, "failing")
  /\ UNCHANGED <<up, enabled, mine, document>>

(* Nor can the failure: the document stays "running" without a heartbeat.  *)
FailFails(a) ==
  /\ at[a] = "failing" /\ LeaseFault("writeFails")
  /\ RunIsAt(a, "idle") /\ mine' = [mine EXCEPT ![a] = Unowned]
  /\ UNCHANGED <<up, enabled, document>>

-----------------------------------------------------------------------------
(* Time, deaths and starts.                                                *)

(* Five minutes without a refresh.                                         *)
LockAges(r) ==
  /\ status[r] = "running" /\ r \notin stale
  /\ Beating(r) = {}
  /\ stale' = stale \cup {r}
  /\ UNCHANGED <<up, enabled, at, mine, status, lockedBy, runner, old, happened, faults>>

(* A busy process or a database that is away: the heartbeat does not run.  *)
Stall(r) ==
  /\ status[r] = "running" /\ r \notin stale
  /\ Beating(r) # {} /\ LeaseFault("stall")
  /\ stale' = stale \cup {r}
  /\ UNCHANGED <<up, enabled, at, mine, status, lockedBy, runner, old>>

(* Four hours pass; a live runner is that slow only with hazard longRun.   *)
StartedLongAgo(r) ==
  /\ status[r] = "running" /\ r \notin old
  /\ IF Beating(r) = {} THEN r \in stale /\ Calm ELSE LeaseFault("longRun")
  /\ old' = old \cup {r}
  /\ UNCHANGED <<up, enabled, at, mine, status, lockedBy, runner, stale>>

Die(p) ==
  /\ p \in up /\ LeaseFault("crash")
  /\ up' = up \ {p}
  /\ at' = [a \in Attempt |-> IF ProcOf[a] = p THEN "idle" ELSE at[a]]
  /\ mine' = [a \in Attempt |-> IF ProcOf[a] = p THEN Unowned ELSE mine[a]]
  /\ lockedBy' = [r \in Run |-> IF lockedBy[r] = p THEN Unowned ELSE lockedBy[r]]
  /\ UNCHANGED <<enabled, status, runner, stale, old>>

(* The filter of recoverStaleRuns.                                         *)
Recoverable(r) == status[r] = "running" /\ r \in old

(* A process starts and fails the runs of long ago.                        *)
Boot(p) ==
  /\ p \notin up
  /\ up' = up \cup {p}
  /\ status' = [r \in Run |-> IF Recoverable(r) THEN "failed" ELSE status[r]]
  /\ UNCHANGED <<enabled, at, mine, lockedBy, runner, stale, old, happened, faults>>

-----------------------------------------------------------------------------

(* What a call does next by itself.                                        *)
GoesOn(a) ==
  \/ Tick(a) \/ Skip(a) \/ \E r \in Run : Acquire(a, r)
  \/ HandlerEnds(a) \/ Complete(a) \/ Fail(a)

LeaseStep(a) ==
  GoesOn(a) \/ TriggerManually(a) \/ Heartbeat(a) \/ CompleteFails(a) \/ FailFails(a)

LeaseNext ==
  \/ \E a \in Attempt : LeaseStep(a)
  \/ \E r \in Run : LockAges(r) \/ Stall(r) \/ StartedLongAgo(r)
  \/ \E p \in Proc : Die(p) \/ Boot(p)
  \/ SetTaskEnabled

LeaseSpec == LeaseInit /\ [][LeaseNext]_leaseVars

-----------------------------------------------------------------------------
(* The inductive invariant.                                                *)

Unhurried == happened \cap {"stall", "longRun"} = {}
Distinguished == happened \cap {"ownReclaim", "longRun"} = {}

(* The unique index: one document is running.                              *)
OneLease == \A r, s \in Run : status[r] = "running" /\ status[s] = "running" => r = s

(* Without stalls whoever is in flight holds the lease, and is alone.      *)
Holds(a) ==
  /\ status[mine[a]] = "running" /\ lockedBy[mine[a]] = ProcOf[a]
  /\ mine[a] \notin stale /\ mine[a] \notin old

HoldersAlone ==
  Unhurried => \A a \in Attempt : at[a] \in InFlight =>
    /\ Holds(a)
    /\ \A b \in Attempt : at[b] \in InFlight => a = b

(* With stalls the last to acquire a document is still the one it names,   *)
(* and no other call of its process works under it.                        *)
LastHolds ==
  Distinguished => \A a \in Attempt : at[a] \in InFlight =>
    /\ runner[mine[a]] = a =>
         /\ status[mine[a]] = "running" /\ lockedBy[mine[a]] = ProcOf[a]
         /\ mine[a] \notin old
    /\ \A b \in Attempt : at[b] \in InFlight /\ mine[b] = mine[a] =>
         a = b \/ ProcOf[a] # ProcOf[b]

LeaseInv ==
  /\ LeaseTypeOK /\ \A a \in Attempt : at[a] \in InFlight => mine[a] \in Run
  /\ OneLease /\ HoldersAlone /\ LastHolds

-----------------------------------------------------------------------------
(* Properties.                                                             *)

(* The task runs once at a time, whatever processes start, die or fail to  *)
(* write, as long as a live runner refreshes its lock within five minutes  *)
(* and ends within four hours.                                             *)
NoOverlap ==
  happened \cap {"stall", "longRun"} = {} =>
    \A a, b \in Attempt : at[a] = "running" /\ at[b] = "running" => a = b

(* A run that is going on, and that no other call has taken over, shows as *)
(* running: the call that lost its lock in a stall does not end it.  Two   *)
(* calls of one process share a PROCESS_ID, which the fence cannot tell    *)
(* apart, and four hours are a start's limit for every run.                *)
LiveRunShown ==
  happened \cap {"ownReclaim", "longRun"} = {} =>
    \A a \in Attempt :
      at[a] = "running" /\ runner[mine[a]] = a => status[mine[a]] = "running"

(* A task that is not paused runs again and again: no crash, no lost write *)
(* and no stale lock stops it for good.                                    *)
RunsAgain == <>[]enabled => []<>(\E a \in Attempt : at[a] = "running")
=============================================================================
