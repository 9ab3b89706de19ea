--------------------------- MODULE TaskLeaseProofs ---------------------------
(***************************************************************************)
(* Theorems about TaskLease, for any processes, calls, documents and       *)
(* bounds.                                                                 *)
(***************************************************************************)
EXTENDS TaskLease, TLAPS

USE ProcOfAssumption, RunAssumption, LeaseFaultsAssumption, UnownedAssumption

-----------------------------------------------------------------------------
(* Types.                                                                  *)

HasRun == \A a \in Attempt : at[a] \in InFlight => mine[a] \in Run

Typed == LeaseTypeOK /\ HasRun

LEMMA FaultType ==
  ASSUME LeaseTypeOK, NEW kind \in LeaseHazard, LeaseFault(kind)
  PROVE  happened' \subseteq LeaseHazard /\ faults' \in 0 .. MaxLeaseFaults
  BY DEF LeaseTypeOK, LeaseFault

LEMMA TypedStep ==
  ASSUME Typed, [LeaseNext]_leaseVars
  PROVE  Typed'
<1> USE DEF Typed, LeaseTypeOK, HasRun, InFlight, RunIsAt, document
<1>1. ASSUME NEW a \in Attempt, Tick(a) \/ TriggerManually(a) \/ Skip(a) \/ HandlerEnds(a)
      PROVE  Typed'
  BY <1>1 DEF Tick, TriggerManually, Skip, HandlerEnds
<1>2. ASSUME NEW a \in Attempt, NEW r \in Run, Acquire(a, r) PROVE Typed'
  <2>1. happened' \subseteq LeaseHazard /\ faults' \in 0 .. MaxLeaseFaults
    BY <1>2, FaultType DEF Acquire, Calm, LeaseHazard
  <2> QED BY <1>2, <2>1 DEF Acquire
<1>3. ASSUME NEW a \in Attempt, Complete(a) \/ Fail(a) PROVE Typed'
  <2>1. PICK s \in {"completed", "failed"} : Record(a, s)
    BY <1>3 DEF Complete, Fail
  <2>2. Calm BY <1>3 DEF Complete, Fail
  <2> QED BY <2>1, <2>2 DEF Record, Calm
<1>4. ASSUME NEW a \in Attempt, CompleteFails(a) \/ FailFails(a) PROVE Typed'
  <2>1. happened' \subseteq LeaseHazard /\ faults' \in 0 .. MaxLeaseFaults
    BY <1>4, FaultType DEF CompleteFails, FailFails, LeaseHazard
  <2> QED BY <1>4, <2>1 DEF CompleteFails, FailFails
<1>5. ASSUME NEW a \in Attempt, Heartbeat(a) PROVE Typed'
  BY <1>5 DEF Heartbeat
<1>6. ASSUME NEW r \in Run, LockAges(r) PROVE Typed'
  BY <1>6 DEF LockAges
<1>7. ASSUME NEW r \in Run, Stall(r) \/ StartedLongAgo(r) PROVE Typed'
  <2>1. happened' \subseteq LeaseHazard /\ faults' \in 0 .. MaxLeaseFaults
    BY <1>7, FaultType DEF Stall, StartedLongAgo, Calm, LeaseHazard
  <2> QED BY <1>7, <2>1 DEF Stall, StartedLongAgo
<1>8. ASSUME NEW p \in Proc, Die(p) PROVE Typed'
  <2>1. happened' \subseteq LeaseHazard /\ faults' \in 0 .. MaxLeaseFaults
    BY <1>8, FaultType DEF Die, LeaseHazard
  <2> QED BY <1>8, <2>1 DEF Die
<1>9. ASSUME NEW p \in Proc, Boot(p) PROVE Typed'
  BY <1>9 DEF Boot
<1>10. ASSUME SetTaskEnabled \/ UNCHANGED leaseVars PROVE Typed'
  BY <1>10 DEF SetTaskEnabled, leaseVars
<1> QED
  BY <1>1, <1>2, <1>3, <1>4, <1>5, <1>6, <1>7, <1>8, <1>9, <1>10
  DEF LeaseNext, LeaseStep, GoesOn

-----------------------------------------------------------------------------
(* One document is running: the upsert inserts none beside it.             *)

LEMMA OneLeaseStep ==
  ASSUME LeaseInv, [LeaseNext]_leaseVars
  PROVE  OneLease'
<1> USE DEF LeaseInv, LeaseTypeOK, OneLease, document
<1>1. ASSUME NEW a \in Attempt, NEW r \in Run, Acquire(a, r) PROVE OneLease'
  BY <1>1 DEF Acquire, Reclaimable
<1>2. ASSUME NEW a \in Attempt, Complete(a) \/ Fail(a) PROVE OneLease'
  <2>1. PICK s \in {"completed", "failed"} : Record(a, s)
    BY <1>2 DEF Complete, Fail
  <2> QED BY <2>1 DEF Record
<1>3. ASSUME NEW p \in Proc, Boot(p) PROVE OneLease'
  BY <1>3 DEF Boot
<1>4. ASSUME status' = status PROVE OneLease'
  BY <1>4
<1> QED
  BY <1>1, <1>2, <1>3, <1>4
  DEF LeaseNext, LeaseStep, GoesOn, Tick, TriggerManually, Skip, HandlerEnds, CompleteFails, FailFails,
      Heartbeat, LockAges, Stall, StartedLongAgo, Die, SetTaskEnabled, leaseVars

-----------------------------------------------------------------------------
(* Without stalls whoever is in flight holds the lease.                    *)

LEMMA AloneStep ==
  ASSUME LeaseInv, [LeaseNext]_leaseVars
  PROVE  HoldersAlone'
<1> SUFFICES ASSUME Unhurried' PROVE HoldersAlone'
  BY DEF HoldersAlone
<1>0. Unhurried
  BY DEF Unhurried, LeaseNext, LeaseStep, GoesOn, Tick, TriggerManually, Skip, Acquire, HandlerEnds,
     Complete, Fail, Record, CompleteFails, FailFails, Heartbeat, LockAges, Stall,
     StartedLongAgo, Die, Boot, SetTaskEnabled, Calm, LeaseFault, leaseVars
<1>00. /\ LeaseTypeOK /\ OneLease
       /\ \A a \in Attempt : at[a] \in InFlight => mine[a] \in Run
       /\ \A a \in Attempt : at[a] \in InFlight =>
            Holds(a) /\ \A b \in Attempt : at[b] \in InFlight => a = b
  BY <1>0 DEF LeaseInv, HoldersAlone
<1> USE <1>00 DEF LeaseTypeOK, Holds, RunIsAt, document
<1>1. ASSUME NEW a \in Attempt, Tick(a) \/ TriggerManually(a) \/ Skip(a) PROVE HoldersAlone'
  BY <1>1 DEF Tick, TriggerManually, Skip, InFlight, HoldersAlone
<1>2. ASSUME NEW a \in Attempt, NEW r \in Run, Acquire(a, r) PROVE HoldersAlone'
  <2>1. \A b \in Attempt : at[b] \notin InFlight
    BY <1>2 DEF Acquire, Reclaimable, OneLease
  <2> QED BY <1>2, <2>1 DEF Acquire, HoldersAlone
<1>3. ASSUME NEW a \in Attempt, HandlerEnds(a) \/ CompleteFails(a) PROVE HoldersAlone'
  BY <1>3 DEF HandlerEnds, CompleteFails, InFlight, HoldersAlone
<1>4. ASSUME NEW a \in Attempt, Complete(a) \/ Fail(a) \/ FailFails(a) PROVE HoldersAlone'
  <2>1. at[a] \in InFlight /\ at'[a] = "idle"
        /\ \A b \in Attempt : b # a => at'[b] = at[b]
    BY <1>4 DEF Complete, Fail, FailFails, Record, InFlight
  <2>2. \A b \in Attempt : at'[b] \notin InFlight BY <2>1 DEF InFlight
  <2> QED BY <2>2 DEF HoldersAlone
<1>5. ASSUME NEW a \in Attempt, Heartbeat(a) PROVE HoldersAlone'
  BY <1>5 DEF Heartbeat, HoldersAlone
<1>6. ASSUME NEW r \in Run, LockAges(r) PROVE HoldersAlone'
  BY <1>6 DEF LockAges, Beating, Working, HoldersAlone
<1>7. ASSUME NEW r \in Run, Stall(r) PROVE HoldersAlone'
  BY <1>7 DEF Stall, LeaseFault, Unhurried
<1>8. ASSUME NEW r \in Run, StartedLongAgo(r) PROVE HoldersAlone'
  <2>1. Beating(r) = {} /\ r \in stale
    BY <1>8 DEF StartedLongAgo, LeaseFault, Unhurried
  <2> QED BY <1>8, <2>1 DEF StartedLongAgo, HoldersAlone
<1>9. ASSUME NEW p \in Proc, Die(p) PROVE HoldersAlone'
  BY <1>9 DEF Die, InFlight, HoldersAlone
<1>10. ASSUME NEW p \in Proc, Boot(p) PROVE HoldersAlone'
  BY <1>10 DEF Boot, Recoverable, HoldersAlone
<1>11. ASSUME SetTaskEnabled \/ UNCHANGED leaseVars PROVE HoldersAlone'
  BY <1>11 DEF SetTaskEnabled, leaseVars, HoldersAlone
<1> HIDE <1>00
<1> QED
  BY <1>1, <1>2, <1>3, <1>4, <1>5, <1>6, <1>7, <1>8, <1>9, <1>10, <1>11
  DEF LeaseNext, LeaseStep, GoesOn

-----------------------------------------------------------------------------
(* With stalls, the last to acquire a document is still the one it names.  *)

LEMMA LastStep ==
  ASSUME LeaseInv, [LeaseNext]_leaseVars
  PROVE  LastHolds'
<1> SUFFICES ASSUME Distinguished' PROVE LastHolds'
  BY DEF LastHolds
<1>0. Distinguished
  BY DEF Distinguished, LeaseNext, LeaseStep, GoesOn, Tick, TriggerManually, Skip, Acquire, HandlerEnds,
     Complete, Fail, Record, CompleteFails, FailFails, Heartbeat, LockAges, Stall,
     StartedLongAgo, Die, Boot, SetTaskEnabled, Calm, LeaseFault, leaseVars
<1>00. /\ LeaseTypeOK
       /\ \A a \in Attempt : at[a] \in InFlight => mine[a] \in Run
       /\ \A a \in Attempt : at[a] \in InFlight =>
            /\ runner[mine[a]] = a =>
                 /\ status[mine[a]] = "running" /\ lockedBy[mine[a]] = ProcOf[a]
                 /\ mine[a] \notin old
            /\ \A b \in Attempt : at[b] \in InFlight /\ mine[b] = mine[a] =>
                 a = b \/ ProcOf[a] # ProcOf[b]
  BY <1>0 DEF LeaseInv, LastHolds
<1> USE <1>00 DEF LeaseTypeOK, RunIsAt, document
<1>1. ASSUME NEW a \in Attempt, Tick(a) \/ TriggerManually(a) \/ Skip(a) PROVE LastHolds'
  BY <1>1 DEF Tick, TriggerManually, Skip, InFlight, LastHolds
<1>2. ASSUME NEW a \in Attempt, NEW r \in Run, Acquire(a, r) PROVE LastHolds'
  <2>1. \A b \in Attempt : at[b] \in InFlight /\ mine[b] = r => ProcOf[b] # ProcOf[a]
    BY <1>2 DEF Acquire, LeaseFault, Distinguished, Working
  <2>2. /\ mine'[a] = r /\ status'[r] = "running" /\ lockedBy'[r] = ProcOf[a]
        /\ runner'[r] = a /\ r \notin old' /\ at[a] \notin InFlight
    BY <1>2 DEF Acquire, InFlight
  <2>3. \A b \in Attempt : b # a => at'[b] = at[b] /\ mine'[b] = mine[b]
    BY <1>2 DEF Acquire
  <2>4. \A s \in Run : s # r =>
          /\ status'[s] = status[s] /\ lockedBy'[s] = lockedBy[s] /\ runner'[s] = runner[s]
          /\ s \in old' <=> s \in old
    BY <1>2 DEF Acquire
  <2>5. ASSUME NEW b \in Attempt, at'[b] \in InFlight, runner'[mine'[b]] = b
        PROVE  /\ status'[mine'[b]] = "running" /\ lockedBy'[mine'[b]] = ProcOf[b]
               /\ mine'[b] \notin old'
    <3>1. CASE b = a BY <3>1, <2>2
    <3>2. CASE b # a
      <4>1. mine'[b] # r BY <3>2, <2>2, <2>5
      <4> QED BY <3>2, <4>1, <2>3, <2>4, <2>5
    <3> QED BY <3>1, <3>2
  <2>6. ASSUME NEW b \in Attempt, NEW c \in Attempt, at'[b] \in InFlight, at'[c] \in InFlight,
               mine'[b] = mine'[c], b # c
        PROVE  ProcOf[b] # ProcOf[c]
    BY <2>1, <2>2, <2>3, <2>6
  <2> QED BY <2>5, <2>6 DEF LastHolds
<1>3. ASSUME NEW a \in Attempt, HandlerEnds(a) \/ CompleteFails(a) PROVE LastHolds'
  BY <1>3 DEF HandlerEnds, CompleteFails, InFlight, LastHolds
<1>4. ASSUME NEW a \in Attempt, Complete(a) \/ Fail(a) PROVE LastHolds'
  <2>1. PICK s \in {"completed", "failed"} : Record(a, s)
    BY <1>4 DEF Complete, Fail
  <2>2. at[a] \in InFlight BY <1>4 DEF Complete, Fail, InFlight
  <2>3. at'[a] \notin InFlight BY <2>1 DEF Record, InFlight
  <2> QED BY <2>1, <2>2, <2>3 DEF Record, Owns, LastHolds
<1>5. ASSUME NEW a \in Attempt, FailFails(a) PROVE LastHolds'
  BY <1>5 DEF FailFails, InFlight, LastHolds
<1>6. ASSUME NEW a \in Attempt, Heartbeat(a) PROVE LastHolds'
  BY <1>6 DEF Heartbeat, LastHolds
<1>7. ASSUME NEW r \in Run, LockAges(r) \/ Stall(r) PROVE LastHolds'
  BY <1>7 DEF LockAges, Stall, LastHolds
<1>8. ASSUME NEW r \in Run, StartedLongAgo(r) PROVE LastHolds'
  <2>1. Beating(r) = {} BY <1>8 DEF StartedLongAgo, LeaseFault, Distinguished
  <2> QED BY <1>8, <2>1 DEF StartedLongAgo, Beating, Working, LastHolds
<1>9. ASSUME NEW p \in Proc, Die(p) PROVE LastHolds'
  BY <1>9 DEF Die, InFlight, LastHolds
<1>10. ASSUME NEW p \in Proc, Boot(p) PROVE LastHolds'
  BY <1>10 DEF Boot, Recoverable, LastHolds
<1>11. ASSUME SetTaskEnabled \/ UNCHANGED leaseVars PROVE LastHolds'
  BY <1>11 DEF SetTaskEnabled, leaseVars, LastHolds
<1> HIDE <1>00
<1> QED
  BY <1>1, <1>2, <1>3, <1>4, <1>5, <1>6, <1>7, <1>8, <1>9, <1>10, <1>11
  DEF LeaseNext, LeaseStep, GoesOn

-----------------------------------------------------------------------------
(* The theorems.                                                           *)

(* The types, the unique index and what the calls in flight hold.          *)
THEOREM LeaseInvariant == LeaseSpec => []LeaseInv
<1>1. LeaseInit => LeaseInv
  BY DEF LeaseInit, LeaseInv, LeaseTypeOK, InFlight, OneLease, HoldersAlone, LastHolds
<1>2. LeaseInv /\ [LeaseNext]_leaseVars => LeaseInv'
  BY TypedStep, OneLeaseStep, AloneStep, LastStep DEF LeaseInv, Typed, HasRun
<1> QED BY <1>1, <1>2, PTL DEF LeaseSpec

(* The task runs once at a time unless a live runner stalls or works for   *)
(* more than four hours.                                                   *)
THEOREM TaskRunsOnce == LeaseSpec => []NoOverlap
<1>1. LeaseInv => NoOverlap
  BY DEF LeaseInv, HoldersAlone, Unhurried, InFlight, NoOverlap
<1> QED BY <1>1, LeaseInvariant, PTL

(* A run that goes on and was not taken over shows as running, whatever    *)
(* calls lose their lock in a stall and end afterwards.                    *)
THEOREM LiveRunKept == LeaseSpec => []LiveRunShown
<1>1. LeaseInv => LiveRunShown
  BY DEF LeaseInv, LastHolds, Distinguished, InFlight, LiveRunShown
<1> QED BY <1>1, LeaseInvariant, PTL
=============================================================================
