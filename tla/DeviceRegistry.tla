--------------------------- MODULE DeviceRegistry ---------------------------
(***************************************************************************)
(* The devices of one user and the plan's cap on them: registerDevice and  *)
(* withDeviceLock of services/subscription-service.ts, called by several   *)
(* processes.  A call queues in its process, takes a lock in Redis that    *)
(* expires after 15 s, counts the rows and inserts one.  Without Redis the *)
(* queue of the process is the only lock.                                  *)
(***************************************************************************)
EXTENDS Integers, Sequences, FiniteSets

CONSTANTS
  Server,         \* server processes
  Registration,   \* calls of registerDevice that can be in flight
  ServerOf,       \* the process of each
  Device,         \* device identifiers
  MaxDevices,     \* the plan's cap
  MaxDeviceFaults,\* bound of the events of DeviceHazard
  Nothing         \* no device, and a free lock

DeviceHazard == {
  "crash",       \* a process dies
  "releaseFails",\* the script that releases the lock fails
  "slow",        \* a call holds the lock for more than 15 s
  "noRedis",     \* Redis is not connected when a call begins
  "unsubscribed"}\* a call finds no subscription, or one without a cap

ASSUME ServerOfAssumption == ServerOf \in [Registration -> Server]
ASSUME MaxDevicesAssumption == MaxDevices \in Nat \ {0}
ASSUME DeviceFaultsAssumption == MaxDeviceFaults \in Nat
ASSUME DeviceAssumption == IsFiniteSet(Device)
ASSUME NothingAssumption == Nothing \notin Device \cup Registration

VARIABLES
  devices,   \* the user's Device rows
  chain,     \* localDeviceLocks: the calls of each process, in order
  lock,      \* the call whose token the Redis key holds
  orphaned,  \* the key is set and its call is gone
  place,     \* where each call is
  device,    \* what each call registers
  viaRedis,  \* each call found Redis connected
  limit,     \* the cap each call read; 0 for none
  late,      \* history: the calls at work whose key has expired
  suffered,  \* history: the events of DeviceHazard that have happened
  mishaps    \* and how many

call == <<place, device, viaRedis, limit>>
registryVars == <<devices, chain, lock, orphaned, call, late, suffered, mishaps>>

Critical == {"finding", "touching", "limiting", "counting", "creating", "releasing"}

RegistryTypeOK ==
  /\ devices \subseteq Device
  /\ chain \in [Server -> Seq(Registration)]
  /\ lock \in Registration \cup {Nothing} /\ orphaned \in BOOLEAN
  /\ place \in [Registration -> {"idle", "queued", "locking"} \cup Critical]
  /\ device \in [Registration -> Device \cup {Nothing}]
  /\ viaRedis \in [Registration -> BOOLEAN]
  /\ limit \in [Registration -> {0, MaxDevices}]
  /\ late \subseteq Registration
  /\ suffered \subseteq DeviceHazard /\ mishaps \in 0 .. MaxDeviceFaults

RegistryInit ==
  /\ devices = {}
  /\ chain = [p \in Server |-> <<>>]
  /\ lock = Nothing /\ orphaned = FALSE
  /\ place = [c \in Registration |-> "idle"]
  /\ device = [c \in Registration |-> Nothing]
  /\ viaRedis = [c \in Registration |-> TRUE]
  /\ limit = [c \in Registration |-> 0]
  /\ late = {} /\ suffered = {} /\ mishaps = 0

-----------------------------------------------------------------------------
(* Helpers.                                                                *)

CallAt(c, to) == place' = [place EXCEPT ![c] = to]

Mishap(kind) ==
  /\ mishaps < MaxDeviceFaults
  /\ mishaps' = mishaps + 1 /\ suffered' = suffered \cup {kind}

NoMishap == UNCHANGED <<suffered, mishaps>>

First(c) == chain[ServerOf[c]] # <<>> /\ Head(chain[ServerOf[c]]) = c

(* Mutant: the finally block does not run releaseLocal.                    *)
LeaveQueued(c) ==
  /\ CallAt(c, "idle")
  /\ device' = [device EXCEPT ![c] = Nothing]
  /\ UNCHANGED <<chain, viaRedis, limit>>

(* The call answers, and the next of its process begins.                   *)
Leave(c) ==
  /\ CallAt(c, "idle")
  /\ device' = [device EXCEPT ![c] = Nothing]
  /\ chain' = [chain EXCEPT ![ServerOf[c]] = Tail(@)]
  /\ UNCHANGED <<viaRedis, limit>>

-----------------------------------------------------------------------------
(* withDeviceLock: the queue of the process, then the key in Redis.        *)

Register(c, d) ==
  /\ place[c] = "idle"
  /\ CallAt(c, "queued")
  /\ device' = [device EXCEPT ![c] = d]
  /\ chain' = [chain EXCEPT ![ServerOf[c]] = Append(@, c)]
  /\ UNCHANGED <<devices, lock, orphaned, viaRedis, limit, late, suffered, mishaps>>

MyTurn(c) ==
  /\ place[c] = "queued" /\ First(c)
  /\ viaRedis' = [viaRedis EXCEPT ![c] = TRUE]
  /\ CallAt(c, "locking")
  /\ UNCHANGED <<devices, chain, lock, orphaned, device, limit, late, suffered, mishaps>>

MyTurnNoRedis(c) ==
  /\ place[c] = "queued" /\ First(c)
  /\ Mishap("noRedis")
  /\ viaRedis' = [viaRedis EXCEPT ![c] = FALSE]
  /\ CallAt(c, "finding")
  /\ UNCHANGED <<devices, chain, lock, orphaned, device, limit, late>>

(* SET ... PX NX succeeds.                                                 *)
LockFree == lock = Nothing /\ ~orphaned

Lock(c) ==
  /\ place[c] = "locking" /\ LockFree
  /\ lock' = c /\ CallAt(c, "finding")
  /\ UNCHANGED <<devices, chain, orphaned, device, viaRedis, limit, late, suffered, mishaps>>

(* Five seconds of polling, or an error of Redis: the call throws.         *)
Busy(c) ==
  /\ place[c] = "locking" /\ Leave(c)
  /\ UNCHANGED <<devices, lock, orphaned, late, suffered, mishaps>>

-----------------------------------------------------------------------------
(* registerDevice, under the lock.                                         *)

(* A known device is only touched.                                         *)
Find(c) ==
  /\ place[c] = "finding"
  /\ CallAt(c, IF device[c] \in devices THEN "touching" ELSE "limiting")
  /\ UNCHANGED <<devices, chain, lock, orphaned, device, viaRedis, limit, late, suffered, mishaps>>

(* The save of a row that has been deleted meanwhile throws.               *)
Touch(c) ==
  /\ place[c] = "touching"
  /\ CallAt(c, "releasing")
  /\ UNCHANGED <<devices, chain, lock, orphaned, device, viaRedis, limit, late, suffered, mishaps>>

(* The cap comes from the redeemed plan or from the active subscription.   *)
ReadLimit(c) ==
  /\ place[c] = "limiting"
  /\ \/ limit' = [limit EXCEPT ![c] = MaxDevices] /\ NoMishap
     \/ limit' = [limit EXCEPT ![c] = 0] /\ Mishap("unsubscribed")
  /\ CallAt(c, "counting")
  /\ UNCHANGED <<devices, chain, lock, orphaned, device, viaRedis, late>>

(* Mutant: a device may be added when the cap is reached.                  *)
RoomAtCap(c) == limit[c] = 0 \/ Cardinality(devices) <= limit[c]

Room(c) == limit[c] = 0 \/ Cardinality(devices) < limit[c]

CountDevices(c) ==
  /\ place[c] = "counting"
  /\ CallAt(c, IF Room(c) THEN "creating" ELSE "releasing")
  /\ UNCHANGED <<devices, chain, lock, orphaned, device, viaRedis, limit, late, suffered, mishaps>>

(* An insert of a row that exists violates the unique index and is caught. *)
Create(c) ==
  /\ place[c] = "creating"
  /\ devices' = devices \cup {device[c]}
  /\ CallAt(c, "releasing")
  /\ UNCHANGED <<chain, lock, orphaned, device, viaRedis, limit, late, suffered, mishaps>>

(* Mutant: the key is deleted whoever set it.                              *)
UnlockAny(c) == IF viaRedis[c] THEN Nothing ELSE lock

(* The script deletes the key if it still holds the call's token.          *)
Unlock(c) == IF viaRedis[c] /\ lock = c THEN Nothing ELSE lock

Release(c) ==
  /\ place[c] = "releasing" /\ Leave(c)
  /\ lock' = Unlock(c) /\ late' = late \ {c}
  /\ UNCHANGED <<devices, orphaned, suffered, mishaps>>

ReleaseFails(c) ==
  /\ place[c] = "releasing" /\ lock = c
  /\ Mishap("releaseFails")
  /\ lock' = Nothing /\ orphaned' = TRUE
  /\ Leave(c)
  /\ UNCHANGED <<devices, late>>

-----------------------------------------------------------------------------
(* The rest of the world.                                                  *)

(* Fifteen seconds pass: the key of a call that is gone expires, ...       *)
LockExpires ==
  /\ orphaned /\ orphaned' = FALSE
  /\ UNCHANGED <<devices, chain, lock, call, late, suffered, mishaps>>

(* ... or that of a call which still works.                                *)
LockLost ==
  /\ lock # Nothing /\ Mishap("slow")
  /\ lock' = Nothing /\ late' = late \cup {lock}
  /\ UNCHANGED <<devices, chain, orphaned, call>>

(* The user or an admin removes a device.                                  *)
DeleteDevice(d) ==
  /\ d \in devices /\ devices' = devices \ {d}
  /\ UNCHANGED <<chain, lock, orphaned, call, late, suffered, mishaps>>

ServerDies(p) ==
  /\ chain[p] # <<>> /\ Mishap("crash")
  /\ chain' = [chain EXCEPT ![p] = <<>>]
  /\ place' = [c \in Registration |-> IF ServerOf[c] = p THEN "idle" ELSE place[c]]
  /\ device' = [c \in Registration |-> IF ServerOf[c] = p THEN Nothing ELSE device[c]]
  /\ late' = {c \in late : ServerOf[c] # p}
  /\ IF lock # Nothing /\ ServerOf[lock] = p
     THEN lock' = Nothing /\ orphaned' = TRUE
     ELSE UNCHANGED <<lock, orphaned>>
  /\ UNCHANGED <<devices, viaRedis, limit>>

Continue(c) ==
  \/ MyTurn(c) \/ Lock(c) \/ Busy(c) \/ Find(c) \/ Touch(c)
  \/ ReadLimit(c) \/ CountDevices(c) \/ Create(c) \/ Release(c)

RegistryNext ==
  \/ \E c \in Registration :
       Continue(c) \/ MyTurnNoRedis(c) \/ ReleaseFails(c) \/ \E d \in Device : Register(c, d)
  \/ LockExpires \/ LockLost
  \/ \E d \in Device : DeleteDevice(d)
  \/ \E p \in Server : ServerDies(p)

RegistrySpec == RegistryInit /\ [][RegistryNext]_registryVars

-----------------------------------------------------------------------------
(* The inductive invariant.                                                *)

(* A call at work is the first of its process.                             *)
HeadWorks == \A c \in Registration : place[c] \notin {"idle", "queued"} => First(c)

HasDevice == \A c \in Registration : place[c] # "idle" => device[c] \in Device

LockerHasRedis == \A c \in Registration : place[c] = "locking" => viaRedis[c]

(* A call that took the lock less than 15 s ago holds it.                  *)
HolderHasLock ==
  \A c \in Registration :
    place[c] \in Critical /\ viaRedis[c] /\ c \notin late => lock = c

Orderly == suffered \cap {"slow", "noRedis", "unsubscribed"} = {}

(* What a call has found out stays true until it inserts.                  *)
CountStands ==
  Orderly =>
    /\ Cardinality(devices) <= MaxDevices
    /\ late = {}
    /\ \A c \in Registration :
         /\ place[c] \in Critical => viaRedis[c]
         /\ place[c] \in {"counting", "creating"} => limit[c] = MaxDevices
         /\ place[c] = "creating" => Cardinality(devices) < MaxDevices

RegistryInv == RegistryTypeOK /\ HeadWorks /\ HasDevice /\ LockerHasRedis /\ HolderHasLock
               /\ CountStands

-----------------------------------------------------------------------------
(* Properties.                                                             *)

(* The cap holds, whatever processes die and whatever releases fail, as    *)
(* long as no call works for more than 15 s, Redis is there and every call *)
(* finds the cap: the count is still true when the row is inserted.        *)
CapHolds ==
  suffered \cap {"slow", "noRedis", "unsubscribed"} = {} =>
    Cardinality(devices) <= MaxDevices

(* Among the calls that took the lock less than 15 s ago, one works at a   *)
(* time, even while a call that has lost the lock is still at work, ends   *)
(* and releases what it does not hold any more.                            *)
AloneInTime ==
  \A b, c \in {x \in Registration : place[x] \in Critical /\ viaRedis[x]} \ late : b = c

(* Every registration is answered: no failure, and no call that gives up,  *)
(* blocks the queue of its process.                                        *)
EveryCallAnswers ==
  \A c \in Registration : place[c] = "queued" ~> place[c] = "idle"
=============================================================================
