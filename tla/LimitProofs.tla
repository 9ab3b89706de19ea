---------------------------- MODULE LimitProofs ----------------------------
(***************************************************************************)
(* Theorems about the two limits of an account, on its devices             *)
(* (DeviceRegistry) and on its streams (StreamSessions), for any           *)
(* processes, calls, requests, devices, sessions and limits.               *)
(***************************************************************************)
EXTENDS DeviceRegistry, StreamSessions, FiniteSetTheorems, SequenceTheorems, TLAPS

USE ServerOfAssumption, MaxDevicesAssumption, DeviceFaultsAssumption,
    DeviceAssumption, NothingAssumption

-----------------------------------------------------------------------------
(* Every variable keeps its shape, and a call at work is the first of its  *)
(* process.                                                                *)

Shape == RegistryTypeOK /\ HeadWorks /\ HasDevice

(* A mishap is counted within its bound.                                   *)
LEMMA MishapType ==
  ASSUME RegistryTypeOK, NEW kind \in DeviceHazard, Mishap(kind)
  PROVE  suffered' \subseteq DeviceHazard /\ mishaps' \in 0 .. MaxDeviceFaults
  BY DEF RegistryTypeOK, Mishap

(* A call that leaves is the first of its process, which has another then. *)
LEMMA LeaveShape ==
  ASSUME Shape, NEW c \in Registration, place[c] \notin {"idle", "queued"}, Leave(c)
  PROVE  /\ chain' \in [Server -> Seq(Registration)]
         /\ place' \in [Registration -> {"idle", "queued", "locking"} \cup Critical]
         /\ device' \in [Registration -> Device \cup {Nothing}]
         /\ UNCHANGED <<viaRedis, limit>>
         /\ HeadWorks' /\ HasDevice'
<1> DEFINE q == chain[ServerOf[c]]
<1>1. q \in Seq(Registration) /\ q # <<>> /\ Head(q) = c /\ ServerOf[c] \in Server
  BY DEF Shape, RegistryTypeOK, HeadWorks, HasDevice, First
<1>2. Tail(q) \in Seq(Registration) BY <1>1
<1>3. chain' \in [Server -> Seq(Registration)]
  BY <1>1, <1>2 DEF Leave, Shape, RegistryTypeOK
<1>4. /\ place' \in [Registration -> {"idle", "queued", "locking"} \cup Critical]
      /\ device' \in [Registration -> Device \cup {Nothing}]
      /\ UNCHANGED <<viaRedis, limit>>
  BY DEF Leave, CallAt, Shape, RegistryTypeOK
<1>5. ASSUME NEW d \in Registration, place'[d] \notin {"idle", "queued"}
      PROVE  First(d)'
  <2>1. d # c /\ place[d] = place'[d] BY <1>5 DEF Leave, CallAt, Shape, RegistryTypeOK
  <2>2. First(d) BY <2>1, <1>5 DEF Shape, HeadWorks
  <2>3. ServerOf[d] # ServerOf[c] BY <2>1, <2>2, <1>1 DEF First
  <2>4. chain'[ServerOf[d]] = chain[ServerOf[d]]
    BY <2>3 DEF Leave, Shape, RegistryTypeOK
  <2> QED BY <2>2, <2>4 DEF First
<1>6. HasDevice' BY DEF Leave, CallAt, Shape, RegistryTypeOK, HasDevice
<1> QED BY <1>3, <1>4, <1>5, <1>6 DEF HeadWorks

(* A call that is the first of its process goes on.                        *)
LEMMA MoveShape ==
  ASSUME Shape, NEW c \in Registration, NEW to \in {"locking"} \cup Critical,
         place[c] # "idle", First(c), CallAt(c, to), UNCHANGED <<chain, device>>
  PROVE  /\ place' \in [Registration -> {"idle", "queued", "locking"} \cup Critical]
         /\ HeadWorks' /\ HasDevice'
<1>1. place' \in [Registration -> {"idle", "queued", "locking"} \cup Critical]
  BY DEF CallAt, Shape, RegistryTypeOK
<1>2. ASSUME NEW d \in Registration, place'[d] \notin {"idle", "queued"}
      PROVE  First(d)'
  BY <1>2 DEF CallAt, Shape, RegistryTypeOK, HeadWorks, HasDevice, First
<1>3. HasDevice' BY DEF CallAt, Shape, RegistryTypeOK, HasDevice
<1> QED BY <1>1, <1>2, <1>3 DEF HeadWorks

LEMMA RegisterShape ==
  ASSUME Shape, NEW c \in Registration, NEW d \in Device, Register(c, d)
  PROVE  Shape'
<1> DEFINE q == chain[ServerOf[c]]
<1>1. q \in Seq(Registration) /\ ServerOf[c] \in Server BY DEF Shape, RegistryTypeOK
<1>2. Append(q, c) \in Seq(Registration) /\ (q # <<>> => Head(Append(q, c)) = Head(q))
  BY <1>1
<1>3. chain' \in [Server -> Seq(Registration)]
  BY <1>1, <1>2 DEF Register, Shape, RegistryTypeOK
<1>4. ASSUME NEW e \in Registration, place'[e] \notin {"idle", "queued"}
      PROVE  First(e)'
  <2>1. place[e] \notin {"idle", "queued"}
    BY <1>4 DEF Register, CallAt, Shape, RegistryTypeOK
  <2>2. First(e) BY <2>1 DEF Shape, HeadWorks
  <2>3. CASE ServerOf[e] = ServerOf[c]
    <3>1. chain'[ServerOf[e]] = Append(q, c)
      BY <2>3, <1>1 DEF Register, Shape, RegistryTypeOK
    <3>2. Append(q, c) # <<>> BY <1>1, AppendProperties
    <3> QED BY <3>1, <3>2, <2>2, <2>3, <1>2 DEF First
  <2>4. CASE ServerOf[e] # ServerOf[c]
    BY <2>2, <2>4 DEF Register, Shape, RegistryTypeOK, First
  <2> QED BY <2>3, <2>4
<1>5. /\ place' \in [Registration -> {"idle", "queued", "locking"} \cup Critical]
      /\ device' \in [Registration -> Device \cup {Nothing}]
  BY DEF Register, CallAt, Shape, RegistryTypeOK
<1>6. HasDevice' BY DEF Register, CallAt, Shape, RegistryTypeOK, HasDevice
<1> QED BY <1>3, <1>4, <1>5, <1>6 DEF Shape, RegistryTypeOK, HeadWorks, Register

LEMMA WaitShape ==
  ASSUME Shape, NEW c \in Registration,
         MyTurn(c) \/ MyTurnNoRedis(c) \/ Lock(c) \/ Busy(c)
  PROVE  Shape'
<1>1. CASE MyTurn(c)
  <2>1. First(c) BY <1>1 DEF MyTurn
  <2> QED BY <1>1, <2>1, MoveShape DEF MyTurn, Shape, RegistryTypeOK
<1>2. CASE MyTurnNoRedis(c)
  <2>1. First(c) BY <1>2 DEF MyTurnNoRedis
  <2>2. suffered' \subseteq DeviceHazard /\ mishaps' \in 0 .. MaxDeviceFaults
    BY <1>2, MishapType DEF MyTurnNoRedis, DeviceHazard, Shape
  <2> QED BY <1>2, <2>1, <2>2, MoveShape DEF MyTurnNoRedis, Shape, RegistryTypeOK, Critical
<1>3. CASE Lock(c)
  <2>1. First(c) BY <1>3 DEF Lock, Shape, HeadWorks
  <2> QED BY <1>3, <2>1, MoveShape DEF Lock, Shape, RegistryTypeOK, Critical
<1>4. CASE Busy(c)
  BY <1>4, LeaveShape DEF Busy, Shape, RegistryTypeOK
<1> QED BY <1>1, <1>2, <1>3, <1>4

LEMMA WorkShape ==
  ASSUME Shape, NEW c \in Registration,
         Find(c) \/ Touch(c) \/ ReadLimit(c) \/ CountDevices(c) \/ Create(c)
  PROVE  Shape'
<1>0. First(c)
  BY DEF Find, Touch, ReadLimit, CountDevices, Create, Shape, HeadWorks
<1>1. CASE Find(c) BY <1>0, <1>1, MoveShape DEF Find, Shape, RegistryTypeOK, Critical
<1>2. CASE Touch(c) BY <1>0, <1>2, MoveShape DEF Touch, Shape, RegistryTypeOK, Critical
<1>3. CASE ReadLimit(c)
  <2>1. suffered' \subseteq DeviceHazard /\ mishaps' \in 0 .. MaxDeviceFaults
    BY <1>3, MishapType DEF ReadLimit, NoMishap, DeviceHazard, Shape, RegistryTypeOK
  <2>2. limit' \in [Registration -> {0, MaxDevices}]
    BY <1>3 DEF ReadLimit, Shape, RegistryTypeOK
  <2> QED BY <1>0, <1>3, <2>1, <2>2, MoveShape DEF ReadLimit, Shape, RegistryTypeOK, Critical
<1>4. CASE CountDevices(c)
  BY <1>0, <1>4, MoveShape DEF CountDevices, Shape, RegistryTypeOK, Critical
<1>5. CASE Create(c)
  <2>1. device[c] \in Device BY <1>5 DEF Create, Shape, HasDevice
  <2>2. devices' \subseteq Device BY <1>5, <2>1 DEF Create, Shape, RegistryTypeOK
  <2>3. /\ place' \in [Registration -> {"idle", "queued", "locking"} \cup Critical]
        /\ HeadWorks' /\ HasDevice'
    BY <1>0, <1>5, MoveShape DEF Create, Critical
  <2> QED BY <1>5, <2>2, <2>3 DEF Create, Shape, RegistryTypeOK
<1> QED BY <1>1, <1>2, <1>3, <1>4, <1>5

LEMMA EndShape ==
  ASSUME Shape, NEW c \in Registration, Release(c) \/ ReleaseFails(c)
  PROVE  Shape'
<1>1. CASE Release(c)
  BY <1>1, LeaveShape DEF Release, Unlock, Shape, RegistryTypeOK
<1>2. CASE ReleaseFails(c)
  <2>1. suffered' \subseteq DeviceHazard /\ mishaps' \in 0 .. MaxDeviceFaults
    BY <1>2, MishapType DEF ReleaseFails, DeviceHazard, Shape
  <2> QED BY <1>2, <2>1, LeaveShape DEF ReleaseFails, Shape, RegistryTypeOK
<1> QED BY <1>1, <1>2

LEMMA WorldShape ==
  ASSUME Shape,
         \/ LockExpires \/ LockLost
         \/ \E d \in Device : DeleteDevice(d)
         \/ \E p \in Server : ServerDies(p)
  PROVE  Shape'
<1>1. CASE LockExpires
  BY <1>1 DEF LockExpires, call, Shape, RegistryTypeOK, HeadWorks, HasDevice, First
<1>2. CASE LockLost
  <2>1. suffered' \subseteq DeviceHazard /\ mishaps' \in 0 .. MaxDeviceFaults
    BY <1>2, MishapType DEF LockLost, DeviceHazard, Shape
  <2> QED BY <1>2, <2>1 DEF LockLost, call, Shape, RegistryTypeOK, HeadWorks, HasDevice, First
<1>3. ASSUME NEW d \in Device, DeleteDevice(d) PROVE Shape'
  BY <1>3 DEF DeleteDevice, call, Shape, RegistryTypeOK, HeadWorks, HasDevice, First
<1>4. ASSUME NEW p \in Server, ServerDies(p) PROVE Shape'
  <2>1. suffered' \subseteq DeviceHazard /\ mishaps' \in 0 .. MaxDeviceFaults
    BY <1>4, MishapType DEF ServerDies, DeviceHazard, Shape
  <2>2. chain' \in [Server -> Seq(Registration)]
    BY <1>4 DEF ServerDies, Shape, RegistryTypeOK
  <2>3. ASSUME NEW c \in Registration, place'[c] \notin {"idle", "queued"}
        PROVE  First(c)'
    <3>1. ServerOf[c] # p /\ place'[c] = place[c]
      BY <1>4, <2>3 DEF ServerDies, Shape, RegistryTypeOK
    <3>2. First(c) BY <2>3, <3>1 DEF Shape, HeadWorks
    <3>3. chain'[ServerOf[c]] = chain[ServerOf[c]]
      BY <1>4, <3>1 DEF ServerDies, Shape, RegistryTypeOK
    <3> QED BY <3>2, <3>3 DEF First
  <2>4. /\ place' \in [Registration -> {"idle", "queued", "locking"} \cup Critical]
        /\ device' \in [Registration -> Device \cup {Nothing}]
        /\ late' \subseteq Registration
        /\ lock' \in Registration \cup {Nothing} /\ orphaned' \in BOOLEAN
        /\ devices' \subseteq Device
        /\ viaRedis' \in [Registration -> BOOLEAN]
        /\ limit' \in [Registration -> {0, MaxDevices}]
    BY <1>4 DEF ServerDies, Shape, RegistryTypeOK
  <2>5. HasDevice' BY <1>4 DEF ServerDies, Shape, RegistryTypeOK, HasDevice
  <2> QED BY <2>1, <2>2, <2>3, <2>4, <2>5 DEF Shape, RegistryTypeOK, HeadWorks
<1> QED BY <1>1, <1>2, <1>3, <1>4

LEMMA ShapeStep == Shape /\ [RegistryNext]_registryVars => Shape'
<1> SUFFICES ASSUME Shape, [RegistryNext]_registryVars PROVE Shape'
  OBVIOUS
<1>1. ASSUME NEW c \in Registration, Continue(c) PROVE Shape'
  BY <1>1, WaitShape, WorkShape, EndShape DEF Continue
<1>2. ASSUME NEW c \in Registration, MyTurnNoRedis(c) \/ ReleaseFails(c) PROVE Shape'
  BY <1>2, WaitShape, EndShape
<1>3. ASSUME NEW c \in Registration, NEW d \in Device, Register(c, d) PROVE Shape'
  BY <1>3, RegisterShape
<1>4. CASE UNCHANGED registryVars
  BY <1>4 DEF registryVars, call, Shape, RegistryTypeOK, HeadWorks, HasDevice, First
<1> QED BY <1>1, <1>2, <1>3, <1>4, WorldShape DEF RegistryNext

-----------------------------------------------------------------------------
(* The lock.                                                               *)

(* Whoever works under the lock within its time to live still holds it: a  *)
(* key that expired, or that a call has not got, is not released by it.    *)
LEMMA HolderStep ==
  ASSUME RegistryInv, [RegistryNext]_registryVars
  PROVE  HolderHasLock'
<1> USE DEF RegistryInv, RegistryTypeOK, HolderHasLock, CallAt
<1>1. ASSUME NEW c \in Registration, NEW d \in Device, Register(c, d) PROVE HolderHasLock'
  BY <1>1 DEF Register, Critical
<1>2. ASSUME NEW c \in Registration, MyTurn(c) PROVE HolderHasLock'
  BY <1>2 DEF MyTurn, Critical
<1>3. ASSUME NEW c \in Registration, MyTurnNoRedis(c) PROVE HolderHasLock'
  BY <1>3 DEF MyTurnNoRedis, Critical
<1>4. ASSUME NEW c \in Registration, Lock(c) PROVE HolderHasLock'
  BY <1>4 DEF Lock, LockFree
<1>5. ASSUME NEW c \in Registration, Busy(c) PROVE HolderHasLock'
  BY <1>5 DEF Busy, Leave, Critical
<1>6. ASSUME NEW c \in Registration,
             Find(c) \/ Touch(c) \/ ReadLimit(c) \/ CountDevices(c) \/ Create(c)
      PROVE  HolderHasLock'
  BY <1>6 DEF Find, Touch, ReadLimit, CountDevices, Create, Critical
<1>7. ASSUME NEW c \in Registration, Release(c) PROVE HolderHasLock'
  BY <1>7 DEF Release, Leave, Unlock, Critical
<1>8. ASSUME NEW c \in Registration, ReleaseFails(c) PROVE HolderHasLock'
  BY <1>8 DEF ReleaseFails, Leave, Critical
<1>9. CASE LockExpires BY <1>9 DEF LockExpires, call
<1>10. CASE LockLost BY <1>10 DEF LockLost, call
<1>11. ASSUME NEW d \in Device, DeleteDevice(d) PROVE HolderHasLock'
  BY <1>11 DEF DeleteDevice, call
<1>12. ASSUME NEW p \in Server, ServerDies(p) PROVE HolderHasLock'
  BY <1>12 DEF ServerDies, Critical
<1>13. CASE UNCHANGED registryVars BY <1>13 DEF registryVars, call
<1> QED
  BY <1>1, <1>2, <1>3, <1>4, <1>5, <1>6, <1>7, <1>8, <1>9, <1>10, <1>11, <1>12, <1>13
  DEF RegistryNext, Continue

-----------------------------------------------------------------------------
(* The cap.                                                                *)

(* One more device than are there, or one less.                            *)
LEMMA DeviceCount ==
  ASSUME RegistryTypeOK, NEW d \in Device
  PROVE  /\ Cardinality(devices) \in Nat
         /\ Cardinality(devices \cup {d}) <= Cardinality(devices) + 1
         /\ Cardinality(devices \ {d}) <= Cardinality(devices)
<1> DEFINE n == Cardinality(devices)
           more == Cardinality(devices \cup {d})
           fewer == Cardinality(devices \ {d})
<1>1. IsFiniteSet(devices) BY FS_Subset DEF RegistryTypeOK
<1>2. n \in Nat BY <1>1, FS_CardinalityType
<1>3. more = IF d \in devices THEN n ELSE n + 1 BY <1>1, FS_AddElement
<1>4. fewer = IF d \in devices THEN n - 1 ELSE n BY <1>1, FS_RemoveElement
<1> SUFFICES n \in Nat /\ more <= n + 1 /\ fewer <= n OBVIOUS
<1> HIDE DEF n, more, fewer
<1> QED BY <1>2, <1>3, <1>4

(* In good order, what a call counted is still true when it inserts: it    *)
(* holds the lock all the time, so no other call inserts.                  *)
LEMMA CountStep ==
  ASSUME RegistryInv, [RegistryNext]_registryVars
  PROVE  CountStands'
<1> SUFFICES ASSUME Orderly'
             PROVE  /\ (Cardinality(devices) <= MaxDevices)'
                    /\ (late = {})'
                    /\ \A x \in Registration :
                         /\ place'[x] \in Critical => viaRedis'[x]
                         /\ place'[x] \in {"counting", "creating"} => limit'[x] = MaxDevices
                         /\ place'[x] = "creating" => (Cardinality(devices) < MaxDevices)'
  BY DEF CountStands
<1>0. Orderly
  BY DEF Orderly, RegistryNext, Continue, registryVars, Register, MyTurn, MyTurnNoRedis,
     Lock, Busy, Find, Touch, ReadLimit, NoMishap, CountDevices, Create, Release, ReleaseFails,
     LockExpires, LockLost, DeleteDevice, ServerDies, Mishap
<1>00. /\ Cardinality(devices) <= MaxDevices /\ late = {}
       /\ \A x \in Registration :
            /\ place[x] \in Critical => viaRedis[x]
            /\ place[x] \in {"counting", "creating"} => limit[x] = MaxDevices
            /\ place[x] = "creating" => Cardinality(devices) < MaxDevices
  BY <1>0 DEF RegistryInv, CountStands
<1>a. RegistryTypeOK BY DEF RegistryInv
<1> USE <1>00, <1>a DEF RegistryTypeOK, CallAt, Critical
<1>1. ASSUME NEW c \in Registration, NEW d \in Device, Register(c, d)
      PROVE  CountStands'
  BY <1>1 DEF Register, CountStands
<1>2. ASSUME NEW c \in Registration, MyTurn(c) PROVE CountStands'
  BY <1>2 DEF MyTurn, CountStands
<1>3. ASSUME NEW c \in Registration, MyTurnNoRedis(c) PROVE CountStands'
  BY <1>3 DEF MyTurnNoRedis, Mishap, Orderly
<1>4. ASSUME NEW c \in Registration, Lock(c) PROVE CountStands'
  <2>1. viaRedis[c] BY <1>4 DEF Lock, RegistryInv, LockerHasRedis
  <2> QED BY <1>4, <2>1 DEF Lock, CountStands
<1>5. ASSUME NEW c \in Registration, Busy(c) PROVE CountStands'
  BY <1>5 DEF Busy, Leave, CountStands
<1>6. ASSUME NEW c \in Registration, Find(c) \/ Touch(c) PROVE CountStands'
  BY <1>6 DEF Find, Touch, CountStands
<1>7. ASSUME NEW c \in Registration, ReadLimit(c) PROVE CountStands'
  BY <1>7 DEF ReadLimit, Mishap, Orderly, CountStands
<1>8. ASSUME NEW c \in Registration, CountDevices(c) PROVE CountStands'
  BY <1>8 DEF CountDevices, Room, CountStands
<1>9. ASSUME NEW c \in Registration, Create(c) PROVE CountStands'
  <2>1. device[c] \in Device BY <1>9 DEF Create, RegistryInv, HasDevice
  <2>2. Cardinality(devices') <= MaxDevices
    <3>1. Cardinality(devices) < MaxDevices BY <1>9 DEF Create
    <3>2. Cardinality(devices) \in Nat
          /\ Cardinality(devices \cup {device[c]}) <= Cardinality(devices) + 1
      BY <2>1, DeviceCount
    <3>3. Cardinality(devices \cup {device[c]}) \in Nat
      BY <2>1, FS_Subset, FS_AddElement, FS_CardinalityType
    <3>4. devices' = devices \cup {device[c]} BY <1>9 DEF Create
    <3> HIDE DEF RegistryTypeOK
    <3> QED BY <3>1, <3>2, <3>3, <3>4
  <2>3. \A x \in Registration : place'[x] # "creating"
    BY <1>9 DEF Create, RegistryInv, HolderHasLock
  <2> QED BY <1>9, <2>2, <2>3 DEF Create, CountStands
<1>10. ASSUME NEW c \in Registration, Release(c) \/ ReleaseFails(c) PROVE CountStands'
  BY <1>10 DEF Release, ReleaseFails, Leave, CountStands
<1>11. ASSUME LockExpires PROVE CountStands'
  BY <1>11 DEF LockExpires, call, CountStands
<1>12. ASSUME LockLost PROVE CountStands'
  BY <1>12 DEF LockLost, Mishap, Orderly
<1>13. ASSUME NEW d \in Device, DeleteDevice(d) PROVE CountStands'
  <2>1. Cardinality(devices') <= Cardinality(devices) /\ Cardinality(devices') \in Nat
    BY <1>13, DeviceCount, FS_Subset, FS_CardinalityType DEF DeleteDevice
  <2>2. Cardinality(devices) \in Nat BY <1>13, DeviceCount
  <2>3. Cardinality(devices') <= MaxDevices BY <2>1, <2>2
  <2>4. Cardinality(devices) < MaxDevices => Cardinality(devices') < MaxDevices
    BY <2>1, <2>2
  <2>5. /\ late' = {} /\ place' = place /\ viaRedis' = viaRedis /\ limit' = limit
    BY <1>13 DEF DeleteDevice, call
  <2> QED BY <2>3, <2>4, <2>5 DEF CountStands
<1>14. ASSUME NEW p \in Server, ServerDies(p) PROVE CountStands'
  BY <1>14 DEF ServerDies, CountStands
<1>15. ASSUME UNCHANGED registryVars PROVE CountStands'
  BY <1>15 DEF registryVars, call, CountStands, Orderly
<1>16. ASSUME NEW c \in Registration, Continue(c) PROVE CountStands'
  BY <1>16, <1>2, <1>4, <1>5, <1>6, <1>7, <1>8, <1>9, <1>10 DEF Continue
<1>17. CountStands'
  <2> HIDE <1>00, <1>a
  <2> HIDE DEF CallAt, RegistryTypeOK, Critical
  <2> QED
    BY <1>1, <1>3, <1>10, <1>11, <1>12, <1>13, <1>14, <1>15, <1>16 DEF RegistryNext
<1> QED BY <1>17 DEF CountStands

-----------------------------------------------------------------------------
(* The theorems.                                                           *)

LEMMA RegistryInitially == RegistryInit => RegistryInv
<1> SUFFICES ASSUME RegistryInit PROVE RegistryInv
  OBVIOUS
<1>1. <<>> \in Seq(Registration) OBVIOUS
<1>2. chain \in [Server -> Seq(Registration)] BY <1>1 DEF RegistryInit
<1>4. RegistryTypeOK
  <2>1. /\ devices \subseteq Device /\ late \subseteq Registration
        /\ suffered \subseteq DeviceHazard
        /\ lock \in Registration \cup {Nothing} /\ orphaned \in BOOLEAN
    BY DEF RegistryInit
  <2>4. mishaps \in 0 .. MaxDeviceFaults BY DEF RegistryInit
  <2>2. /\ place \in [Registration -> {"idle", "queued", "locking"} \cup Critical]
        /\ device \in [Registration -> Device \cup {Nothing}]
        /\ viaRedis \in [Registration -> BOOLEAN]
    BY DEF RegistryInit
  <2>3. limit \in [Registration -> {0, MaxDevices}] BY DEF RegistryInit
  <2> QED BY <1>2, <2>1, <2>2, <2>3, <2>4 DEF RegistryTypeOK
<1>3. Cardinality(devices) = 0 BY FS_EmptySet DEF RegistryInit
<1> QED
  BY <1>4, <1>3 DEF RegistryInit, RegistryInv, HeadWorks, HasDevice, LockerHasRedis,
     HolderHasLock, CountStands, Critical

(* Every variable of the registry keeps its type, whatever fails.          *)
THEOREM RegistryInvariant == RegistrySpec => []RegistryInv
<1>1. RegistryInv /\ [RegistryNext]_registryVars => RegistryInv'
  <2> SUFFICES ASSUME RegistryInv, [RegistryNext]_registryVars PROVE RegistryInv'
    OBVIOUS
  <2>1. Shape' BY ShapeStep DEF RegistryInv, Shape
  <2>2. LockerHasRedis'
    BY DEF RegistryInv, RegistryTypeOK, LockerHasRedis, RegistryNext, Continue, registryVars,
       call, Register, MyTurn, MyTurnNoRedis, Lock, Busy, Find, Touch, ReadLimit, CountDevices,
       Create, Release, ReleaseFails, Leave, LockExpires, LockLost, DeleteDevice, ServerDies,
       CallAt, Critical
  <2> QED BY <2>1, <2>2, HolderStep, CountStep DEF RegistryInv, Shape
<1> QED BY <1>1, RegistryInitially, PTL DEF RegistrySpec

(* Among the calls that took the lock less than 15 s ago, one works at a   *)
(* time.                                                                   *)
THEOREM OneAtATime == RegistrySpec => []AloneInTime
<1>1. RegistryInv => AloneInTime BY DEF RegistryInv, HolderHasLock, AloneInTime
<1> QED BY <1>1, RegistryInvariant, PTL

(* The plan's cap on devices holds as long as no call works for more than  *)
(* 15 s, Redis is there and every call finds the cap.                      *)
THEOREM CapIsKept == RegistrySpec => []CapHolds
<1>1. RegistryInv => CapHolds BY DEF RegistryInv, CountStands, Orderly, CapHolds
<1> QED BY <1>1, RegistryInvariant, PTL

-----------------------------------------------------------------------------
(* Stream sessions: the sorted set.                                        *)

Distinct(q) == \A i, k \in 1 .. Len(q) : q[i] = q[k] => i = k

LEMMA ListedMember ==
  ASSUME NEW q \in Seq(Session)
  PROVE  /\ Listed(q) \subseteq Session
         /\ \A m : m \in Listed(q) <=> \E i \in 1 .. Len(q) : q[i] = m
  BY DEF Listed

(* A member leaves the set, and only that one.                             *)
LEMMA WithoutFits ==
  ASSUME NEW q \in Seq(Session), Distinct(q), NEW s
  PROVE  /\ Without(q, s) \in Seq(Session) /\ Distinct(Without(q, s))
         /\ Len(Without(q, s)) <= Len(q)
         /\ Listed(Without(q, s)) = Listed(q) \ {s}
<1>1. CASE \A i \in 1 .. Len(q) : q[i] # s
  <2>1. Without(q, s) = q BY <1>1 DEF Without
  <2>2. Listed(q) = Listed(q) \ {s} BY <1>1 DEF Listed
  <2> QED BY <2>1, <2>2
<1>2. CASE \E i \in 1 .. Len(q) : q[i] = s
  <2> DEFINE at == CHOOSE i \in 1 .. Len(q) : q[i] = s
             n == Len(q) - 1
             w == [k \in 1 .. n |-> q[IF k < at THEN k ELSE k + 1]]
  <2>1. at \in 1 .. Len(q) /\ q[at] = s BY <1>2
  <2>2. Without(q, s) = w BY <1>2 DEF Without
  <2> HIDE DEF at
  <2>3. Len(q) \in Nat OBVIOUS
  <2>4. n \in Nat BY <2>1, <2>3
  <2>5. \A k \in 1 .. n : (IF k < at THEN k ELSE k + 1) \in 1 .. Len(q) BY <2>1, <2>3
  <2>6. w \in Seq(Session)
    <3>1. \A k \in 1 .. n : w[k] \in Session BY <2>5, ElementOfSeq
    <3> QED BY <3>1, <2>4, IsASeq
  <2>7. DOMAIN w = 1 .. n OBVIOUS
  <2>8. Len(w) = n BY <2>4, <2>6, <2>7, LenProperties
  <2>9. Distinct(w)
    <3> SUFFICES ASSUME NEW i \in 1 .. n, NEW k \in 1 .. n, w[i] = w[k] PROVE i = k
      BY <2>8 DEF Distinct
    <3>1. q[IF i < at THEN i ELSE i + 1] = q[IF k < at THEN k ELSE k + 1] OBVIOUS
    <3>2. (IF i < at THEN i ELSE i + 1) = (IF k < at THEN k ELSE k + 1)
      BY <3>1, <2>5 DEF Distinct
    <3> QED BY <3>2, <2>1, <2>3, <2>4
  <2>10. ASSUME NEW m \in Listed(w) PROVE m \in Listed(q) \ {s}
    <3>1. PICK k \in 1 .. n : w[k] = m BY <2>8 DEF Listed
    <3> DEFINE j == IF k < at THEN k ELSE k + 1
    <3>2. m = q[j] /\ j \in 1 .. Len(q) BY <3>1, <2>5
    <3>3. j # at BY <2>1, <2>3, <2>4
    <3>4. m # s BY <3>2, <3>3, <2>1 DEF Distinct
    <3> QED BY <3>2, <3>4 DEF Listed
  <2>11. ASSUME NEW m \in Listed(q) \ {s} PROVE m \in Listed(w)
    <3>1. PICK j \in 1 .. Len(q) : q[j] = m BY DEF Listed
    <3>2. j # at BY <3>1, <2>1
    <3> DEFINE k == IF j < at THEN j ELSE j - 1
    <3>3. k \in 1 .. n /\ (IF k < at THEN k ELSE k + 1) = j BY <3>2, <2>1, <2>3
    <3>4. w[k] = m BY <3>3, <3>1
    <3> QED BY <3>3, <3>4, <2>8 DEF Listed
  <2> HIDE DEF w
  <2>12. Len(w) <= Len(q) BY <2>3, <2>8
  <2>13. Listed(w) = Listed(q) \ {s}
    <3>1. Listed(w) \subseteq Listed(q) \ {s} BY <2>10, Zenon
    <3>2. Listed(q) \ {s} \subseteq Listed(w) BY <2>11, Zenon
    <3> QED BY <3>1, <3>2, Zenon
  <2> QED BY <2>2, <2>6, <2>9, <2>12, <2>13
<1> QED BY <1>1, <1>2

(* ZADD: the member is listed once, and at most one more than before.      *)
LEMMA ZaddFits ==
  ASSUME NEW q \in Seq(Session), Distinct(q), NEW s \in Session
  PROVE  /\ Zadd(q, s) \in Seq(Session) /\ Distinct(Zadd(q, s))
         /\ Len(Zadd(q, s)) <= Len(q) + 1
         /\ Listed(Zadd(q, s)) = Listed(q) \cup {s}
<1> DEFINE w == Without(q, s)
<1>1. /\ w \in Seq(Session) /\ Distinct(w) /\ Len(w) <= Len(q)
      /\ Listed(w) = Listed(q) \ {s}
  BY WithoutFits
<1> HIDE DEF w
<1>2. /\ Append(w, s) \in Seq(Session) /\ Len(Append(w, s)) = Len(w) + 1
      /\ \A i \in 1 .. Len(w) : Append(w, s)[i] = w[i]
      /\ Append(w, s)[Len(w) + 1] = s
  BY <1>1
<1>3. Len(w) \in Nat /\ Len(q) \in Nat BY <1>1
<1>4. \A i \in 1 .. Len(w) : w[i] # s BY <1>1 DEF Listed
<1>5. Distinct(Append(w, s))
  <2> SUFFICES ASSUME NEW i \in 1 .. Len(w) + 1, NEW k \in 1 .. Len(w) + 1,
                      Append(w, s)[i] = Append(w, s)[k]
               PROVE  i = k
    BY <1>2 DEF Distinct
  <2>1. CASE i \in 1 .. Len(w) /\ k \in 1 .. Len(w) BY <2>1, <1>1, <1>2 DEF Distinct
  <2>2. CASE i = Len(w) + 1 /\ k \in 1 .. Len(w) BY <2>2, <1>2, <1>4
  <2>3. CASE i \in 1 .. Len(w) /\ k = Len(w) + 1 BY <2>3, <1>2, <1>4
  <2> QED BY <2>1, <2>2, <2>3, <1>3
<1>6. Listed(Append(w, s)) = Listed(w) \cup {s}
  <2>1. ASSUME NEW m \in Listed(Append(w, s)) PROVE m \in Listed(w) \cup {s}
    <3>1. PICK i \in 1 .. Len(w) + 1 : Append(w, s)[i] = m BY <1>2 DEF Listed
    <3> QED BY <3>1, <1>2, <1>3 DEF Listed
  <2>2. ASSUME NEW m \in Listed(w) PROVE m \in Listed(Append(w, s))
    <3>1. PICK i \in 1 .. Len(w) : w[i] = m BY DEF Listed
    <3>2. Append(w, s)[i] = m /\ i \in 1 .. Len(w) + 1 BY <3>1, <1>2, <1>3
    <3> QED BY <3>2, <1>2 DEF Listed
  <2>3. s \in Listed(Append(w, s))
    <3>1. Len(w) + 1 \in 1 .. Len(w) + 1 BY <1>3
    <3> QED BY <3>1, <1>2 DEF Listed
  <2> QED BY <2>1, <2>2, <2>3
<1>7. Zadd(q, s) = Append(w, s) BY DEF Zadd, w
<1> QED BY <1>1, <1>2, <1>3, <1>5, <1>6, <1>7

(* ZPOPMIN: the oldest leaves.                                             *)
LEMMA TailFits ==
  ASSUME NEW q \in Seq(Session), Distinct(q), q # <<>>
  PROVE  /\ Tail(q) \in Seq(Session) /\ Distinct(Tail(q))
         /\ Len(Tail(q)) = Len(q) - 1
         /\ Head(q) \in Session
         /\ Listed(Tail(q)) = Listed(q) \ {Head(q)}
<1> DEFINE t == Tail(q)
<1>1. /\ t \in Seq(Session) /\ Len(t) = Len(q) - 1 /\ Len(q) \in Nat \ {0}
      /\ Head(q) = q[1] /\ Head(q) \in Session
      /\ \A i \in 1 .. Len(t) : t[i] = q[i + 1]
  BY HeadTailProperties
<1> HIDE DEF t
<1>2. Distinct(t)
  <2> SUFFICES ASSUME NEW i \in 1 .. Len(t), NEW k \in 1 .. Len(t), t[i] = t[k] PROVE i = k
    BY DEF Distinct
  <2>1. q[i + 1] = q[k + 1] /\ i + 1 \in 1 .. Len(q) /\ k + 1 \in 1 .. Len(q) BY <1>1
  <2>2. i + 1 = k + 1 BY <2>1 DEF Distinct
  <2> QED BY <2>2
<1>3. ASSUME NEW m \in Listed(t) PROVE m \in Listed(q) \ {Head(q)}
  <2>1. PICK i \in 1 .. Len(t) : t[i] = m BY DEF Listed
  <2>2. q[i + 1] = m /\ i + 1 \in 1 .. Len(q) /\ 1 \in 1 .. Len(q) /\ i + 1 # 1 BY <2>1, <1>1
  <2>3. m # q[1] BY <2>2 DEF Distinct
  <2> QED BY <2>2, <2>3, <1>1 DEF Listed
<1>4. ASSUME NEW m \in Listed(q) \ {Head(q)} PROVE m \in Listed(t)
  <2>1. PICK j \in 1 .. Len(q) : q[j] = m BY DEF Listed
  <2>2. j # 1 BY <2>1, <1>1
  <2>3. j - 1 \in 1 .. Len(t) /\ (j - 1) + 1 = j BY <2>2, <1>1
  <2>4. t[j - 1] = m BY <2>1, <2>3, <1>1
  <2> QED BY <2>3, <2>4 DEF Listed
<1> QED BY <1>1, <1>2, <1>3, <1>4 DEF t


-----------------------------------------------------------------------------
(* Every variable keeps its shape; a request that works has a session; and *)
(* with scripts no request is within the decision.                         *)

SessionsShape ==
  /\ SessionsTypeOK
  /\ \A r \in Request :
       /\ step[r] # "idle" => sess[r] \in Session
       /\ step[r] \in {"removing", "comparing", "evicting", "unlisting"} => victim[r] \in Session
  /\ scripted => \A r \in Request :
       step[r] \in {"idle", "looking", "joining", "pruning", "removing"}

LEMMA RespondShape ==
  ASSUME SessionsShape, NEW r \in Request, Respond(r), UNCHANGED scripted
  PROVE  /\ step' \in [Request -> {"idle", "looking", "joining", "pruning", "removing", "full",
                           "comparing", "evicting", "unlisting", "adding", "keying"}]
         /\ sess' \in [Request -> Session \cup {NoDevice}]
         /\ cap' \in [Request -> {PlanMax, EnvMax}]
         /\ todo' \in [Request -> SUBSET Session]
         /\ victim' \in [Request -> Session \cup {NoDevice}]
         /\ \A p \in Request :
              /\ step'[p] # "idle" => sess'[p] \in Session
              /\ step'[p] \in {"removing", "comparing", "evicting", "unlisting"}
                   => victim'[p] \in Session
         /\ scripted' => \A p \in Request :
              step'[p] \in {"idle", "looking", "joining", "pruning", "removing"}
  BY DEF Respond, RequestAt, SessionsShape, SessionsTypeOK

LEMMA AskShape ==
  ASSUME SessionsShape, NEW r \in Request, NEW s \in Session,
         Authorize(r, s) \/ Resume(r, s) \/ CheckMember(r, s)
  PROVE  SessionsShape'
<1> USE DEF SessionsShape, SessionsTypeOK, RequestAt
<1>1. CASE Authorize(r, s) BY <1>1 DEF Authorize
<1>2. CASE Resume(r, s) BY <1>2 DEF Resume
<1>3. CASE CheckMember(r, s) BY <1>3 DEF CheckMember
<1> QED BY <1>1, <1>2, <1>3

LEMMA PruneShape ==
  ASSUME SessionsShape, NEW r \in Request,
         Look(r) \/ ListMembers(r) \/ RemoveMember(r)
  PROVE  SessionsShape'
<1>1. CASE Look(r)
  <2>1. CASE sess[r] \in Members
    BY <1>1, <2>1, RespondShape DEF Look, SessionsShape, SessionsTypeOK
  <2>2. CASE sess[r] \notin Members
    BY <1>1, <2>2 DEF Look, RequestAt, SessionsShape, SessionsTypeOK
  <2> QED BY <2>1, <2>2
<1>2. CASE ListMembers(r)
  <2>1. Members \subseteq Session
    BY ListedMember DEF Members, SessionsShape, SessionsTypeOK
  <2> QED BY <1>2, <2>1 DEF ListMembers, RequestAt, SessionsShape, SessionsTypeOK
<1>3. CASE RemoveMember(r)
  <2>1. order' \in Seq(Session) /\ Distinct(order')
    BY <1>3, WithoutFits DEF RemoveMember, SessionsShape, SessionsTypeOK, Distinct
  <2> QED BY <1>3, <2>1 DEF RemoveMember, RequestAt, SessionsShape, SessionsTypeOK, Distinct
<1> QED BY <1>1, <1>2, <1>3

(* What a decision leaves to be done on the sorted set.                    *)
LEMMA DecideOrder ==
  ASSUME SessionsShape, NEW r \in Request, Decide(r), ~(Full(r) /\ Refused(r))
  PROVE  /\ order' \in Seq(Session) /\ Distinct(order')
         /\ Len(order') <= (IF Full(r) THEN Len(order) ELSE Len(order) + 1)
         /\ Full(r) => /\ Head(order) \in Session /\ key' = (key \ {Head(order)}) \cup {sess[r]}
                       /\ Listed(order') = (Listed(order) \ {Head(order)}) \cup {sess[r]}
                       /\ dropped' = dropped \cup
                            {v \in {Head(order)} \ {sess[r]} : OwnDevice(v, sess[r])}
         /\ ~Full(r) => /\ key' = key \cup {sess[r]} /\ dropped' = dropped
                        /\ Listed(order') = Listed(order) \cup {sess[r]}
         /\ token' = token \cup {sess[r]} /\ joined' = joined \cup {sess[r]}
<1>1. sess[r] \in Session /\ order \in Seq(Session) /\ Distinct(order)
  BY DEF Decide, SessionsShape, SessionsTypeOK, Distinct
<1>2. CASE Full(r)
  <2>1. order # <<>>
    <3>1. cap[r] \in Nat \ {0} BY MaxAssumption DEF SessionsShape, SessionsTypeOK
    <3>2. Len(order) # 0 BY <1>2, <3>1 DEF Full
    <3> QED BY <3>2
  <2> DEFINE rest == Tail(order)
  <2>2. /\ rest \in Seq(Session) /\ Distinct(rest) /\ Len(rest) = Len(order) - 1
        /\ Listed(rest) = Listed(order) \ {Head(order)} /\ Head(order) \in Session
    BY <1>1, <2>1, TailFits
  <2>3. /\ order' = Zadd(rest, sess[r])
        /\ key' = (key \ {Head(order)}) \cup {sess[r]}
        /\ token' = token \cup {sess[r]} /\ joined' = joined \cup {sess[r]}
        /\ dropped' = dropped \cup {v \in {Head(order)} \ {sess[r]} : OwnDevice(v, sess[r])}
    BY <1>2 DEF Decide
  <2> HIDE DEF rest
  <2>4. /\ order' \in Seq(Session) /\ Distinct(order') /\ Len(order') <= Len(rest) + 1
        /\ Listed(order') = Listed(rest) \cup {sess[r]}
    BY <1>1, <2>2, <2>3, ZaddFits
  <2>5. Len(order') <= Len(order)
    <3>1. Len(order') \in Nat /\ Len(order) \in Nat /\ Len(rest) \in Nat BY <1>1, <2>2, <2>4
    <3> QED BY <3>1, <2>2, <2>4
  <2> QED BY <1>2, <2>2, <2>3, <2>4, <2>5
<1>3. CASE ~Full(r)
  <2>1. /\ order' = Zadd(order, sess[r])
        /\ key' = (key \ {}) \cup {sess[r]}
        /\ token' = token \cup {sess[r]} /\ joined' = joined \cup {sess[r]}
        /\ dropped' = dropped \cup {v \in {} \ {sess[r]} : OwnDevice(v, sess[r])}
    BY <1>3 DEF Decide
  <2>2. key' = key \cup {sess[r]} /\ dropped' = dropped BY <2>1
  <2>3. /\ order' \in Seq(Session) /\ Distinct(order') /\ Len(order') <= Len(order) + 1
        /\ Listed(order') = Listed(order) \cup {sess[r]}
    BY <1>1, <2>1, ZaddFits
  <2> QED BY <1>3, <2>1, <2>2, <2>3
<1> QED BY <1>2, <1>3

LEMMA DecideShape ==
  ASSUME SessionsShape, NEW r \in Request, Decide(r)
  PROVE  SessionsShape'
<1>1. Respond(r) /\ UNCHANGED <<policy, scripted, revoking>> BY DEF Decide
<1>2. sess[r] \in Session BY DEF Decide, SessionsShape
<1>3. CASE Full(r) /\ Refused(r)
  <2>1. UNCHANGED <<order, key, token, joined, dropped>> BY <1>3 DEF Decide
  <2> QED BY <1>1, <2>1, RespondShape DEF SessionsShape, SessionsTypeOK
<1>4. CASE ~(Full(r) /\ Refused(r))
  <2>1. /\ order' \in Seq(Session) /\ Distinct(order')
        /\ key' \subseteq Session /\ token' \subseteq Session
        /\ joined' \subseteq Session /\ dropped' \subseteq Session
    BY <1>2, <1>4, DecideOrder DEF SessionsShape, SessionsTypeOK
  <2> QED BY <1>1, <2>1, RespondShape DEF SessionsShape, SessionsTypeOK, Distinct
<1> QED BY <1>3, <1>4

LEMMA CommandShape ==
  ASSUME SessionsShape, NEW r \in Request,
         \/ Count(r) \/ Oldest(r) \/ Compare(r) \/ Evict(r) \/ Unlist(r) \/ Add(r) \/ SetKey(r)
  PROVE  SessionsShape'
<1>1. CASE Count(r) BY <1>1 DEF Count, RequestAt, SessionsShape, SessionsTypeOK
<1>2. CASE Oldest(r)
  <2>1. order # <<>> => Head(order) \in Session
    BY DEF SessionsShape, SessionsTypeOK
  <2> QED BY <1>2, <2>1 DEF Oldest, RequestAt, SessionsShape, SessionsTypeOK
<1>3. CASE Compare(r)
  <2>1. CASE SameDevice(victim[r], sess[r])
    BY <1>3, <2>1 DEF Compare, RequestAt, SessionsShape, SessionsTypeOK
  <2>2. CASE ~SameDevice(victim[r], sess[r])
    BY <1>3, <2>2, RespondShape DEF Compare, SessionsShape, SessionsTypeOK
  <2> QED BY <2>1, <2>2
<1>4. CASE Evict(r)
  <2>1. victim[r] \in Session BY <1>4 DEF Evict, SessionsShape
  <2> QED BY <1>4, <2>1 DEF Evict, RequestAt, SessionsShape, SessionsTypeOK
<1>5. CASE Unlist(r)
  <2>1. order' \in Seq(Session) /\ Distinct(order')
    BY <1>5, WithoutFits DEF Unlist, SessionsShape, SessionsTypeOK, Distinct
  <2> QED BY <1>5, <2>1 DEF Unlist, RequestAt, SessionsShape, SessionsTypeOK, Distinct
<1>6. CASE Add(r)
  <2>1. order' \in Seq(Session) /\ Distinct(order')
    BY <1>6, ZaddFits DEF Add, SessionsShape, SessionsTypeOK, Distinct
  <2> QED BY <1>6, <2>1 DEF Add, RequestAt, SessionsShape, SessionsTypeOK, Distinct
<1>7. CASE SetKey(r)
  <2>1. sess[r] \in Session BY <1>7 DEF SetKey, SessionsShape
  <2> QED BY <1>7, <2>1, RespondShape DEF SetKey, SessionsShape, SessionsTypeOK
<1> QED BY <1>1, <1>2, <1>3, <1>4, <1>5, <1>6, <1>7

LEMMA OutsideShape ==
  ASSUME SessionsShape, NEW s \in Session,
         PreIssue(s) \/ Revoke(s) \/ RevokeMember(s) \/ TokenExpires(s) \/ KeyExpires(s)
  PROVE  SessionsShape'
<1> USE DEF SessionsShape, SessionsTypeOK, request
<1>1. CASE PreIssue(s) BY <1>1 DEF PreIssue
<1>2. CASE Revoke(s) BY <1>2 DEF Revoke
<1>3. CASE RevokeMember(s)
  <2>1. order' \in Seq(Session) /\ Distinct(order')
    BY <1>3, WithoutFits DEF RevokeMember, Distinct
  <2> QED BY <1>3, <2>1 DEF RevokeMember, Distinct
<1>4. CASE TokenExpires(s) BY <1>4 DEF TokenExpires
<1>5. CASE KeyExpires(s) BY <1>5 DEF KeyExpires
<1> QED BY <1>1, <1>2, <1>3, <1>4, <1>5

LEMMA SessionsShapeStep == SessionsShape /\ [SessionsNext]_sessionVars => SessionsShape'
<1> SUFFICES ASSUME SessionsShape, [SessionsNext]_sessionVars PROVE SessionsShape' OBVIOUS
<1>1. CASE SessionsNext
  BY <1>1, AskShape, PruneShape, DecideShape, CommandShape, OutsideShape DEF SessionsNext
<1>2. CASE UNCHANGED sessionVars
  BY <1>2 DEF sessionVars, request, SessionsShape, SessionsTypeOK
<1> QED BY <1>1, <1>2


LEMMA SessionsInitially == SessionsInit => SessionsShape
  BY MaxAssumption DEF SessionsInit, SessionsShape, SessionsTypeOK

-----------------------------------------------------------------------------
(* The limit.                                                              *)

Most == IF PlanMax > EnvMax THEN PlanMax ELSE EnvMax

(* Only a decision makes the set longer, and within one request's limit.   *)
LEMMA LimitStep ==
  SessionsShape /\ SessionsShape' /\ LimitHolds /\ [SessionsNext]_sessionVars => LimitHolds'
<1> SUFFICES ASSUME SessionsShape, SessionsShape', LimitHolds, [SessionsNext]_sessionVars,
                    scripted'
             PROVE  Len(order') <= Most
  BY DEF LimitHolds, Most
<1>1. scripted
  BY DEF SessionsNext, Authorize, Resume, CheckMember, Look, ListMembers, RemoveMember, Decide,
    Count, Oldest, Compare, Evict, Unlist, Add, SetKey, PreIssue, Revoke, RevokeMember,
    TokenExpires, KeyExpires, sessionVars
<1>2. /\ order \in Seq(Session) /\ Distinct(order) /\ order' \in Seq(Session)
      /\ Len(order) \in Nat /\ Len(order') \in Nat /\ Most \in Nat /\ Len(order) <= Most
  BY <1>1, MaxAssumption DEF LimitHolds, SessionsShape, SessionsTypeOK, Distinct, Most
<1>3. CASE UNCHANGED order BY <1>2, <1>3
<1>4. ASSUME NEW s, order' = Without(order, s) PROVE Len(order') <= Most
  <2>1. Len(order') <= Len(order) BY <1>2, <1>4, WithoutFits
  <2> QED BY <1>2, <2>1
<1>5. ASSUME NEW r \in Request, Decide(r) PROVE Len(order') <= Most
  <2>1. cap[r] \in Nat /\ cap[r] <= Most
    BY MaxAssumption DEF SessionsShape, SessionsTypeOK, Most
  <2>2. CASE Full(r) /\ Refused(r) BY <1>2, <1>5, <2>2 DEF Decide
  <2>3. CASE Full(r) /\ ~Refused(r)
    <3>1. Len(order') <= Len(order) BY <1>5, <2>3, DecideOrder
    <3> QED BY <1>2, <3>1
  <2>4. CASE ~Full(r)
    <3>1. Len(order') <= Len(order) + 1 BY <1>5, <2>4, DecideOrder
    <3>2. Len(order) < cap[r] BY <2>4, <2>1, <1>2 DEF Full
    <3> QED BY <1>2, <2>1, <3>1, <3>2
  <2> QED BY <2>2, <2>3, <2>4
<1>6. ASSUME NEW r \in Request, Add(r) PROVE FALSE
  BY <1>1, <1>6 DEF Add, SessionsShape
<1>7. CASE UNCHANGED sessionVars BY <1>3, <1>7 DEF sessionVars
<1>8. CASE SessionsNext
  <2>1. ASSUME NEW r \in Request, NEW s \in Session,
               Authorize(r, s) \/ Resume(r, s) \/ CheckMember(r, s)
        PROVE  UNCHANGED order
    BY <2>1 DEF Authorize, Resume, CheckMember
  <2>2. ASSUME NEW r \in Request,
               \/ Look(r) \/ ListMembers(r) \/ Count(r) \/ Oldest(r) \/ Compare(r)
               \/ Evict(r) \/ SetKey(r)
        PROVE  UNCHANGED order
    BY <2>2 DEF Look, ListMembers, Count, Oldest, Compare, Evict, SetKey
  <2>3. ASSUME NEW r \in Request, RemoveMember(r) \/ Unlist(r)
        PROVE  order' = Without(order, victim[r])
    BY <2>3 DEF RemoveMember, Unlist
  <2>4. ASSUME NEW s \in Session,
               PreIssue(s) \/ Revoke(s) \/ TokenExpires(s) \/ KeyExpires(s)
        PROVE  UNCHANGED order
    BY <2>4 DEF PreIssue, Revoke, TokenExpires, KeyExpires
  <2>5. ASSUME NEW s \in Session, RevokeMember(s) PROVE order' = Without(order, s)
    BY <2>5 DEF RevokeMember
  <2>6. ASSUME NEW r \in Request, RemoveMember(r) \/ Unlist(r) PROVE Len(order') <= Most
    BY <2>6, <2>3, <1>4
  <2>7. ASSUME NEW s \in Session, RevokeMember(s) PROVE Len(order') <= Most
    BY <2>7, <2>5, <1>4
  <2> QED BY <1>3, <1>5, <1>6, <1>8, <2>1, <2>2, <2>4, <2>6, <2>7 DEF SessionsNext
<1> QED BY <1>7, <1>8

(* However requests race, a store with scripts keeps a user within the     *)
(* greatest of the limits that requests are given: registerStreamSession   *)
(* decides and registers in one EVAL.                                      *)
THEOREM SessionsWithinLimit == SessionsSpec => []LimitHolds
<1>1. SessionsInit => LimitHolds
  BY MaxAssumption DEF SessionsInit, LimitHolds
<1>2. SessionsInit => SessionsShape BY SessionsInitially
<1>3. SessionsShape /\ [SessionsNext]_sessionVars => SessionsShape' BY SessionsShapeStep
<1> QED BY <1>1, <1>2, <1>3, LimitStep, PTL DEF SessionsSpec

-----------------------------------------------------------------------------
(* Admitted viewers.                                                       *)

(* A session that may be removed: its device replaced it, an admin revoked *)
(* it, or its token has expired and no request brings it back.             *)
Gone(m) == m \in dropped \/ (m \notin token /\ \A r \in Request : sess[r] # m)

(* Pruning acts on old lookups.  What makes it safe is that a member that  *)
(* has lost its key never again belongs to a viewer who has been admitted. *)
Admission ==
  /\ joined \subseteq token /\ revoking \subseteq dropped
  /\ \A m \in Members : m \in key \/ Gone(m)
  /\ \A r \in Request : \A m \in todo[r] : m \in key \/ Gone(m)
  /\ \A r \in Request : step[r] = "removing" => Gone(victim[r])
  /\ \A s \in (joined \cap token) \ dropped : s \in Members /\ s \in key

Strict == scripted /\ policy = "refuse"

Admitted == Strict => Admission

(* A member that is listed or looked up, or a victim, cannot be used anew. *)
LEMMA GoneStays ==
  ASSUME SessionsShape, Strict, NEW m \in Session, Gone(m), ~Unused(m), SessionsNext
  PROVE  Gone(m)'
<1> USE SessionAssumption DEF Gone
<1>1. ASSUME NEW r \in Request, NEW s \in Session, Authorize(r, s) PROVE Gone(m)'
  BY <1>1 DEF Authorize, SessionsShape, SessionsTypeOK, Unused
<1>2. ASSUME NEW r \in Request, NEW s \in Session, Resume(r, s) PROVE Gone(m)'
  BY <1>2 DEF Resume, SessionsShape, SessionsTypeOK
<1>3. ASSUME NEW r \in Request, NEW s \in Session, CheckMember(r, s) PROVE Gone(m)'
  BY <1>3 DEF CheckMember
<1>4. ASSUME NEW r \in Request, Look(r) PROVE Gone(m)'
  BY <1>4 DEF Look, Respond, SessionsShape, SessionsTypeOK
<1>5. ASSUME NEW r \in Request, ListMembers(r) \/ RemoveMember(r) PROVE Gone(m)'
  BY <1>5 DEF ListMembers, RemoveMember
<1>6. ASSUME NEW r \in Request, Decide(r) PROVE Gone(m)'
  <2>1. Respond(r) BY <1>6 DEF Decide
  <2>2. dropped \subseteq dropped' /\ token' \subseteq token \cup {sess[r]}
    BY <1>6 DEF Decide
  <2> QED BY <2>1, <2>2 DEF Respond, SessionsShape, SessionsTypeOK
<1>7. ASSUME NEW r \in Request,
             \/ Count(r) \/ Oldest(r) \/ Compare(r) \/ Evict(r) \/ Unlist(r) \/ Add(r) \/ SetKey(r)
      PROVE  Gone(m)'
  BY <1>7 DEF Count, Oldest, Compare, Evict, Unlist, Add, SetKey, Strict, SessionsShape
<1>8. ASSUME NEW s \in Session, PreIssue(s) PROVE Gone(m)'
  BY <1>8 DEF PreIssue, Unused, request
<1>9. ASSUME NEW s \in Session,
             Revoke(s) \/ RevokeMember(s) \/ TokenExpires(s) \/ KeyExpires(s)
      PROVE  Gone(m)'
  BY <1>9 DEF Revoke, RevokeMember, TokenExpires, KeyExpires, request
<1> QED BY <1>1, <1>2, <1>3, <1>4, <1>5, <1>6, <1>7, <1>8, <1>9 DEF SessionsNext

(* A key goes only with what makes its session one that may be removed.    *)
LEMMA KeyOrGone ==
  ASSUME SessionsShape, Strict, NEW m \in Session, m \in key \/ Gone(m), ~Unused(m),
         SessionsNext
  PROVE  m \in key' \/ Gone(m)'
<1>1. CASE Gone(m) BY <1>1, GoneStays
<1>2. CASE m \in key
  <2>1. ASSUME NEW r \in Request, NEW s \in Session,
               Authorize(r, s) \/ Resume(r, s) \/ CheckMember(r, s)
        PROVE  key' = key
    BY <2>1 DEF Authorize, Resume, CheckMember
  <2>2. ASSUME NEW r \in Request, Look(r) \/ ListMembers(r) \/ RemoveMember(r) PROVE key' = key
    BY <2>2 DEF Look, ListMembers, RemoveMember
  <2>3. ASSUME NEW r \in Request, Decide(r) PROVE m \in key' \/ Gone(m)'
    <3>1. CASE Full(r) /\ Refused(r) BY <1>2, <2>3, <3>1 DEF Decide
    <3>2. CASE Full(r) /\ ~Refused(r)
      <4>1. OwnDevice(Head(order), sess[r]) BY <3>2 DEF Refused, Strict, SameDevice
      <4> QED BY <1>2, <2>3, <3>2, <4>1, DecideOrder DEF Gone
    <3>3. CASE ~Full(r) BY <1>2, <2>3, <3>3, DecideOrder
    <3> QED BY <3>1, <3>2, <3>3
  <2>4. ASSUME NEW r \in Request,
             \/ Count(r) \/ Oldest(r) \/ Compare(r) \/ Evict(r) \/ Unlist(r) \/ Add(r) \/ SetKey(r)
        PROVE  FALSE
    BY <2>4 DEF Count, Oldest, Compare, Evict, Unlist, Add, SetKey, Strict, SessionsShape
  <2>5. ASSUME NEW s \in Session, PreIssue(s) \/ RevokeMember(s) \/ TokenExpires(s)
        PROVE  key' = key
    BY <2>5 DEF PreIssue, RevokeMember, TokenExpires
  <2>6. ASSUME NEW s \in Session, Revoke(s) \/ KeyExpires(s) PROVE m \in key' \/ Gone(m)'
    BY <1>2, <2>6 DEF Revoke, KeyExpires, Gone, request
  <2> QED BY <1>2, <2>1, <2>2, <2>3, <2>4, <2>5, <2>6 DEF SessionsNext
<1> QED BY <1>1, <1>2

(* Who is listed afterwards was listed before or has just been registered. *)
LEMMA ListedStep ==
  ASSUME SessionsShape, Strict, NEW m \in Session, m \in Members', m \notin Members, SessionsNext
  PROVE  m \in key'
<1>1. order \in Seq(Session) /\ Distinct(order) BY DEF SessionsShape, SessionsTypeOK, Distinct
<1>2. ASSUME NEW s, order' = Without(order, s) PROVE FALSE
  <2>1. Listed(Without(order, s)) = Listed(order) \ {s} BY <1>1, WithoutFits
  <2> QED BY <1>2, <2>1 DEF Members
<1>3. order' # order BY DEF Members
<1>4. ASSUME NEW r \in Request, Decide(r) PROVE m \in key'
  <2>1. ~(Full(r) /\ Refused(r)) BY <1>3, <1>4 DEF Decide
  <2>2. m = sess[r] BY <1>4, <2>1, DecideOrder DEF Members
  <2> QED BY <1>4, <2>1, <2>2, DecideOrder
<1>5. ASSUME NEW r \in Request, NEW s \in Session,
               Authorize(r, s) \/ Resume(r, s) \/ CheckMember(r, s)
      PROVE  FALSE
  BY <1>3, <1>5 DEF Authorize, Resume, CheckMember
<1>6. ASSUME NEW r \in Request, Look(r) \/ ListMembers(r) PROVE FALSE
  BY <1>3, <1>6 DEF Look, ListMembers
<1>7. ASSUME NEW r \in Request, RemoveMember(r) PROVE FALSE
  BY <1>2, <1>7 DEF RemoveMember
<1>8. ASSUME NEW r \in Request,
             \/ Count(r) \/ Oldest(r) \/ Compare(r) \/ Evict(r) \/ Unlist(r) \/ Add(r) \/ SetKey(r)
      PROVE  FALSE
  BY <1>8 DEF Count, Oldest, Compare, Evict, Unlist, Add, SetKey, Strict, SessionsShape
<1>9. ASSUME NEW s \in Session, PreIssue(s) \/ Revoke(s) \/ TokenExpires(s) \/ KeyExpires(s)
      PROVE  FALSE
  BY <1>3, <1>9 DEF PreIssue, Revoke, TokenExpires, KeyExpires
<1>10. ASSUME NEW s \in Session, RevokeMember(s) PROVE FALSE
  BY <1>2, <1>10 DEF RevokeMember
<1> QED BY <1>4, <1>5, <1>6, <1>7, <1>8, <1>9, <1>10 DEF SessionsNext

(* Lookups: a member is looked up when it was listed, and is a victim when *)
(* it had no key.                                                          *)
LEMMA LookupStep ==
  ASSUME SessionsShape, SessionsShape', Strict, Admission, SessionsNext, NEW r \in Request
  PROVE  /\ \A m \in todo'[r] : m \in key' \/ Gone(m)'
         /\ step'[r] = "removing" => Gone(victim[r])'
<1>1. todo'[r] \subseteq todo[r] \cup Members
  BY DEF SessionsNext, Authorize, Resume, CheckMember, Look, ListMembers, RemoveMember, Decide,
    Count, Oldest, Compare, Evict, Unlist, Add, SetKey, PreIssue, Revoke, RevokeMember,
    TokenExpires, KeyExpires, Respond, RequestAt, request, SessionsShape, SessionsTypeOK
<1>2. \A m \in todo[r] \cup Members : m \in Session /\ ~Unused(m) /\ (m \in key \/ Gone(m))
  BY ListedMember DEF Members, SessionsShape, SessionsTypeOK, Unused, Admission
<1>3. \A m \in todo'[r] : m \in key' \/ Gone(m)' BY <1>1, <1>2, KeyOrGone
<1>4. ASSUME step'[r] = "removing" PROVE Gone(victim[r])'
  <2>1. PICK v \in Session : v = victim'[r] BY <1>4 DEF SessionsShape
  <2>2. \/ step[r] = "removing" /\ victim[r] = v
        \/ CheckMember(r, v) /\ v \notin key
    BY <1>4, <2>1
    DEF SessionsNext, Authorize, Resume, CheckMember, Look, ListMembers, RemoveMember, Decide,
      Count, Oldest, Compare, Evict, Unlist, Add, SetKey, PreIssue, Revoke, RevokeMember,
      TokenExpires, KeyExpires, Respond, RequestAt, request, SessionsShape, SessionsTypeOK
  <2>3. Gone(v) /\ ~Unused(v)
    BY <2>1, <2>2 DEF CheckMember, Unused, Admission
  <2>4. Gone(v)' BY <2>1, <2>3, GoneStays
  <2> QED BY <2>1, <2>4 DEF Gone
<1> QED BY <1>3, <1>4


(* The histories: who is admitted has a token, and what an admin is about  *)
(* to unlist is no longer a viewer's.                                      *)
LEMMA HistoryStep ==
  ASSUME SessionsShape, Strict, Admission, SessionsNext
  PROVE  joined' \subseteq token' /\ revoking' \subseteq dropped'
<1> USE DEF Admission
<1>1. ASSUME NEW r \in Request, NEW s \in Session,
             Authorize(r, s) \/ Resume(r, s) \/ CheckMember(r, s)
      PROVE  joined' \subseteq token' /\ revoking' \subseteq dropped'
  BY <1>1 DEF Authorize, Resume, CheckMember, Unused
<1>2. ASSUME NEW r \in Request, Look(r) \/ ListMembers(r) \/ RemoveMember(r)
      PROVE  joined' \subseteq token' /\ revoking' \subseteq dropped'
  BY <1>2 DEF Look, ListMembers, RemoveMember
<1>3. ASSUME NEW r \in Request, Decide(r)
      PROVE  joined' \subseteq token' /\ revoking' \subseteq dropped'
  BY <1>3 DEF Decide
<1>4. ASSUME NEW r \in Request,
             \/ Count(r) \/ Oldest(r) \/ Compare(r) \/ Evict(r) \/ Unlist(r) \/ Add(r) \/ SetKey(r)
      PROVE  FALSE
  BY <1>4 DEF Count, Oldest, Compare, Evict, Unlist, Add, SetKey, Strict, SessionsShape
<1>5. ASSUME NEW s \in Session,
             \/ PreIssue(s) \/ Revoke(s) \/ RevokeMember(s) \/ TokenExpires(s) \/ KeyExpires(s)
      PROVE  joined' \subseteq token' /\ revoking' \subseteq dropped'
  BY <1>5 DEF PreIssue, Revoke, RevokeMember, TokenExpires, KeyExpires, Unused
<1> QED BY <1>1, <1>2, <1>3, <1>4, <1>5 DEF SessionsNext

(* A viewer stays one: nothing but its own device, an admin or the end of  *)
(* its token takes its place in the set or its key.                        *)
LEMMA ViewerStep ==
  ASSUME SessionsShape, Strict, Admission, SessionsNext,
         NEW v \in (joined' \cap token') \ dropped'
  PROVE  v \in Members' /\ v \in key'
<1> USE DEF Admission
<1>1. order \in Seq(Session) /\ Distinct(order) /\ \A m \in Members : m \in Session
  BY ListedMember DEF SessionsShape, SessionsTypeOK, Distinct, Members
<1>2. ASSUME v \in (joined \cap token) \ dropped, key' = key, order' = order
      PROVE  v \in Members' /\ v \in key'
  BY <1>2 DEF Members
<1>3. ASSUME NEW s, s # v, order' = Without(order, s), v \in (joined \cap token) \ dropped,
             key' = key
      PROVE  v \in Members' /\ v \in key'
  <2>1. Listed(Without(order, s)) = Listed(order) \ {s} BY <1>1, WithoutFits
  <2> QED BY <1>3, <2>1 DEF Members
<1>4. ASSUME NEW r \in Request, NEW s \in Session, Authorize(r, s)
      PROVE  v \in Members' /\ v \in key'
  BY <1>2, <1>4 DEF Authorize, Unused
<1>5. ASSUME NEW r \in Request, NEW s \in Session, Resume(r, s) \/ CheckMember(r, s)
      PROVE  v \in Members' /\ v \in key'
  BY <1>2, <1>5 DEF Resume, CheckMember
<1>6. ASSUME NEW r \in Request, Look(r) \/ ListMembers(r)
      PROVE  v \in Members' /\ v \in key'
  BY <1>2, <1>6 DEF Look, ListMembers
<1>7. ASSUME NEW r \in Request, RemoveMember(r)
      PROVE  v \in Members' /\ v \in key'
  <2>1. Gone(victim[r]) /\ v \in (joined \cap token) \ dropped BY <1>7 DEF RemoveMember
  <2>2. victim[r] # v BY <2>1 DEF Gone
  <2> QED BY <1>3, <1>7, <2>1, <2>2 DEF RemoveMember
<1>8. ASSUME NEW r \in Request, Decide(r)
      PROVE  v \in Members' /\ v \in key'
  <2>1. CASE Full(r) /\ Refused(r)
    BY <1>2, <1>8, <2>1 DEF Decide
  <2>2. CASE ~(Full(r) /\ Refused(r)) /\ v = sess[r]
    BY <1>8, <2>2, DecideOrder DEF Members
  <2>3. CASE Full(r) /\ ~Refused(r) /\ v # sess[r]
    <3>1. OwnDevice(Head(order), sess[r]) BY <2>3 DEF Refused, Strict, SameDevice
    <3>2. v # Head(order) BY <1>8, <2>3, <3>1, DecideOrder
    <3>3. v \in (joined \cap token) \ dropped BY <1>8, <2>3, DecideOrder
    <3> QED BY <1>8, <2>3, <3>2, <3>3, DecideOrder DEF Members
  <2>4. CASE ~Full(r) /\ v # sess[r]
    BY <1>8, <2>4, DecideOrder DEF Members
  <2> QED BY <2>1, <2>2, <2>3, <2>4
<1>9. ASSUME NEW r \in Request,
             \/ Count(r) \/ Oldest(r) \/ Compare(r) \/ Evict(r) \/ Unlist(r) \/ Add(r) \/ SetKey(r)
      PROVE  FALSE
  BY <1>9 DEF Count, Oldest, Compare, Evict, Unlist, Add, SetKey, Strict, SessionsShape
<1>10. ASSUME NEW s \in Session, PreIssue(s)
       PROVE  v \in Members' /\ v \in key'
  BY <1>2, <1>10 DEF PreIssue, Unused
<1>11. ASSUME NEW s \in Session, RevokeMember(s)
       PROVE  v \in Members' /\ v \in key'
  <2>1. v \in (joined \cap token) \ dropped /\ s # v BY <1>11 DEF RevokeMember
  <2> QED BY <1>3, <1>11, <2>1 DEF RevokeMember
<1>12. ASSUME NEW s \in Session, Revoke(s) \/ TokenExpires(s) \/ KeyExpires(s)
       PROVE  v \in Members' /\ v \in key'
  BY <1>12 DEF Revoke, TokenExpires, KeyExpires, Members
<1> QED BY <1>4, <1>5, <1>6, <1>7, <1>8, <1>9, <1>10, <1>11, <1>12 DEF SessionsNext

LEMMA AdmittedStep ==
  SessionsShape /\ SessionsShape' /\ Admitted /\ [SessionsNext]_sessionVars => Admitted'
<1> SUFFICES ASSUME SessionsShape, SessionsShape', Admitted, [SessionsNext]_sessionVars, Strict'
             PROVE  Admission'
  BY DEF Admitted
<1>1. UNCHANGED <<policy, scripted>>
  BY DEF SessionsNext, Authorize, Resume, CheckMember, Look, ListMembers, RemoveMember, Decide,
    Count, Oldest, Compare, Evict, Unlist, Add, SetKey, PreIssue, Revoke, RevokeMember,
    TokenExpires, KeyExpires, sessionVars
<1>2. Strict /\ Admission BY <1>1 DEF Strict, Admitted
<1>3. CASE UNCHANGED sessionVars
  BY <1>2, <1>3 DEF Admission, Gone, Members, Listed, sessionVars, request
<1>4. CASE SessionsNext
  <2>1. joined' \subseteq token' /\ revoking' \subseteq dropped' BY <1>2, <1>4, HistoryStep
  <2>2. \A m \in Members' : m \in Session
    BY ListedMember DEF Members, SessionsShape, SessionsTypeOK
  <2>3. \A m \in Members' : m \in key' \/ Gone(m)'
    <3>1. \A m \in Members : m \in Session /\ ~Unused(m) /\ (m \in key \/ Gone(m))
      BY <1>2, ListedMember DEF Members, SessionsShape, SessionsTypeOK, Unused, Admission
    <3> QED BY <1>2, <1>4, <2>2, <3>1, KeyOrGone, ListedStep
  <2>4. \A r \in Request :
          /\ \A m \in todo'[r] : m \in key' \/ Gone(m)'
          /\ step'[r] = "removing" => Gone(victim[r])'
    BY <1>2, <1>4, LookupStep
  <2>5. \A v \in (joined' \cap token') \ dropped' : v \in Members' /\ v \in key'
    BY <1>2, <1>4, ViewerStep
  <2> QED BY <2>1, <2>3, <2>4, <2>5 DEF Admission
<1> QED BY <1>3, <1>4

(* Under the strict policy, with a store that evaluates scripts, a session *)
(* that registerStreamSession admitted keeps its member and its key while  *)
(* its token is valid, unless its own device or an admin ended it.         *)
THEOREM ViewersKeepWatching == SessionsSpec => []StillWatching
<1>1. SessionsInit => SessionsShape BY SessionsInitially
<1>2. SessionsInit => Admitted
  BY DEF SessionsInit, Admitted, Admission, Members, Listed
<1>3. SessionsShape /\ [SessionsNext]_sessionVars => SessionsShape' BY SessionsShapeStep
<1>4. Admitted => StillWatching BY DEF Admitted, Admission, Strict, StillWatching
<1> QED BY <1>1, <1>2, <1>3, <1>4, AdmittedStep, PTL DEF SessionsSpec
=============================================================================
