--------------------------- MODULE MCServicesLive ---------------------------
(***************************************************************************)
(* Instances for TLC of components that share no variable.  One run checks *)
(* them: Init chooses the part that moves, and the variables of the other  *)
(* parts keep their initial values.                                        *)
(***************************************************************************)
EXTENDS TaskLease, DeviceRegistry, ClientRedeem,
        Recording, SourceWatchdog, TvPairing, PlayerRecovery

CONSTANTS a1, a2, a3, g1, g2, g3, p1, p2, w3, k1, k2

VARIABLE part

liveVars ==
  <<part, leaseVars, registryVars, clientVars, recordingVars, watchdogVars, pairingVars, playerVars>>

(* Two calls share a process, the third has its own.                       *)
MCProcOf == [a \in Attempt |-> IF a = a3 THEN p2 ELSE p1]
MCServerOf == [c \in Registration |-> IF c = g3 THEN p2 ELSE p1]

(* The scheduler and an admin call the watchdog of one process, and a      *)
(* third call is another process's.                                        *)
MCHostOf == [w \in Watch |-> IF w = w3 THEN p2 ELSE p1]

(* One channel has a stream in every slot, the other one stream.           *)
MCOffered == [c \in Channel |-> IF c = k1 THEN MaxFallbackSlots ELSE 1]

LiveInit ==
  /\ part \in {"lease", "registry", "client", "recording", "watchdog", "pairing", "player"}
  /\ LeaseInit /\ RegistryInit /\ ClientInit
  /\ RecordingInit /\ WatchdogInit /\ PairingInit /\ PlayerInit

OnlyLease ==
  /\ part = "lease"
  /\ UNCHANGED <<part, registryVars, clientVars, recordingVars, watchdogVars, pairingVars, playerVars>>
OnlyRegistry ==
  /\ part = "registry"
  /\ UNCHANGED <<part, leaseVars, clientVars, recordingVars, watchdogVars, pairingVars, playerVars>>
OnlyClient ==
  /\ part = "client"
  /\ UNCHANGED <<part, leaseVars, registryVars, recordingVars, watchdogVars, pairingVars, playerVars>>
OnlyRecording ==
  /\ part = "recording"
  /\ UNCHANGED <<part, leaseVars, registryVars, clientVars, watchdogVars, pairingVars, playerVars>>
OnlyWatchdog ==
  /\ part = "watchdog"
  /\ UNCHANGED <<part, leaseVars, registryVars, clientVars, recordingVars, pairingVars, playerVars>>
OnlyPairing ==
  /\ part = "pairing"
  /\ UNCHANGED <<part, leaseVars, registryVars, clientVars, recordingVars, watchdogVars, playerVars>>
OnlyPlayer ==
  /\ part = "player"
  /\ UNCHANGED <<part, leaseVars, registryVars, clientVars, recordingVars, watchdogVars, pairingVars>>

LiveNext ==
  \/ OnlyLease /\ LeaseNext
  \/ OnlyRegistry /\ RegistryNext
  \/ OnlyClient /\ ClientNext
  \/ OnlyRecording /\ RecordingNext
  \/ OnlyWatchdog /\ WatchdogNext
  \/ OnlyPairing /\ PairingNext
  \/ OnlyPlayer /\ PlayerNext

(* Intervals fire, database calls answer, handlers end, locks age, and a   *)
(* process that died is started again.  No admin has to do anything.       *)
LeaseFairness ==
  /\ \A a \in Attempt : WF_liveVars(OnlyLease /\ GoesOn(a))
  /\ \A r \in Run : WF_liveVars(OnlyLease /\ LockAges(r))
  /\ \A p \in Proc : WF_liveVars(OnlyLease /\ Boot(p))

(* A registration that may go on goes on, and a key expires.               *)
RegistryFairness ==
  /\ \A c \in Registration : WF_liveVars(OnlyRegistry /\ Continue(c))
  /\ WF_liveVars(OnlyRegistry /\ LockExpires)

LiveSpec ==
  LiveInit /\ [][LiveNext]_liveVars /\ LeaseFairness /\ RegistryFairness

(* RunsAgain, of the part that moves.                                      *)
TaskRunsAgain == part = "lease" => RunsAgain
=============================================================================
