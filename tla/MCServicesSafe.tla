--------------------------- MODULE MCServicesSafe ---------------------------
(***************************************************************************)
(* Instances for TLC of components that share no variable.  One run checks *)
(* them: Init chooses the part that moves, and the variables of the other  *)
(* parts keep their initial values.                                        *)
(***************************************************************************)
EXTENDS TaskLease, DeviceRegistry, StreamSessions, CatalogSync, TLC

CONSTANTS
  a3, g1, g2, g3, p1, p2, \* two calls share a process, the third has its own
  y1, y2, z1, z2,         \* values that are alike in every part
  s3, d1, d2              \* the third session plays on a device of its own

VARIABLE part

safeVars == <<part, leaseVars, registryVars, sessionVars, catalogVars>>

MCProcOf == [a \in Attempt |-> IF a = a3 THEN p2 ELSE p1]
MCServerOf == [c \in Registration |-> IF c = g3 THEN p2 ELSE p1]
MCDeviceOf == [s \in Session |-> IF s = s3 THEN d2 ELSE d1]

(* The documents, the devices, the requests and the syncs are the same two *)
(* values, and so are the first two of the calls, of the sessions and of   *)
(* the channels: they are alike in every part.                             *)
Alike == Permutations({y1, y2}) \cup Permutations({z1, z2})

SafeInit ==
  /\ part \in {"lease", "registry", "sessions", "catalog"}
  /\ LeaseInit /\ RegistryInit /\ SessionsInit /\ CatalogInit
  /\ part # "catalog" => sourceKind = "xtream"
  /\ part # "sessions" => policy = "refuse" /\ scripted

OnlyLease ==
  part = "lease" /\ UNCHANGED <<part, registryVars, sessionVars, catalogVars>>
OnlyRegistry ==
  part = "registry" /\ UNCHANGED <<part, leaseVars, sessionVars, catalogVars>>
OnlySessions ==
  part = "sessions" /\ UNCHANGED <<part, leaseVars, registryVars, catalogVars>>
OnlyCatalog ==
  part = "catalog" /\ UNCHANGED <<part, leaseVars, registryVars, sessionVars>>

(* Bound: the third session plays only under the usual configuration, and  *)
(* a store without scripts, of which nothing is asked, serves one request. *)
Bounded ==
  /\ \/ policy = "refuse" /\ scripted
     \/ s3 \notin token' /\ \A r \in Request : sess'[r] # s3
  /\ \/ scripted
     \/ \A q, r \in Request : step'[q] # "idle" /\ step'[r] # "idle" => q = r

SafeNext ==
  \/ OnlyLease /\ LeaseNext
  \/ OnlyRegistry /\ RegistryNext
  \/ OnlySessions /\ SessionsNext /\ Bounded
  \/ OnlyCatalog /\ CatalogNext

SafeSpec == SafeInit /\ [][SafeNext]_safeVars
=============================================================================
