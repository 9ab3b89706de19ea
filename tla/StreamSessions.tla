--------------------------- MODULE StreamSessions ---------------------------
(***************************************************************************)
(* The playback sessions of one user in Redis and the limit on them:       *)
(* services/stream-session-service.ts and the handlers of routes/tv.js,    *)
(* routes/streams.js and routes/admin.js that call it.  A session is a     *)
(* member of the user's sorted set and a key with a time to live.          *)
(*                                                                         *)
(* A session starts when the server authorizes a playback and hands out a  *)
(* token with its identifier, and it is resumed when a token comes in      *)
(* whose session is not active.  Every Redis command is one action.  The   *)
(* scores of the sorted set are the times of registration, so the set is   *)
(* kept as a sequence, oldest first.                                       *)
(***************************************************************************)
EXTENDS Integers, Sequences

CONSTANTS
  Session,  \* identifiers of playback sessions
  DeviceOf, \* the device that plays each, NoDevice when it sends no hash
  NoDevice,
  Request,  \* requests that can be in flight
  PlanMax,  \* maxConcurrentStreams of the user's plan
  EnvMax,   \* MAX_CONCURRENT_STREAMS_PER_USER
  Policies, \* values of STREAM_LIMIT_POLICY to look at
  Stores    \* whether the store evaluates scripts

ASSUME SessionAssumption == NoDevice \notin Session
ASSUME MaxAssumption == PlanMax \in Nat \ {0} /\ EnvMax \in Nat \ {0}
ASSUME PoliciesAssumption == Policies \subseteq {"refuse", "evict"}
ASSUME StoresAssumption == Stores \subseteq BOOLEAN

VARIABLES
  policy,   \* STREAM_LIMIT_POLICY
  scripted, \* the store has EVAL
  order,    \* the user's sorted set, oldest first
  key,      \* the sessions whose key exists
  token,    \* the sessions for which a client holds a token
  revoking, \* sessions whose key an admin has deleted, still in the set
  step,     \* where each request is
  sess,     \* the session each request is about
  cap,      \* the limit each request was given
  todo,     \* members a request has still to look up
  victim,   \* the member a request removes
  joined,   \* history: the sessions that were registered
  dropped   \* history: those that their device replaced or an admin revoked since

request == <<step, sess, cap, todo, victim>>
sessionVars == <<policy, scripted, order, key, token, revoking, request, joined, dropped>>

Listed(q) == {q[i] : i \in 1 .. Len(q)}
Members == Listed(order)

SessionsTypeOK ==
  /\ policy \in Policies /\ scripted \in Stores
  /\ order \in Seq(Session)
  /\ \A i, k \in 1 .. Len(order) : order[i] = order[k] => i = k
  /\ key \subseteq Session /\ token \subseteq Session
  /\ revoking \subseteq Session
  /\ step \in [Request -> {"idle", "looking", "joining", "pruning", "removing", "full",
                           "comparing", "evicting", "unlisting", "adding", "keying"}]
  /\ sess \in [Request -> Session \cup {NoDevice}]
  /\ cap \in [Request -> {PlanMax, EnvMax}]
  /\ todo \in [Request -> SUBSET Session]
  /\ victim \in [Request -> Session \cup {NoDevice}]
  /\ joined \subseteq Session /\ dropped \subseteq Session

SessionsInit ==
  /\ policy \in Policies /\ scripted \in Stores
  /\ order = <<>> /\ key = {} /\ token = {} /\ revoking = {}
  /\ step = [r \in Request |-> "idle"]
  /\ sess = [r \in Request |-> NoDevice]
  /\ cap = [r \in Request |-> EnvMax]
  /\ todo = [r \in Request |-> {}]
  /\ victim = [r \in Request |-> NoDevice]
  /\ joined = {} /\ dropped = {}

-----------------------------------------------------------------------------
(* Helpers.                                                                *)

(* ZREM; a member is in the set at most once.                              *)
Without(q, s) ==
  IF \A i \in 1 .. Len(q) : q[i] # s THEN q
  ELSE LET at == CHOOSE i \in 1 .. Len(q) : q[i] = s
       IN  [k \in 1 .. Len(q) - 1 |-> q[IF k < at THEN k ELSE k + 1]]

(* ZADD of a member with the present time makes it the youngest.           *)
Zadd(q, s) == Append(Without(q, s), s)

RequestAt(r, place) == step' = [step EXCEPT ![r] = place]

(* The client is answered.                                                 *)
Respond(r) ==
  /\ RequestAt(r, "idle")
  /\ sess' = [sess EXCEPT ![r] = NoDevice]
  /\ victim' = [victim EXCEPT ![r] = NoDevice]
  /\ UNCHANGED <<cap, todo>>

(* No request and no earlier session uses the random identifier s.         *)
Unused(s) ==
  /\ s \notin token \cup key \cup Members \cup revoking
  /\ \A r \in Request : sess[r] # s /\ victim[r] # s /\ s \notin todo[r]

(* Mutant: the hash of the device is not compared.                         *)
SameDeviceAny(v, s) == v \in key

OwnDevice(v, s) == DeviceOf[v] # NoDevice /\ DeviceOf[v] = DeviceOf[s]

(* The oldest session was registered by the same device, as its key says.  *)
SameDevice(v, s) == v \in key /\ OwnDevice(v, s)

(* Mutant: one session too many.                                           *)
FullLate(r) == Len(order) > cap[r]

Full(r) == Len(order) >= cap[r]

-----------------------------------------------------------------------------
(* Requests.                                                               *)

(* A playback is authorized under the plan's limit.                        *)
Authorize(r, s) ==
  /\ step[r] = "idle" /\ Unused(s)
  /\ RequestAt(r, "joining")
  /\ sess' = [sess EXCEPT ![r] = s] /\ cap' = [cap EXCEPT ![r] = PlanMax]
  /\ dropped' = dropped \ {s}
  /\ UNCHANGED <<policy, scripted, order, key, token, revoking, todo, victim, joined>>

(* A channel list carries tokens of sessions that are not registered.      *)
PreIssue(s) ==
  /\ Unused(s)
  /\ token' = token \cup {s} /\ dropped' = dropped \ {s}
  /\ UNCHANGED <<policy, scripted, order, key, revoking, request, joined>>

(* A token comes in: isStreamSessionActive looks for the key ...           *)
Resume(r, s) ==
  /\ step[r] = "idle" /\ s \in token
  /\ RequestAt(r, IF s \in key THEN "looking" ELSE "joining")
  /\ sess' = [sess EXCEPT ![r] = s]
  /\ cap' = [cap EXCEPT ![r] = EnvMax]
  /\ UNCHANGED <<policy, scripted, order, key, token, revoking, todo, victim, joined, dropped>>

(* ... and for the member; an active session plays on.                     *)
Look(r) ==
  /\ step[r] = "looking"
  /\ IF sess[r] \in Members
     THEN Respond(r)
     ELSE RequestAt(r, "joining") /\ UNCHANGED <<sess, cap, todo, victim>>
  /\ UNCHANGED <<policy, scripted, order, key, token, revoking, joined, dropped>>

(* registerStreamSession: list the members, ...                            *)
ListMembers(r) ==
  /\ step[r] = "joining"
  /\ RequestAt(r, "pruning")
  /\ todo' = [todo EXCEPT ![r] = Members]
  /\ UNCHANGED <<policy, scripted, order, key, token, revoking, sess, cap, victim, joined, dropped>>

(* ... look each one's key up, ...                                         *)
CheckMember(r, m) ==
  /\ step[r] = "pruning" /\ m \in todo[r]
  /\ todo' = [todo EXCEPT ![r] = @ \ {m}]
  /\ IF m \in key
     THEN UNCHANGED <<step, victim>>
     ELSE RequestAt(r, "removing") /\ victim' = [victim EXCEPT ![r] = m]
  /\ UNCHANGED <<policy, scripted, order, key, token, revoking, sess, cap, joined, dropped>>

(* ... and remove those without a key.                                     *)
RemoveMember(r) ==
  /\ step[r] = "removing"
  /\ order' = Without(order, victim[r])
  /\ RequestAt(r, "pruning")
  /\ victim' = [victim EXCEPT ![r] = NoDevice]
  /\ UNCHANGED <<policy, scripted, key, token, revoking, sess, cap, todo, joined, dropped>>

-----------------------------------------------------------------------------
(* The decision of the script, in one step.                                *)

Refused(r) == policy = "refuse" /\ ~SameDevice(Head(order), sess[r])

Decide(r) ==
  /\ step[r] = "pruning" /\ todo[r] = {} /\ scripted
  /\ IF Full(r) /\ Refused(r)
     THEN UNCHANGED <<order, key, token, joined, dropped>>
     ELSE LET out == IF Full(r) THEN {Head(order)} ELSE {}
              rest == IF Full(r) THEN Tail(order) ELSE order
          IN  /\ order' = Zadd(rest, sess[r])
              /\ key' = (key \ out) \cup {sess[r]}
              /\ token' = token \cup {sess[r]}
              /\ joined' = joined \cup {sess[r]}
              /\ dropped' = dropped \cup {v \in out \ {sess[r]} : OwnDevice(v, sess[r])}
  /\ Respond(r)
  /\ UNCHANGED <<policy, scripted, revoking>>

-----------------------------------------------------------------------------
(* The same decision by a store without EVAL, one command at a time.       *)

Count(r) ==
  /\ step[r] = "pruning" /\ todo[r] = {} /\ ~scripted
  /\ RequestAt(r, IF Full(r) THEN "full" ELSE "adding")
  /\ UNCHANGED <<policy, scripted, order, key, token, revoking, sess, cap, todo, victim,
                 joined, dropped>>

Oldest(r) ==
  /\ step[r] = "full"
  /\ IF order = <<>>
     THEN RequestAt(r, "adding") /\ UNCHANGED victim
     ELSE /\ RequestAt(r, IF policy = "refuse" THEN "comparing" ELSE "evicting")
          /\ victim' = [victim EXCEPT ![r] = Head(order)]
  /\ UNCHANGED <<policy, scripted, order, key, token, revoking, sess, cap, todo, joined, dropped>>

Compare(r) ==
  /\ step[r] = "comparing"
  /\ IF SameDevice(victim[r], sess[r])
     THEN RequestAt(r, "evicting") /\ UNCHANGED <<sess, cap, todo, victim>>
     ELSE Respond(r)
  /\ UNCHANGED <<policy, scripted, order, key, token, revoking, joined, dropped>>

Evict(r) ==
  /\ step[r] = "evicting"
  /\ key' = key \ {victim[r]} /\ dropped' = dropped \cup {victim[r]}
  /\ RequestAt(r, "unlisting")
  /\ UNCHANGED <<policy, scripted, order, token, revoking, sess, cap, todo, victim, joined>>

Unlist(r) ==
  /\ step[r] = "unlisting"
  /\ order' = Without(order, victim[r])
  /\ RequestAt(r, "adding")
  /\ UNCHANGED <<policy, scripted, key, token, revoking, sess, cap, todo, victim, joined, dropped>>

Add(r) ==
  /\ step[r] = "adding"
  /\ order' = Zadd(order, sess[r])
  /\ RequestAt(r, "keying")
  /\ UNCHANGED <<policy, scripted, key, token, revoking, sess, cap, todo, victim, joined, dropped>>

SetKey(r) ==
  /\ step[r] = "keying"
  /\ key' = key \cup {sess[r]} /\ token' = token \cup {sess[r]}
  /\ joined' = joined \cup {sess[r]}
  /\ Respond(r)
  /\ UNCHANGED <<policy, scripted, order, revoking, dropped>>

-----------------------------------------------------------------------------
(* An admin disconnects a viewer: DEL, then ZREM.                          *)

Revoke(s) ==
  /\ s \in key /\ s \notin revoking
  /\ key' = key \ {s} /\ revoking' = revoking \cup {s}
  /\ dropped' = dropped \cup {s}
  /\ UNCHANGED <<policy, scripted, order, token, request, joined>>

RevokeMember(s) ==
  /\ s \in revoking
  /\ order' = Without(order, s) /\ revoking' = revoking \ {s}
  /\ UNCHANGED <<policy, scripted, key, token, request, joined, dropped>>

(* A token expires, and five minutes later the key of its session.         *)
TokenExpires(s) ==
  /\ s \in token /\ \A r \in Request : sess[r] # s
  /\ token' = token \ {s} /\ joined' = joined \ {s}
  /\ UNCHANGED <<policy, scripted, order, key, revoking, request, dropped>>

KeyExpires(s) ==
  /\ s \in key \ token /\ \A r \in Request : sess[r] # s
  /\ key' = key \ {s}
  /\ UNCHANGED <<policy, scripted, order, token, revoking, request, joined, dropped>>

SessionsNext ==
  \/ \E r \in Request, s \in Session : Authorize(r, s) \/ Resume(r, s) \/ CheckMember(r, s)
  \/ \E r \in Request :
       \/ Look(r) \/ ListMembers(r) \/ RemoveMember(r) \/ Decide(r)
       \/ Count(r) \/ Oldest(r) \/ Compare(r) \/ Evict(r) \/ Unlist(r) \/ Add(r) \/ SetKey(r)
  \/ \E s \in Session :
       PreIssue(s) \/ Revoke(s) \/ RevokeMember(s) \/ TokenExpires(s) \/ KeyExpires(s)

SessionsSpec == SessionsInit /\ [][SessionsNext]_sessionVars

-----------------------------------------------------------------------------
(* Properties.                                                             *)

(* However requests race, the script keeps a user within the greatest      *)
(* limit that any of the requests was given.                               *)
LimitHolds ==
  scripted => Len(order) <= (IF PlanMax > EnvMax THEN PlanMax ELSE EnvMax)

(* Under the strict policy nobody takes a viewer's place: a session that   *)
(* was admitted stays active for as long as its token is valid, unless its *)
(* own device replaced it or an admin revoked it.  Pruning works from      *)
(* lookups that are old when it removes a member.                          *)
StillWatching ==
  scripted /\ policy = "refuse" =>
    \A s \in (joined \cap token) \ dropped : s \in Members /\ s \in key
=============================================================================
