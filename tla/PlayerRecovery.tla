--------------------------- MODULE PlayerRecovery ---------------------------
(***************************************************************************)
(* The live player of the Android app: ErrorRecoveryManager.kt, the effect *)
(* that prepares a channel (PlayerScreen.kt, PlayerScreenEffects.kt), and  *)
(* what PlayerViewModel.kt makes of both.  A channel has slots, each with  *)
(* a direct URL and perhaps a proxy's; the server is asked for the later   *)
(* ones only when the earlier ones have failed.                            *)
(*                                                                         *)
(* All of it runs on the main thread; steps of others come in between when *)
(* a coroutine waits.  A request for a URL that is cancelled answers null  *)
(* all the same (requestPlaybackUrl catches the cancellation), and what    *)
(* was waiting for it goes on.                                             *)
(***************************************************************************)
EXTENDS Integers, FiniteSets

CONSTANTS
  Channel, NoChannel,
  Offered,         \* how many slots the server offers for each channel
  Proxied,         \* the channels whose slots have a proxy URL as well
  MaxPresses,      \* how often another channel is chosen
  FirstTries,      \* direct attempts of slot 0; 3 in the code
  MaxFallbackSlots \* MAX_FALLBACK_SLOTS; 4 in the code

ASSUME PlayerAssumption ==
  /\ NoChannel \notin Channel
  /\ MaxPresses \in Nat
  /\ FirstTries \in Nat \ {0} /\ MaxFallbackSlots \in Nat \ {0}
  /\ Offered \in [Channel -> 1 .. MaxFallbackSlots]
  /\ Proxied \subseteq Channel

VARIABLES
  shown, wanted, \* the channel on the screen, and the one being loaded
  presses,       \* how often another channel has been chosen
  prepares,      \* the effect that prepares the shown channel
  slots,         \* streamSlots: how many, and of which channel
  resolver,      \* the channel fallbackResolver asks for
  slot,          \* currentSlotIndex
  attempt,       \* attemptInSlot
  total,         \* totalAttempts
  flipped,       \* oppositeContainerTried
  recovering,    \* isRecoveringState
  job,           \* reconnectJob
  leftovers,     \* cancelled requests that have yet to answer null
  playing,       \* the state of the player
  watched,       \* bufferWatchJob is active
  probes,        \* verdicts that wait for probeEmptyPlaylist
  dead,          \* isStreamDead, with the reason it was set for
  tried,         \* history: URLs of the shown channel that the player was given
  upset          \* history: an event DeadAfterAllTried excepts has hit the shown channel

screenVars == <<shown, wanted, presses, prepares>>
ladderVars == <<slots, resolver, slot, attempt, total, flipped>>
playerVars ==
  <<screenVars, ladderVars, recovering, job, leftovers, playing, watched, probes, dead, tried, upset>>

PlayerTypeOK ==
  /\ shown \in Channel \cup {NoChannel} /\ wanted \in Channel \cup {NoChannel}
  /\ prepares \in {"due", "asking", "idle"}
  /\ slots \in [of : Channel \cup {NoChannel}, n : 0 .. MaxFallbackSlots]
  /\ resolver \in Channel \cup {NoChannel}
  /\ {slot, attempt, total, presses} \subseteq Nat
  /\ {flipped, recovering, watched, upset} \subseteq BOOLEAN
  /\ job \in {"none", "step", "asking", "delay"}
  /\ leftovers \subseteq {"prepare", "fallback"}
  /\ playing \in {"idle", "loading", "ready", "stalled"}
  /\ probes \subseteq {"fatal", "exhausted"}
  /\ dead \in {"no", "refused", "fatal", "exhausted"}
  /\ tried \subseteq (0 .. MaxFallbackSlots - 1) \X {"direct", "proxy"}

PlayerInit ==
  /\ shown = NoChannel /\ wanted = NoChannel /\ presses = 0 /\ prepares = "idle"
  /\ slots = [of |-> NoChannel, n |-> 0] /\ resolver = NoChannel
  /\ slot = 0 /\ attempt = 0 /\ total = 0
  /\ flipped = FALSE /\ recovering = FALSE /\ watched = FALSE /\ upset = FALSE
  /\ job = "none" /\ leftovers = {} /\ playing = "idle"
  /\ probes = {} /\ dead = "no" /\ tried = {}

(* What the player and the ladder hold belongs to an earlier channel.      *)
Foreign == prepares = "due" \/ resolver # shown

Spoil(b) == upset' = (upset \/ b)

-----------------------------------------------------------------------------
(* The ladder.                                                             *)

Direct(k) == IF k = 0 THEN FirstTries ELSE 1
Proxies == IF slots.of \in Proxied THEN 1 ELSE 0

(* maxAttemptsForSlot and maxTotalAttempts.                                *)
MaxFor(k) == IF k < slots.n THEN Direct(k) + Proxies ELSE 0
MaxTotal ==
  (IF slots.n = 0 THEN 0 ELSE FirstTries + slots.n - 1 + slots.n * Proxies)
  + (IF resolver = NoChannel THEN 0 ELSE MaxFallbackSlots - slots.n)

OnProxy(k, a) == k < slots.n /\ a > Direct(k) /\ Proxies = 1

Url(k, a) == <<k, IF OnProxy(k, a) THEN "proxy" ELSE "direct">>

(* Mutant: only a proxy URL counts as something left to try.               *)
ProxyRemains == slot < slots.n /\ ~OnProxy(slot, attempt) /\ Proxies = 1

FallbackRemains ==
  \/ slot < slots.n /\ ~OnProxy(slot, attempt) /\ Proxies = 1
  \/ slot < slots.n - 1
  \/ resolver # NoChannel /\ slot < MaxFallbackSlots - 1

(* job.cancel(): a request under way will answer null.                     *)
Cancel(then) ==
  /\ job' = then
  /\ leftovers' = IF job = "asking" THEN leftovers \cup {"fallback"} ELSE leftovers

(* The player is given a URL: it loads it now if it is prepared.           *)
GiveUrl(u) ==
  IF playing = "idle" THEN UNCHANGED <<playing, tried>>
  ELSE playing' = "loading" /\ tried' = tried \cup {u}

(* declareStreamDead: without a URL there is nothing to probe.             *)
Declare(why) ==
  IF slot < slots.n THEN probes' = probes \cup {why} /\ UNCHANGED dead
  ELSE dead' = why /\ UNCHANGED probes

(* attemptReconnect.                                                       *)
Reconnect == recovering' = TRUE /\ Cancel("step") /\ UNCHANGED <<probes, dead>>

-----------------------------------------------------------------------------
(* The screen.                                                             *)

(* switchChannel, or loadChannel for the first one.                        *)
Press(c) ==
  /\ c # shown
  /\ presses < MaxPresses /\ presses' = presses + 1
  /\ wanted' = c
  /\ dead' = "no"
  /\ UNCHANGED <<shown, prepares, ladderVars, recovering, job, leftovers, playing, watched, probes, tried, upset>>

(* The effect of the channel shown so far is cancelled.                    *)
Show ==
  /\ wanted # NoChannel
  /\ shown' = wanted /\ wanted' = NoChannel
  /\ prepares' = "due"
  /\ leftovers' = IF prepares = "asking" THEN leftovers \cup {"prepare"} ELSE leftovers
  /\ tried' = {}
  /\ upset' = (leftovers' # {} \/ probes # {} \/ dead # "no")
  /\ UNCHANGED <<presses, ladderVars, recovering, job, playing, watched, probes, dead>>

ShowFails ==
  /\ wanted # NoChannel
  /\ wanted' = NoChannel
  /\ UNCHANGED <<shown, presses, prepares, ladderVars, recovering, job, leftovers, playing, watched, probes, dead, tried, upset>>

(* prepareChannelStream, up to the request for slot 0.                     *)
PrepareBegins ==
  /\ prepares = "due" /\ prepares' = "asking"
  /\ slot' = 0 /\ attempt' = 0 /\ total' = 0 /\ flipped' = FALSE
  /\ resolver' = NoChannel
  /\ recovering' = FALSE /\ watched' = FALSE
  /\ Cancel("none")
  /\ Spoil(job = "asking")
  /\ UNCHANGED <<shown, wanted, presses, slots, playing, probes, dead, tried>>

PrepareEnds ==
  /\ prepares = "asking" /\ prepares' = "idle"
  /\ slots' = [of |-> shown, n |-> 1]
  /\ slot' = 0 /\ attempt' = 0 /\ total' = 0 /\ flipped' = FALSE
  /\ resolver' = shown
  /\ playing' = "loading" /\ watched' = ~recovering
  /\ tried' = {<<0, "direct">>}
  /\ UNCHANGED <<shown, wanted, presses, recovering, job, leftovers, probes, dead, upset>>

PrepareFails ==
  /\ prepares = "asking" /\ prepares' = "idle"
  /\ dead' = "refused"
  /\ UNCHANGED <<shown, wanted, presses, ladderVars, recovering, job, leftovers, playing, watched, probes, tried, upset>>

(* The cancelled effect finds no URL and says so of the channel now shown. *)
LateFailure ==
  /\ "prepare" \in leftovers
  /\ leftovers' = leftovers \ {"prepare"}
  /\ dead' = "refused"
  /\ upset' = TRUE
  /\ UNCHANGED <<screenVars, ladderVars, recovering, job, playing, watched, probes, tried>>

-----------------------------------------------------------------------------
(* The player's events.                                                    *)

Ready ==
  /\ playing \in {"loading", "stalled"} /\ playing' = "ready"
  /\ watched' = FALSE
  /\ recovering' = FALSE
  /\ IF recovering
     THEN dead' = "no" /\ Cancel("none") /\ Spoil(job = "asking")
     ELSE UNCHANGED <<dead, job, leftovers, upset>>
  /\ UNCHANGED <<screenVars, ladderVars, probes, tried>>

Stalls ==
  /\ playing = "ready" /\ playing' = "stalled"
  /\ watched' = ~recovering
  /\ UNCHANGED <<screenVars, ladderVars, recovering, job, leftovers, probes, dead, tried, upset>>

(* It has been buffering for unresponsiveThresholdMs.                      *)
Unresponsive ==
  /\ watched /\ watched' = FALSE
  /\ IF total < MaxTotal
     THEN Reconnect
     ELSE /\ dead' = "exhausted"
          /\ UNCHANGED <<recovering, job, leftovers, probes>>
  /\ Spoil(Foreign \/ (total < MaxTotal /\ job = "asking"))
  /\ UNCHANGED <<screenVars, ladderVars, playing, tried>>

Breaks ==
  /\ playing # "idle" /\ playing' = "idle"
  /\ watched' = FALSE
  /\ UNCHANGED <<screenVars, slots, resolver, slot, total, tried>>

(* The same URL is read once more, as the opposite container.              *)
ParseError ==
  /\ Breaks
  /\ IF ~flipped /\ slot < slots.n
     THEN /\ flipped' = TRUE /\ recovering' = TRUE /\ dead' = "no"
          /\ Cancel("delay")
          /\ UNCHANGED <<attempt, probes>>
     ELSE /\ UNCHANGED flipped
          /\ IF total < MaxTotal /\ FallbackRemains
             THEN /\ attempt' = IF attempt < Direct(slot) THEN Direct(slot) ELSE attempt
                  /\ Reconnect
             ELSE Declare("exhausted") /\ UNCHANGED <<attempt, recovering, job, leftovers>>
  /\ Spoil(Foreign \/ job = "asking")

NetworkError ==
  /\ Breaks
  /\ IF total < MaxTotal THEN Reconnect
     ELSE Declare("exhausted") /\ UNCHANGED <<recovering, job, leftovers>>
  /\ Spoil(Foreign \/ job = "asking")
  /\ UNCHANGED <<attempt, flipped>>

OtherError ==
  /\ Breaks
  /\ Declare("fatal")
  /\ Spoil(Foreign)
  /\ UNCHANGED <<attempt, flipped, recovering, job, leftovers>>

-----------------------------------------------------------------------------
(* reconnectJob.                                                           *)

(* The slot is changed before the server is asked for it.                  *)
JobSteps ==
  LET over == attempt + 1 > MaxFor(slot)
      s == IF over THEN slot + 1 ELSE slot
      a == IF over THEN 1 ELSE attempt + 1
  IN /\ job = "step"
     /\ slot' = s /\ attempt' = a /\ total' = total + 1
     /\ CASE s >= slots.n /\ resolver # NoChannel ->
               job' = "asking" /\ UNCHANGED <<flipped, playing, tried, dead>>
          [] s >= slots.n /\ resolver = NoChannel ->
               /\ job' = "none" /\ dead' = "exhausted"
               /\ UNCHANGED <<flipped, playing, tried>>
          [] OTHER ->
               /\ job' = "delay" /\ dead' = "no"
               /\ IF over \/ OnProxy(s, a)
                  THEN flipped' = FALSE /\ GiveUrl(Url(s, a))
                  ELSE UNCHANGED <<flipped, playing, tried>>
     /\ Spoil(Foreign /\ s >= slots.n /\ resolver = NoChannel)
     /\ UNCHANGED <<screenVars, slots, resolver, recovering, leftovers, watched, probes>>

Answered ==
  /\ job = "asking"
  /\ slot < Offered[resolver]
  /\ slots' = [slots EXCEPT !.n = @ + 1]
  /\ IF slot > slots.n
     THEN /\ job' = "none" /\ dead' = "exhausted"
          /\ UNCHANGED <<flipped, playing, tried>>
     ELSE /\ job' = "delay" /\ dead' = "no"
          /\ flipped' = FALSE /\ GiveUrl(<<slot, "direct">>)
  /\ Spoil(Foreign /\ slot > slots.n)
  /\ UNCHANGED <<screenVars, resolver, slot, attempt, total, recovering, leftovers, watched, probes>>

(* The server offers no such slot, or its answer is lost.                  *)
NotAnswered ==
  /\ job = "asking" /\ job' = "none"
  /\ dead' = "exhausted"
  /\ Spoil(Foreign \/ slot < Offered[resolver])
  /\ UNCHANGED <<screenVars, ladderVars, recovering, leftovers, playing, watched, probes, tried>>

JobPrepares ==
  /\ job = "delay" /\ job' = "none"
  /\ IF playing = "idle"
     THEN playing' = "loading" /\ tried' = tried \cup {Url(slot, attempt)}
     ELSE UNCHANGED <<playing, tried>>
  /\ UNCHANGED <<screenVars, ladderVars, recovering, leftovers, watched, probes, dead, upset>>

(* A cancelled job goes on with null until it comes to its delay.          *)
LateNull ==
  /\ "fallback" \in leftovers
  /\ leftovers' = leftovers \ {"fallback"}
  /\ IF slot >= slots.n
     THEN /\ dead' = "exhausted"
          /\ UNCHANGED <<flipped, playing, tried>>
     ELSE dead' = "no" /\ flipped' = FALSE /\ GiveUrl(<<slot, "direct">>)
  /\ upset' = TRUE
  /\ UNCHANGED <<screenVars, slots, resolver, slot, attempt, total, recovering, job, watched, probes>>

(* Whatever the probe found, the shown channel is dead.                    *)
ProbeAnswers(v) ==
  /\ probes' = probes \ {v}
  /\ dead' = v
  /\ Spoil(Foreign \/ playing # "idle" \/ job # "none")
  /\ UNCHANGED <<screenVars, ladderVars, recovering, job, leftovers, playing, watched, tried>>

PlayerNext ==
  \/ \E c \in Channel : Press(c)
  \/ Show \/ ShowFails \/ PrepareBegins \/ PrepareEnds \/ PrepareFails \/ LateFailure
  \/ Ready \/ Stalls \/ Unresponsive \/ ParseError \/ NetworkError \/ OtherError
  \/ JobSteps \/ Answered \/ NotAnswered \/ JobPrepares \/ LateNull
  \/ \E v \in probes : ProbeAnswers(v)

PlayerSpec == PlayerInit /\ [][PlayerNext]_playerVars

-----------------------------------------------------------------------------
(* Properties.                                                             *)

Urls(c) ==
  (0 .. Offered[c] - 1) \X (IF c \in Proxied THEN {"direct", "proxy"} ELSE {"direct"})

(* When the channel on the screen is said to be dead because every attempt *)
(* has been used up, the player was given every URL the server offers for  *)
(* it.  Excepted are a channel for which the server's answer was lost, and *)
(* one hit by what an earlier channel or a cancelled request left behind.  *)
DeadAfterAllTried == dead = "exhausted" /\ ~upset => Urls(shown) \subseteq tried
=============================================================================
