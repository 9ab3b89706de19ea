--------------------------- MODULE ServiceProofs ---------------------------
(***************************************************************************)
(* Theorems about the smaller components SourceWatchdog, Recording,        *)
(* TvPairing, ClientRedeem and PlayerRecovery, for any processes,          *)
(* recordings, televisions, users, clients and channels.                   *)
(***************************************************************************)
EXTENDS SourceWatchdog, Recording, TvPairing, ClientRedeem, PlayerRecovery, TLAPS

-----------------------------------------------------------------------------
(* SourceWatchdog.                                                         *)

USE HostOfAssumption, WatchdogHazardsAssumption

(* One call at a time works on the source.                                 *)
OneWatch == \A w, x \in Watch : check[w] # "idle" /\ check[x] # "idle" => w = x

(* Where a call is at work, no other process remembers a streak.           *)
StreakAtHome ==
  \A w \in Watch : check[w] = "probing" =>
    \A h \in Host \ {HostOf[w]} : consecutiveVerified[h] = 0

(* No streak is longer than the row of probes that passed.                 *)
StreakIsTrue == \A h \in Host : consecutiveVerified[h] <= passed

(* A call about to lift the source has seen the second probe pass.         *)
LiftIsDue == \A w \in Watch : next[w] = "verified" => check[w] = "writing" /\ passed = 2

WatchdogInv == WatchdogTypeOK /\ OneWatch /\ StreakAtHome /\ StreakIsTrue /\ LiftIsDue

LEMMA WatchdogStep ==
  ASSUME WatchdogHazards = {}, WatchdogInv, [WatchdogNext]_watchdogVars
  PROVE  WatchdogInv'
<1> USE DEF WatchdogInv, WatchdogTypeOK, OneWatch, StreakAtHome, StreakIsTrue, LiftIsDue,
            Verdict, Down, May
<1>1. ASSUME NEW w \in Watch, ReadSource(w) PROVE WatchdogInv'
  BY <1>1 DEF ReadSource
<1>2. ASSUME NEW w \in Watch, NEW answer \in {"verified"} \cup Down, ProbeSource(w, answer)
      PROVE  WatchdogInv'
  BY <1>2 DEF ProbeSource, Streak, OneMore, Health
<1>3. ASSUME NEW w \in Watch, WriteVerdict(w) PROVE WatchdogInv'
  BY <1>3 DEF WriteVerdict
<1>4. ASSUME NEW h \in Host, Restart(h) PROVE WatchdogInv'
  BY <1>4 DEF Restart
<1>5. ASSUME VerifyStarts \/ ChangeCredentials PROVE WatchdogInv'
  BY <1>5 DEF VerifyStarts, ChangeCredentials
<1>6. ASSUME NEW answer \in {"verified"} \cup Down, VerifyEnds(answer) PROVE WatchdogInv'
  BY <1>6 DEF VerifyEnds
<1>7. CASE UNCHANGED watchdogVars
  BY <1>7 DEF watchdogVars
<1> QED BY <1>1, <1>2, <1>3, <1>4, <1>5, <1>6, <1>7 DEF WatchdogNext

(* Unless runs overlap, follow another process's, or meet a verification   *)
(* that marks the source down: the watchdog lifts a source only after its  *)
(* second probe in a row has passed.                                       *)
THEOREM ComesBackSlowly ==
  ASSUME WatchdogHazards = {} PROVE WatchdogSpec => RecoversSlowly
<1> DEFINE Slow == verdict \in Down /\ verdict' = "verified" /\ verifying' = verifying => passed = 2
<1>1. WatchdogInit => WatchdogInv
  BY DEF WatchdogInit, WatchdogInv, WatchdogTypeOK, OneWatch, StreakAtHome, StreakIsTrue,
     LiftIsDue, Verdict
<1>2. WatchdogInv /\ [WatchdogNext]_watchdogVars => WatchdogInv'
  BY WatchdogStep
<1>3. WatchdogInv /\ [WatchdogNext]_watchdogVars => [Slow]_watchdogVars
  BY DEF WatchdogInv, WatchdogTypeOK, LiftIsDue, WatchdogNext, watchdogVars, Down, ReadSource,
     ProbeSource, WriteVerdict, Restart, VerifyStarts, VerifyEnds, ChangeCredentials
<1> QED BY <1>1, <1>2, <1>3, PTL DEF WatchdogSpec, RecoversSlowly

-----------------------------------------------------------------------------
(* Recording.                                                              *)

USE FeedAssumption, MaxConcurrentAssumption, RecordingHazardsAssumption

(* What a recording has while it is under way, unless an event has hit it: *)
(* no row before it is made, then one that says so, the file its stage has *)
(* produced, and nobody who deletes it.                                    *)
UnderwayHas(t) ==
  /\ deletion[t] = "none"
  /\ t \in activeJobs => stage[t] \in Capturing
  /\ stage[t] \in {"checked", "looked"} => row[t] = "none" /\ files[t] = {}
  /\ stage[t] \notin {"checked", "looked"} => row[t] = "recording"
  /\ stage[t] \in {"made", "running"} => files[t] = {}
  /\ stage[t] = "writing" => files[t] = {"ts"}
  /\ stage[t] = "closing" => files[t] \in {{}, {"ts"}}
  /\ stage[t] = "remuxing" => files[t] = {"ts"}
  /\ stage[t] = "remuxed" => files[t] = {"ts", "mp4"}
  /\ stage[t] = "muxed" => files[t] = {"mp4"}

(* A recording that was not started, one that could not be, and one that   *)
(* is being deleted.                                                       *)
UnstartedHas(t) == row[t] = "none" /\ files[t] = {} /\ deletion[t] = "none"

StuckHas(t) == files[t] = {} /\ t \notin activeJobs

EndedHas(t) ==
  \/ row[t] \in {"ready", "failed"}
  \/ row[t] = "recording" /\ stage[t] = "stuck"

DeletedHas(t) ==
  /\ EndedHas(t)
  /\ t \notin activeJobs
  /\ deletion[t] \in {"half", "unlinked"} => "mp4" \notin files[t]
  /\ deletion[t] = "unlinked" => files[t] = {}

RecordingInv ==
  /\ RecordingTypeOK /\ RowsMatchDisk
  /\ \A t \in Take \ marred :
       /\ Underway(t) => UnderwayHas(t)
       /\ stage[t] = "new" => UnstartedHas(t)
       /\ stage[t] = "stuck" => StuckHas(t)
       /\ deletion[t] # "none" => DeletedHas(t)

LEMMA RecordingStep ==
  ASSUME RecordingInv, [RecordingNext]_recordingVars
  PROVE  RecordingInv'
<1> USE DEF RecordingInv, RecordingTypeOK, RowsMatchDisk, Underway, UnderwayHas,
            UnstartedHas, StuckHas, EndedHas, DeletedHas, Starting, Capturing, Closing, Stage, Deletion, Mar
<1>1. ASSUME NEW t \in Take, NEW f \in Feed, CheckRoom(t, f) PROVE RecordingInv'
  BY <1>1 DEF CheckRoom
<1>2. ASSUME NEW t \in Take, LookForRow(t) PROVE RecordingInv'
  BY <1>2 DEF LookForRow
<1>3. ASSUME NEW t \in Take, CreateRow(t) PROVE RecordingInv'
  BY <1>3 DEF CreateRow
<1>4. ASSUME NEW t \in Take, Spawn(t) \/ SpawnThrows(t) PROVE RecordingInv'
  BY <1>4 DEF Spawn, SpawnThrows
<1>5. ASSUME NEW t \in Take, Capture(t) PROVE RecordingInv'
  BY <1>5 DEF Capture
<1>6. ASSUME NEW t \in Take, CaptureEnds(t) PROVE RecordingInv'
  BY <1>6 DEF CaptureEnds
<1>7. ASSUME NEW t \in Take, FindRow(t) PROVE RecordingInv'
  BY <1>7 DEF FindRow
<1>8. ASSUME NEW t \in Take, Remux(t) PROVE RecordingInv'
  <2>1. CASE stage'[t] = "remuxed" BY <1>8, <2>1 DEF Remux
  <2>2. CASE stage'[t] = "failed"
    <3>1. PICK left \in SUBSET {"mp4"} : files' = [files EXCEPT ![t] = @ \cup left]
      BY <1>8, <2>2 DEF Remux
    <3>2. files' \in [Take -> SUBSET {"ts", "mp4"}] BY <3>1
    <3>3. \A u \in Take \ {t} : files'[u] = files[u] BY <3>1
    <3>4. /\ stage[t] = "remuxing" /\ stage' = [stage EXCEPT ![t] = "failed"]
          /\ UNCHANGED <<feed, row, activeJobs, deletion, marred>>
      BY <1>8, <2>2 DEF Remux
    <3> QED BY <3>2, <3>3, <3>4
  <2> QED BY <1>8, <2>1, <2>2 DEF Remux
<1>9. ASSUME NEW t \in Take, UnlinkCapture(t) PROVE RecordingInv'
  BY <1>9 DEF UnlinkCapture
<1>10. ASSUME NEW t \in Take, SaveEnd(t) PROVE RecordingInv'
  BY <1>10 DEF SaveEnd, Outcome
<1>11. ASSUME NEW t \in Take, SaveThrows(t) PROVE RecordingInv'
  BY <1>11 DEF SaveThrows
<1>12. ASSUME NEW t \in Take, Kill(t) PROVE RecordingInv'
  BY <1>12 DEF Kill
<1>13. ASSUME NEW t \in Take, FindDeleted(t) PROVE RecordingInv'
  BY <1>13 DEF FindDeleted
<1>14. ASSUME NEW t \in Take, UnlinkMp4(t) PROVE RecordingInv'
  BY <1>14 DEF UnlinkMp4
<1>15. ASSUME NEW t \in Take, UnlinkTs(t) PROVE RecordingInv'
  BY <1>15 DEF UnlinkTs
<1>16. ASSUME NEW t \in Take, DeleteRow(t) PROVE RecordingInv'
  BY <1>16 DEF DeleteRow
<1>17. CASE ServerStops
  BY <1>17 DEF ServerStops
<1>18. CASE UNCHANGED recordingVars
  BY <1>18 DEF recordingVars
<1> QED
  BY <1>1, <1>2, <1>3, <1>4, <1>5, <1>6, <1>7, <1>8, <1>9, <1>10, <1>11, <1>12, <1>13,
     <1>14, <1>15, <1>16, <1>17, <1>18 DEF RecordingNext, Handle

(* However many recordings start, fail to start, end, fail and are deleted *)
(* at the same time: unless it was deleted early or hit by a crash itself, *)
(* the row of a recording and its files tell the same.                     *)
THEOREM RowsAndFilesAgree == RecordingSpec => []RowsMatchDisk
<1>1. RecordingInit => RecordingInv
  BY DEF RecordingInit, RecordingInv, RecordingTypeOK, RowsMatchDisk, Underway, UnderwayHas,
     UnstartedHas, StuckHas, EndedHas, DeletedHas, Starting, Capturing, Closing
<1>2. RecordingInv /\ [RecordingNext]_recordingVars => RecordingInv'
  BY RecordingStep
<1>3. RecordingInv => RowsMatchDisk
  BY DEF RecordingInv
<1> QED BY <1>1, <1>2, <1>3, PTL DEF RecordingSpec

-----------------------------------------------------------------------------
(* TvPairing.                                                              *)

USE PairingAssumption

Marks(t) ==
  \/ \E u \in Owner : confirms[u] = "marking" /\ found[u] = t
  \/ \E v \in Tv : asks[v] = "marking" /\ seen[v] = t

(* Calls name a row they have read; a request has no row before it is      *)
(* saved, and none after it was refused.                                   *)
CallsHaveRows ==
  /\ \A u \in Owner : confirms[u] # "idle" => found[u] \in Tv
  /\ \A t \in Tv : asks[t] = "marking" => seen[t] \in Tv
  /\ \A t \in Tv : asks[t] \in {"new", "drawn"} => request[t] = "none"
  /\ \A u \in Owner : confirms[u] # "idle" => request[found[u]] # "none"
  /\ \A t \in Tv : asks[t] = "marking" => request[seen[t]] # "none"

(* A PIN leads a television that asks to no row but its own.               *)
PinsApart ==
  \A t \in Tv \ blurred, o \in Tv :
    asks[t] \in {"idle", "marking"} /\ Stored(o) /\ pin[o] = pin[t] => o = t

(* One user at a time confirms a television, none while it is marked as    *)
(* expired, and what was linked stays.                                     *)
ConfirmedAlone ==
  \A t \in Tv \ blurred :
    /\ \A u, v \in Confirming(t) : u = v
    /\ Confirming(t) # {} => request[t] \in {"pending", "gone"} /\ ~Marks(t)
    /\ Marks(t) => request[t] # "completed" /\ t \in overdue
    /\ \A u \in Owner : confirms[u] = "linked" /\ found[u] = t =>
         linked[t] = u /\ request[t] \in {"completed", "gone"} /\ ~Marks(t) /\ Confirming(t) = {}
    /\ \A u \in Owner : <<u, t>> \in told => ~Marks(t) /\ Confirming(t) = {}
    /\ shows[t] # NoOwner =>
         request[t] \in {"completed", "gone"} /\ ~Marks(t) /\ Confirming(t) = {}

PairingInv == PairingTypeOK /\ CallsHaveRows /\ PinsApart /\ ConfirmedAlone /\ PairingAgrees

LEMMA PairingStep ==
  ASSUME PairingInv, [PairingNext]_pairingVars
  PROVE  PairingInv'
<1> USE DEF PairingInv, PairingTypeOK, CallsHaveRows, PinsApart, ConfirmedAlone,
            PairingAgrees, Stored, Confirming, Marks
<1>1. ASSUME NEW t \in Tv, NEW p \in Pin, DrawPin(t, p) PROVE PairingInv'
  BY <1>1 DEF DrawPin
<1>2. ASSUME NEW t \in Tv, SaveRequest(t) PROVE PairingInv'
  BY <1>2 DEF SaveRequest
<1>3. ASSUME NEW t \in Tv, NEW o \in Tv, AskStatus(t, o) PROVE PairingInv'
  <2>1. PairingTypeOK' BY <1>3 DEF AskStatus, Overtakes
  <2>2. CallsHaveRows' BY <1>3 DEF AskStatus, Overtakes
  <2>3. PinsApart' BY <1>3 DEF AskStatus, Overtakes
  <2>4. ConfirmedAlone'
    <3>1. CASE o \in overdue /\ request[o] = "pending"
      <4>1. /\ asks[t] = "idle" /\ asks' = [asks EXCEPT ![t] = "marking"]
            /\ seen' = [seen EXCEPT ![t] = o]
            /\ UNCHANGED <<pin, request, overdue, linked, confirms, found, shows, told>>
            /\ blurred \subseteq blurred' /\ (o \in blurred' \/ Confirming(o) = {})
        BY <1>3, <3>1 DEF AskStatus, Overtakes
      <4>2. \A v \in Tv : Confirming(v)' = Confirming(v)
        BY <4>1 DEF Confirming
      <4>3. \A v \in Tv \ {o} : Marks(v)' <=> Marks(v)
        BY <4>1 DEF Marks
      <4> QED BY <3>1, <4>1, <4>2, <4>3 DEF ConfirmedAlone
    <3>2. CASE request[o] = "completed"
      <4>1. /\ asks[t] = "idle" /\ asks' = [asks EXCEPT ![t] = "over"]
            /\ shows' = [shows EXCEPT ![t] = linked[o]]
            /\ pin[o] = pin[t]
            /\ UNCHANGED <<pin, request, overdue, linked, confirms, found, told, seen, blurred>>
        BY <1>3, <3>2 DEF AskStatus
      <4>2. \A v \in Tv : Confirming(v)' = Confirming(v) /\ (Marks(v)' <=> Marks(v))
        BY <4>1 DEF Confirming
      <4>3. t \in blurred \/ o = t
        BY <3>2, <4>1 DEF PinsApart
      <4> QED BY <3>2, <4>1, <4>2, <4>3 DEF ConfirmedAlone
    <3> QED BY <1>3, <3>1, <3>2 DEF AskStatus
  <2>5. PairingAgrees' BY <1>3 DEF AskStatus, Overtakes
  <2> QED BY <2>1, <2>2, <2>3, <2>4, <2>5
<1>4. ASSUME NEW t \in Tv, TvMarksExpired(t) PROVE PairingInv'
  BY <1>4 DEF TvMarksExpired, Expired
<1>5. ASSUME NEW u \in Owner, NEW o \in Tv, FindRequest(u, o) PROVE PairingInv'
  BY <1>5 DEF FindRequest, Awaits
<1>6. ASSUME NEW u \in Owner, OwnerMarksExpired(u) PROVE PairingInv'
  BY <1>6 DEF OwnerMarksExpired, Expired
<1>7. ASSUME NEW u \in Owner, LinkOwner(u) PROVE PairingInv'
  <2> DEFINE o == found[u]
  <2>1. CASE request[o] = "gone"
    <3>1. /\ confirms[u] = "found" /\ confirms' = [confirms EXCEPT ![u] = "idle"]
          /\ found' = [found EXCEPT ![u] = NoTv]
          /\ UNCHANGED <<request, linked, pin, overdue, asks, seen, shows, told, blurred>>
      BY <1>7, <2>1 DEF LinkOwner
    <3>2. PairingTypeOK' BY <3>1
    <3>3. CallsHaveRows' /\ PinsApart' BY <3>1
    <3>4. ConfirmedAlone' BY <3>1
    <3>5. PairingAgrees' BY <3>1
    <3> QED BY <3>2, <3>3, <3>4, <3>5
  <2>2. CASE request[o] # "gone"
    <3>1. /\ confirms[u] = "found" /\ o \in Tv
          /\ confirms' = [confirms EXCEPT ![u] = "linked"]
          /\ request' = [request EXCEPT ![o] = "completed"]
          /\ linked' = [linked EXCEPT ![o] = u]
          /\ UNCHANGED <<found, pin, overdue, asks, seen, shows, told, blurred>>
      BY <1>7, <2>2 DEF LinkOwner
    <3>2. PairingTypeOK' BY <3>1
    <3>3. CallsHaveRows' BY <3>1
    <3>4. PinsApart'
      <4>1. \A t \in Tv : Stored(t)' => Stored(t) BY <3>1, <2>2
      <4>2. UNCHANGED <<pin, asks, blurred>> BY <3>1
      <4> HIDE DEF Stored
      <4> QED BY <4>1, <4>2 DEF PinsApart
    <3>5. ConfirmedAlone' BY <3>1
    <3>6. PairingAgrees' BY <3>1
    <3> QED BY <3>2, <3>3, <3>4, <3>5, <3>6
  <2> QED BY <2>1, <2>2
<1>8. ASSUME NEW u \in Owner, AnswerOwner(u) PROVE PairingInv'
  <2>1. PairingTypeOK'
    <3>1. found[u] \in Tv BY <1>8 DEF AnswerOwner
    <3>2. <<u, found[u]>> \in Owner \X Tv BY <3>1
    <3>3. told' \subseteq Owner \X Tv BY <1>8, <3>2 DEF AnswerOwner
    <3> QED BY <1>8, <3>3 DEF AnswerOwner
  <2>2. CallsHaveRows' BY <1>8 DEF AnswerOwner
  <2>3. PinsApart' BY <1>8 DEF AnswerOwner
  <2>4. ConfirmedAlone' BY <1>8 DEF AnswerOwner
  <2>5. PairingAgrees' BY <1>8 DEF AnswerOwner
  <2> QED BY <2>1, <2>2, <2>3, <2>4, <2>5
<1>9. ASSUME NEW t \in Tv, PinExpires(t) PROVE PairingInv'
  BY <1>9 DEF PinExpires
<1>10. ASSUME NEW t \in Tv, RowExpires(t) PROVE PairingInv'
  BY <1>10 DEF RowExpires
<1>11. CASE UNCHANGED pairingVars
  BY <1>11 DEF pairingVars
<1> QED
  BY <1>1, <1>2, <1>3, <1>4, <1>5, <1>6, <1>7, <1>8, <1>9, <1>10, <1>11 DEF PairingNext

(* However the calls of televisions and users interleave: unless its PIN   *)
(* was shared or expired while it was confirmed, who was told that a       *)
(* television is paired is the one its row names and its screen shows.     *)
THEOREM PairingStands == PairingSpec => []PairingAgrees
<1>1. PairingInit => PairingInv
  BY DEF PairingInit, PairingInv, PairingTypeOK, CallsHaveRows, PinsApart, ConfirmedAlone,
     PairingAgrees, Marks, Confirming, Stored
<1>2. PairingInv /\ [PairingNext]_pairingVars => PairingInv'
  BY PairingStep
<1>3. PairingInv => PairingAgrees
  BY DEF PairingInv
<1> QED BY <1>1, <1>2, <1>3, PTL DEF PairingSpec

-----------------------------------------------------------------------------
(* ClientRedeem.                                                           *)

USE NoAccountAssumption, RedeemHazardsAssumption

(* The steps, by what they do to a request.                                *)

Entering(c) == Replay(c) \/ ReplayDevice(c) \/ Enter(c)
Works(c) == \/ CreateAccount(c) \/ ClaimCode(c) \/ AddDevice(c) \/ Refuse(c) \/ Subscribe(c)
            \/ ActivateCode(c) \/ BookRedemption(c) \/ ClaimThrows(c) \/ RedeemThrows(c)
            \/ CatchRestore(c) \/ LateWrite(c)
Undoes(c) == \/ ReleaseCode(c) \/ Verify(c) \/ RemoveSubscription(c) \/ RemoveDevice(c)
             \/ RemoveLedger(c) \/ DeleteAccount(c) \/ UndoFails(c)
Idles == (\E c \in Client : ProcessDies(c)) \/ RecoverClaim \/ UNCHANGED clientVars

LEMMA StepCases ==
  ASSUME [ClientNext]_clientVars
  PROVE  (\E c \in Client : Entering(c) \/ Works(c) \/ Undoes(c)) \/ Idles
  BY DEF ClientNext, Entering, Works, Undoes, Idles

(* Every variable keeps its type.                                          *)
LEMMA TypeStep ==
  ASSUME ClientInv, [ClientNext]_clientVars
  PROVE  ClientTypeOK'
<1> USE DEF ClientInv, ClientTypeOK, Go, Undo, Book, code, account,
            Redeeming, Undoing
<1>1. ASSUME NEW c \in Client, Entering(c) PROVE ClientTypeOK'
  <2>1. CASE Replay(c)
    <3>1. strange' \subseteq RedeemHazard BY <2>1 DEF Replay, RedeemHazard
    <3> QED BY <2>1, <3>1 DEF Replay
  <2>2. CASE ReplayDevice(c) BY <2>2 DEF ReplayDevice, RedeemerExists
  <2>3. CASE Enter(c) BY <2>3 DEF Enter, RedeemerExists
  <2> QED BY <1>1, <2>1, <2>2, <2>3 DEF Entering
<1>2. ASSUME NEW c \in Client, Works(c) PROVE ClientTypeOK'
  <2>1. CASE CreateAccount(c) \/ ClaimCode(c) BY <2>1 DEF CreateAccount, ClaimCode
  <2>2. CASE AddDevice(c) \/ Refuse(c) BY <2>2 DEF AddDevice, Refuse
  <2>3. CASE Subscribe(c) \/ ActivateCode(c) BY <2>3 DEF Subscribe, ActivateCode
  <2>4. CASE BookRedemption(c) \/ ClaimThrows(c) \/ RedeemThrows(c) \/ CatchRestore(c)
    BY <2>4 DEF BookRedemption, ClaimThrows, RedeemThrows, CatchRestore
  <2>5. CASE LateWrite(c) BY <2>5 DEF LateWrite, RedeemHazard
  <2> QED BY <1>2, <2>1, <2>2, <2>3, <2>4, <2>5 DEF Works
<1>3. ASSUME NEW c \in Client, Undoes(c) PROVE ClientTypeOK'
  <2>1. CASE ReleaseCode(c) \/ Verify(c) BY <2>1 DEF ReleaseCode, Verify
  <2>2. CASE RemoveSubscription(c) \/ RemoveDevice(c)
    BY <2>2 DEF RemoveSubscription, RemoveDevice
  <2>3. CASE RemoveLedger(c) \/ DeleteAccount(c) BY <2>3 DEF RemoveLedger, DeleteAccount
  <2>4. CASE UndoFails(c) BY <2>4 DEF UndoFails, After
  <2> QED BY <1>3, <2>1, <2>2, <2>3, <2>4 DEF Undoes
<1>4. ASSUME Idles PROVE ClientTypeOK'
  BY <1>4 DEF Idles, ProcessDies, RecoverClaim, clientVars
<1> QED BY <1>1, <1>2, <1>3, <1>4, StepCases

(* A request that redeems keeps its account: nobody else deletes it.       *)
LEMMA RedeemerStep ==
  ASSUME ClientInv, [ClientNext]_clientVars
  PROVE  RedeemerExists'
<1> USE DEF ClientInv, ClientTypeOK, RedeemerExists, Go, Undo, Book, code, account,
            Redeeming, Undoing
<1>1. ASSUME NEW c \in Client, Entering(c) PROVE RedeemerExists'
  BY <1>1 DEF Entering, Replay, ReplayDevice, Enter
<1>2. ASSUME NEW c \in Client, Works(c) PROVE RedeemerExists'
  <2>1. CASE CreateAccount(c) \/ ClaimCode(c) BY <2>1 DEF CreateAccount, ClaimCode
  <2>2. CASE AddDevice(c) \/ Refuse(c) BY <2>2 DEF AddDevice, Refuse
  <2>3. CASE Subscribe(c) \/ ActivateCode(c) BY <2>3 DEF Subscribe, ActivateCode
  <2>4. CASE BookRedemption(c) \/ ClaimThrows(c) \/ RedeemThrows(c) \/ CatchRestore(c)
    BY <2>4 DEF BookRedemption, ClaimThrows, RedeemThrows, CatchRestore
  <2>5. CASE LateWrite(c) BY <2>5 DEF LateWrite
  <2> QED BY <1>2, <2>1, <2>2, <2>3, <2>4, <2>5 DEF Works
<1>3. ASSUME NEW c \in Client, Undoes(c) PROVE RedeemerExists'
  <2>1. CASE ReleaseCode(c) \/ Verify(c) BY <2>1 DEF ReleaseCode, Verify
  <2>2. CASE RemoveSubscription(c) \/ RemoveDevice(c)
    BY <2>2 DEF RemoveSubscription, RemoveDevice
  <2>3. CASE RemoveLedger(c) \/ DeleteAccount(c) BY <2>3 DEF RemoveLedger, DeleteAccount
  <2>4. CASE UndoFails(c) BY <2>4 DEF UndoFails, After
  <2> QED BY <1>3, <2>1, <2>2, <2>3, <2>4 DEF Undoes
<1>4. ASSUME Idles PROVE RedeemerExists'
  BY <1>4 DEF Idles, ProcessDies, RecoverClaim, clientVars
<1> QED BY <1>1, <1>2, <1>3, <1>4, StepCases

(* The account that activated the code keeps its rows: its own request     *)
(* removes them only after it has read that the code is not its any more.  *)
LEMMA HolderStep ==
  ASSUME ClientInv, [ClientNext]_clientVars
  PROVE  HolderStands'
<1> USE DEF ClientInv, ClientTypeOK, HolderStands, Go, Undo, Book, code, account,
            Redeeming, Undoing
<1>1. ASSUME NEW c \in Client, Entering(c) PROVE HolderStands'
  BY <1>1 DEF Entering, Replay, ReplayDevice, Enter
<1>2. ASSUME NEW c \in Client, Works(c) PROVE HolderStands'
  <2>1. CASE CreateAccount(c) \/ ClaimCode(c) BY <2>1 DEF CreateAccount, ClaimCode
  <2>2. CASE AddDevice(c) \/ Refuse(c) BY <2>2 DEF AddDevice, Refuse
  <2>3. CASE Subscribe(c) BY <2>3 DEF Subscribe
  <2>4. CASE ActivateCode(c) BY <2>4 DEF ActivateCode, RedeemerExists
  <2>5. CASE BookRedemption(c) \/ ClaimThrows(c) \/ RedeemThrows(c) \/ CatchRestore(c)
    BY <2>5 DEF BookRedemption, ClaimThrows, RedeemThrows, CatchRestore
  <2>6. CASE LateWrite(c) BY <2>6 DEF LateWrite
  <2> QED BY <1>2, <2>1, <2>2, <2>3, <2>4, <2>5, <2>6 DEF Works
<1>3. ASSUME NEW c \in Client, Undoes(c) PROVE HolderStands'
  <2>1. CASE ReleaseCode(c) \/ Verify(c) BY <2>1 DEF ReleaseCode, Verify, Mine
  <2>2. CASE RemoveSubscription(c) \/ RemoveDevice(c)
    BY <2>2 DEF RemoveSubscription, RemoveDevice
  <2>3. CASE RemoveLedger(c) \/ DeleteAccount(c) BY <2>3 DEF RemoveLedger, DeleteAccount
  <2>4. CASE UndoFails(c) BY <2>4 DEF UndoFails, After
  <2> QED BY <1>3, <2>1, <2>2, <2>3, <2>4 DEF Undoes
<1>4. ASSUME Idles PROVE HolderStands'
  BY <1>4 DEF Idles, ProcessDies, RecoverClaim, clientVars
<1> QED BY <1>1, <1>2, <1>3, <1>4, StepCases

(* What a compensation without a failed step has removed stays removed.    *)
LEMMA UndoneStep ==
  ASSUME ClientInv, [ClientNext]_clientVars
  PROVE  UndoneSoFar'
<1> USE DEF ClientInv, ClientTypeOK, UndoneSoFar, Go, Undo, Book, code, account,
            Redeeming, Undoing
<1>1. ASSUME NEW c \in Client, Entering(c) PROVE UndoneSoFar'
  <2>1. CASE Replay(c) BY <2>1 DEF Replay
  <2>2. CASE ReplayDevice(c) BY <2>2 DEF ReplayDevice, ReplayFindsAccount, AccountStays
  <2>3. CASE Enter(c) BY <2>3 DEF Enter
  <2> QED BY <1>1, <2>1, <2>2, <2>3 DEF Entering
<1>2. ASSUME NEW c \in Client, Works(c) PROVE UndoneSoFar'
  <2>1. CASE CreateAccount(c) \/ ClaimCode(c) BY <2>1 DEF CreateAccount, ClaimCode
  <2>2. CASE AddDevice(c) \/ Refuse(c) BY <2>2 DEF AddDevice, Refuse
  <2>3. CASE Subscribe(c) \/ ActivateCode(c) BY <2>3 DEF Subscribe, ActivateCode
  <2>4. CASE BookRedemption(c) \/ ClaimThrows(c) \/ RedeemThrows(c) \/ CatchRestore(c)
    BY <2>4 DEF BookRedemption, ClaimThrows, RedeemThrows, CatchRestore
  <2>5. CASE LateWrite(c) BY <2>5 DEF LateWrite
  <2> QED BY <1>2, <2>1, <2>2, <2>3, <2>4, <2>5 DEF Works
<1>3. ASSUME NEW c \in Client, Undoes(c) PROVE UndoneSoFar'
  <2>1. CASE ReleaseCode(c) \/ Verify(c) BY <2>1 DEF ReleaseCode, Verify
  <2>2. CASE RemoveSubscription(c) \/ RemoveDevice(c)
    BY <2>2 DEF RemoveSubscription, RemoveDevice
  <2>3. CASE RemoveLedger(c) \/ DeleteAccount(c) BY <2>3 DEF RemoveLedger, DeleteAccount
  <2>4. CASE UndoFails(c) BY <2>4 DEF UndoFails, After
  <2> QED BY <1>3, <2>1, <2>2, <2>3, <2>4 DEF Undoes
<1>4. ASSUME Idles PROVE UndoneSoFar'
  BY <1>4 DEF Idles, ProcessDies, RecoverClaim, clientVars
<1> QED BY <1>1, <1>2, <1>3, <1>4, StepCases

(* A returning client finds an account whose request is over.              *)
LEMMA ReplayStep ==
  ASSUME ClientInv, [ClientNext]_clientVars
  PROVE  ReplayFindsAccount'
<1> USE DEF ClientInv, ClientTypeOK, ReplayFindsAccount, AccountStays, Go, Undo, Book, code, account,
            Redeeming, Undoing
<1>1. ASSUME NEW c \in Client, Entering(c) PROVE ReplayFindsAccount'
  <2>1. CASE Replay(c) BY <2>1 DEF Replay, HolderStands
  <2>2. CASE ReplayDevice(c) BY <2>2 DEF ReplayDevice
  <2>3. CASE Enter(c) BY <2>3 DEF Enter
  <2> QED BY <1>1, <2>1, <2>2, <2>3 DEF Entering
<1>2. ASSUME NEW c \in Client, Works(c) PROVE ReplayFindsAccount'
  <2>1. CASE CreateAccount(c) \/ ClaimCode(c) BY <2>1 DEF CreateAccount, ClaimCode
  <2>2. CASE AddDevice(c) \/ Refuse(c) BY <2>2 DEF AddDevice, Refuse
  <2>3. CASE Subscribe(c) \/ ActivateCode(c) BY <2>3 DEF Subscribe, ActivateCode
  <2>4. CASE BookRedemption(c) \/ ClaimThrows(c) \/ RedeemThrows(c) \/ CatchRestore(c)
    BY <2>4 DEF BookRedemption, ClaimThrows, RedeemThrows, CatchRestore, RedeemerExists
  <2>5. CASE LateWrite(c) BY <2>5 DEF LateWrite
  <2> QED BY <1>2, <2>1, <2>2, <2>3, <2>4, <2>5 DEF Works
<1>3. ASSUME NEW c \in Client, Undoes(c) PROVE ReplayFindsAccount'
  <2>1. CASE ReleaseCode(c) \/ Verify(c) BY <2>1 DEF ReleaseCode, Verify
  <2>2. CASE RemoveSubscription(c) \/ RemoveDevice(c)
    BY <2>2 DEF RemoveSubscription, RemoveDevice
  <2>3. CASE RemoveLedger(c) \/ DeleteAccount(c) BY <2>3 DEF RemoveLedger, DeleteAccount
  <2>4. CASE UndoFails(c) BY <2>4 DEF UndoFails, After
  <2> QED BY <1>3, <2>1, <2>2, <2>3, <2>4 DEF Undoes
<1>4. ASSUME Idles PROVE ReplayFindsAccount'
  BY <1>4 DEF Idles, ProcessDies, RecoverClaim, clientVars
<1> QED BY <1>1, <1>2, <1>3, <1>4, StepCases

(* Rows are written for accounts that exist, and an account goes after its *)
(* rows.                                                                   *)
LEMMA NothingLeftStep ==
  ASSUME ClientInv, [ClientNext]_clientVars
  PROVE  NothingLeftBehind'
<1> USE DEF ClientInv, ClientTypeOK, NothingLeftBehind, Go, Undo, Book, code, account,
            Redeeming, Undoing
<1>1. ASSUME NEW c \in Client, Entering(c) PROVE NothingLeftBehind'
  BY <1>1 DEF Entering, Replay, ReplayDevice, Enter, ReplayFindsAccount, AccountStays
<1>2. ASSUME NEW c \in Client, Works(c) PROVE NothingLeftBehind'
  <2> USE DEF RedeemerExists
  <2>1. CASE CreateAccount(c) \/ ClaimCode(c) BY <2>1 DEF CreateAccount, ClaimCode
  <2>2. CASE AddDevice(c) \/ Refuse(c) BY <2>2 DEF AddDevice, Refuse
  <2>3. CASE Subscribe(c) \/ ActivateCode(c) BY <2>3 DEF Subscribe, ActivateCode
  <2>4. CASE BookRedemption(c) \/ ClaimThrows(c) \/ RedeemThrows(c) \/ CatchRestore(c)
    BY <2>4 DEF BookRedemption, ClaimThrows, RedeemThrows, CatchRestore
  <2>5. CASE LateWrite(c) BY <2>5 DEF LateWrite
  <2> QED BY <1>2, <2>1, <2>2, <2>3, <2>4, <2>5 DEF Works
<1>3. ASSUME NEW c \in Client, Undoes(c) PROVE NothingLeftBehind'
  <2>1. CASE DeleteAccount(c)
    BY <2>1 DEF DeleteAccount, MayDelete, UndoneSoFar, ReplayFindsAccount, AccountStays
  <2>2. CASE ~DeleteAccount(c)
    BY <1>3, <2>2 DEF Undoes, ReleaseCode, Verify, RemoveSubscription, RemoveDevice,
       RemoveLedger, UndoFails
  <2> QED BY <2>1, <2>2
<1>4. ASSUME Idles PROVE NothingLeftBehind'
  BY <1>4 DEF Idles, ProcessDies, RecoverClaim, clientVars
<1> QED BY <1>1, <1>2, <1>3, <1>4, StepCases

-----------------------------------------------------------------------------
(* The theorems.                                                           *)

(* Every request that is under way has the rows its next step relies on.   *)
THEOREM ClientInvariant == ClientSpec => []ClientInv
<1>1. ClientInit => ClientInv
  BY DEF ClientInit, ClientInv, ClientTypeOK, RedeemerExists, HolderStands, UndoneSoFar,
     ReplayFindsAccount, AccountStays, NothingLeftBehind, Redeeming, Undoing
<1>2. ClientInv /\ [ClientNext]_clientVars => ClientInv'
  BY TypeStep, RedeemerStep, HolderStep, UndoneStep, ReplayStep, NothingLeftStep DEF ClientInv
<1> QED BY <1>1, <1>2, PTL DEF ClientSpec

(* No code is activated by an account that is gone, unless the database    *)
(* applies a write after it was given up.                                  *)
THEOREM CodeNeverDangles == ClientSpec => []NoDanglingCode
<1>1. ClientInv => NoDanglingCode
  BY DEF ClientInv, HolderStands, NoDanglingCode
<1> QED BY <1>1, ClientInvariant, PTL

(* The account that holds the activated code holds the subscription.       *)
THEOREM HolderKeepsSubscription == ClientSpec => []HolderIsSubscribed
<1>1. ClientInv => HolderIsSubscribed
  BY DEF ClientInv, HolderStands, HolderIsSubscribed
<1> QED BY <1>1, ClientInvariant, PTL

(* A deleted account leaves no row behind.                                 *)
THEOREM CompensationLeavesNothing == ClientSpec => []NothingLeftBehind
<1>1. ClientInv => NothingLeftBehind BY DEF ClientInv
<1> QED BY <1>1, ClientInvariant, PTL

-----------------------------------------------------------------------------
(* The live player: the ladder of URLs.                                    *)

PlayerShape ==
  /\ {shown, wanted, resolver} \subseteq Channel \cup {NoChannel}
  /\ prepares \in {"due", "asking", "idle"}
  /\ slots \in [of : Channel \cup {NoChannel}, n : Nat]
  /\ slot \in Nat /\ attempt \in Nat /\ total \in Nat
  /\ recovering \in BOOLEAN /\ watched \in BOOLEAN /\ upset \in BOOLEAN
  /\ job \in {"none", "step", "asking", "delay"}
  /\ playing \in {"idle", "loading", "ready", "stalled"}
  /\ dead \in {"no", "refused", "fatal", "exhausted"}
  /\ probes \subseteq {"fatal", "exhausted"}
  (* A reconnect is a recovery, and a recovering player is not watched.    *)
  /\ job # "none" => recovering
  /\ watched => ~recovering /\ playing # "idle"
  /\ prepares = "asking" => resolver = NoChannel
  /\ prepares # "idle" => shown # NoChannel

(* Before the first channel is shown nothing goes on.                      *)
Blank ==
  /\ resolver = NoChannel /\ job = "none" /\ playing = "idle" /\ ~watched
  /\ probes = {} /\ leftovers = {} /\ dead = "no"

Has(k) == <<k, "direct">> \in tried /\ (shown \in Proxied => <<k, "proxy">> \in tried)

AllTried == Urls(shown) \subseteq tried

(* The attempts that lead to attempt a of slot k, if none is skipped.      *)
Position(k, a) ==
  IF k = 0 THEN a
  ELSE FirstTries + (IF shown \in Proxied THEN 2 * k - 1 ELSE k - 1) + a

(* The player has been given every URL below its place on the ladder, and  *)
(* no more attempts are counted than lead to that place.                   *)
Ladder ==
  /\ slots.of = shown /\ slots.n \in 1 .. Offered[shown]
  /\ slot <= slots.n
  /\ \A k \in 0 .. slot - 1 : Has(k)
  /\ total <= Position(slot, attempt)
  /\ slot = slots.n => (job = "asking" /\ attempt = 1)
  /\ slot < slots.n =>
       /\ job # "asking" /\ attempt <= Direct(slot) + Proxies
       /\ (playing = "idle" /\ job = "delay") \/ Url(slot, attempt) \in tried
       /\ attempt > Direct(slot) => <<slot, "direct">> \in tried

(* What holds while nothing excepted has hit the shown channel.            *)
Undisturbed ==
  /\ leftovers = {}
  /\ prepares = "asking" => (job = "none" /\ ~recovering)
  /\ Foreign => (probes = {} /\ dead # "exhausted")
  /\ ~Foreign =>
       /\ Ladder \/ AllTried
       /\ dead = "exhausted" \/ "exhausted" \in probes => AllTried

PlayerInv ==
  /\ PlayerShape
  /\ shown = NoChannel => Blank
  /\ shown # NoChannel /\ ~upset => Undisturbed


-----------------------------------------------------------------------------
(* The shape is kept.                                                      *)

LEMMA ScreenShape ==
  ASSUME PlayerShape,
         \/ \E c \in Channel : Press(c)
         \/ Show \/ ShowFails \/ PrepareBegins \/ PrepareEnds \/ PrepareFails \/ LateFailure
  PROVE  PlayerShape'
<1> USE DEF PlayerShape
<1>1. ASSUME NEW c \in Channel, Press(c) PROVE PlayerShape'
  BY <1>1 DEF Press, ladderVars
<1>2. CASE Show BY <1>2 DEF Show, ladderVars
<1>3. CASE ShowFails BY <1>3 DEF ShowFails, ladderVars
<1>4. CASE PrepareBegins BY <1>4 DEF PrepareBegins, Cancel, Spoil
<1>5. CASE PrepareEnds BY <1>5 DEF PrepareEnds
<1>6. CASE PrepareFails BY <1>6 DEF PrepareFails, ladderVars
<1>7. CASE LateFailure BY <1>7 DEF LateFailure, ladderVars, screenVars
<1> QED BY <1>1, <1>2, <1>3, <1>4, <1>5, <1>6, <1>7

LEMMA EventShape ==
  ASSUME PlayerShape,
         Ready \/ Stalls \/ Unresponsive \/ ParseError \/ NetworkError \/ OtherError
  PROVE  PlayerShape'
<1> USE PlayerAssumption DEF PlayerShape, ladderVars, screenVars, Cancel, Spoil, Reconnect, Declare, Breaks
<1>1. CASE Ready BY <1>1 DEF Ready
<1>2. CASE Stalls BY <1>2 DEF Stalls
<1>3. CASE Unresponsive BY <1>3 DEF Unresponsive
<1>4. CASE ParseError
  <2>1. Direct(slot) \in Nat BY DEF Direct
  <2>2. attempt' \in Nat BY <1>4, <2>1 DEF ParseError
  <2> QED BY <1>4, <2>2 DEF ParseError
<1>5. CASE NetworkError BY <1>5 DEF NetworkError
<1>6. CASE OtherError BY <1>6 DEF OtherError
<1> QED BY <1>1, <1>2, <1>3, <1>4, <1>5, <1>6

LEMMA JobShape ==
  ASSUME PlayerShape,
         \/ JobSteps \/ Answered \/ NotAnswered \/ JobPrepares \/ LateNull
         \/ \E v \in probes : ProbeAnswers(v)
  PROVE  PlayerShape'
<1> USE DEF PlayerShape, ladderVars, screenVars, Spoil, GiveUrl
<1>1. CASE JobSteps
  <2>1. UNCHANGED <<screenVars, slots, resolver, recovering, leftovers, watched, probes>>
    BY <1>1 DEF JobSteps
  <2>2. slot' \in Nat /\ attempt' \in Nat /\ total' \in Nat BY <1>1 DEF JobSteps
  <2>3. /\ job = "step" /\ job' \in {"asking", "none", "delay"}
        /\ dead' \in {dead, "exhausted", "no"}
        /\ playing' \in {playing, "loading"}
        /\ upset' \in BOOLEAN
    BY <1>1 DEF JobSteps
  <2> QED BY <2>1, <2>2, <2>3
<1>2. CASE Answered BY <1>2 DEF Answered
<1>3. CASE NotAnswered BY <1>3 DEF NotAnswered
<1>4. CASE JobPrepares BY <1>4 DEF JobPrepares
<1>5. CASE LateNull BY <1>5 DEF LateNull
<1>6. ASSUME NEW v \in probes, ProbeAnswers(v) PROVE PlayerShape'
  BY <1>6 DEF ProbeAnswers
<1> QED BY <1>1, <1>2, <1>3, <1>4, <1>5, <1>6

-----------------------------------------------------------------------------
(* The ladder.                                                             *)

LEMMA AllRungs ==
  ASSUME shown \in Channel, \A k \in 0 .. Offered[shown] - 1 : Has(k)
  PROVE  AllTried
<1>1. ASSUME NEW u \in Urls(shown) PROVE u \in tried
  <2>1. PICK k \in 0 .. Offered[shown] - 1, way \in {"direct", "proxy"} :
          u = <<k, way>> /\ (way = "proxy" => shown \in Proxied)
    BY DEF Urls
  <2> QED BY <2>1 DEF Has
<1> QED BY <1>1 DEF AllTried

(* The server offers no slot above.                                        *)
LEMMA TopOfLadder ==
  ASSUME PlayerShape, shown \in Channel, Ladder, slot = slots.n, slots.n = Offered[shown]
  PROVE  AllTried
<1>1. Offered[shown] \in Nat BY PlayerAssumption
<1> QED BY <1>1, AllRungs DEF Ladder, PlayerShape

(* A slot whose attempts are used up has been tried.                       *)
LEMMA SlotUsedUp ==
  ASSUME PlayerShape, shown \in Channel, Ladder, slot < slots.n,
         Url(slot, attempt) \in tried, attempt >= Direct(slot) + Proxies
  PROVE  Has(slot) /\ attempt = Direct(slot) + Proxies
<1>1. Direct(slot) \in Nat /\ slots.n \in Nat /\ slot \in Nat /\ attempt \in Nat
  BY PlayerAssumption DEF Direct, PlayerShape
<1>2. attempt = Direct(slot) + Proxies BY <1>1 DEF Ladder, Proxies
<1>3. CASE shown \in Proxied
  <2>1. Proxies = 1 BY <1>3 DEF Proxies, Ladder
  <2>2. attempt > Direct(slot) BY <1>1, <1>2, <2>1
  <2>3. OnProxy(slot, attempt) BY <2>1, <2>2 DEF OnProxy
  <2> QED BY <1>2, <2>2, <2>3 DEF Has, Url, Ladder
<1>4. CASE shown \notin Proxied
  <2>1. Proxies = 0 BY <1>4 DEF Proxies, Ladder
  <2>2. ~OnProxy(slot, attempt) BY <2>1 DEF OnProxy
  <2> QED BY <1>2, <1>4, <2>2 DEF Has, Url
<1> QED BY <1>3, <1>4

(* Every attempt counted has been made: then none is left.                 *)
LEMMA CountUsedUp ==
  ASSUME PlayerShape, shown \in Channel, Ladder, resolver # NoChannel, slot < slots.n,
         Url(slot, attempt) \in tried, ~(total < MaxTotal)
  PROVE  AllTried
<1> DEFINE n == slots.n
<1>1. /\ n \in Nat /\ slot \in Nat /\ attempt \in Nat /\ total \in Nat
      /\ Offered[shown] \in Nat /\ n <= Offered[shown] /\ Offered[shown] <= MaxFallbackSlots
      /\ FirstTries \in Nat /\ MaxFallbackSlots \in Nat /\ n > 0 /\ FirstTries > 0
  BY PlayerAssumption DEF Ladder, PlayerShape
<1>2. slots.of = shown /\ slot < n /\ total <= Position(slot, attempt)
      /\ attempt <= Direct(slot) + Proxies
  BY DEF Ladder
<1>3. Direct(slot) = IF slot = 0 THEN FirstTries ELSE 1 BY DEF Direct
<1>4. slot = n - 1 /\ n = MaxFallbackSlots /\ attempt >= Direct(slot) + Proxies
  <2>1. CASE shown \in Proxied
    <3>1. Proxies = 1 BY <1>2, <2>1 DEF Proxies
    <3>2. MaxTotal = FirstTries + n - 1 + n + (MaxFallbackSlots - n)
      BY <1>1, <3>1 DEF MaxTotal
    <3>3. Position(slot, attempt) = IF slot = 0 THEN attempt ELSE FirstTries + (2 * slot - 1) + attempt
      BY <2>1 DEF Position
    <3> HIDE DEF n
    <3> QED BY <1>1, <1>2, <1>3, <3>1, <3>2, <3>3
  <2>2. CASE shown \notin Proxied
    <3>1. Proxies = 0 BY <1>2, <2>2 DEF Proxies
    <3>2. MaxTotal = FirstTries + n - 1 + (MaxFallbackSlots - n)
      BY <1>1, <3>1 DEF MaxTotal
    <3>3. Position(slot, attempt) = IF slot = 0 THEN attempt ELSE FirstTries + (slot - 1) + attempt
      BY <2>2 DEF Position
    <3> HIDE DEF n
    <3> QED BY <1>1, <1>2, <1>3, <3>1, <3>2, <3>3
  <2> QED BY <2>1, <2>2
<1>5. Has(slot) BY <1>4, SlotUsedUp
<1>6. \A k \in 0 .. Offered[shown] - 1 : k \in 0 .. slot - 1 \/ k = slot BY <1>1, <1>4
<1> QED BY <1>5, <1>6, AllRungs DEF Ladder

(* The test of the parse errors says the same in another way.              *)
LEMMA NothingRemains ==
  ASSUME PlayerShape, shown \in Channel, Ladder, resolver # NoChannel, slot < slots.n,
         Url(slot, attempt) \in tried, ~FallbackRemains
  PROVE  AllTried
<1>1. /\ slots.n \in Nat /\ slot \in Nat /\ attempt \in Nat
      /\ Offered[shown] \in Nat /\ slots.n <= Offered[shown] /\ Offered[shown] <= MaxFallbackSlots
      /\ MaxFallbackSlots \in Nat
  BY PlayerAssumption DEF Ladder, PlayerShape
<1>2. slot = slots.n - 1 /\ slots.n = MaxFallbackSlots BY <1>1 DEF FallbackRemains
<1>3. Has(slot)
  <2>1. CASE shown \in Proxied
    <3>1. Proxies = 1 BY <2>1 DEF Proxies, Ladder
    <3>2. OnProxy(slot, attempt) BY <3>1 DEF FallbackRemains
    <3>3. attempt > Direct(slot) BY <3>2 DEF OnProxy
    <3> QED BY <3>2, <3>3 DEF Has, Url, Ladder
  <2>2. CASE shown \notin Proxied
    <3>1. Proxies = 0 BY <2>2 DEF Proxies, Ladder
    <3>2. ~OnProxy(slot, attempt) BY <3>1 DEF OnProxy
    <3> QED BY <2>2, <3>2 DEF Has, Url
  <2> QED BY <2>1, <2>2
<1>4. \A k \in 0 .. Offered[shown] - 1 : k \in 0 .. slot - 1 \/ k = slot BY <1>1, <1>2
<1> QED BY <1>3, <1>4, AllRungs DEF Ladder


-----------------------------------------------------------------------------
(* What the steps keep.                                                    *)

(* Before the first channel only a channel can be chosen and shown.        *)
LEMMA BlankStep ==
  ASSUME PlayerShape, shown = NoChannel => Blank, PlayerNext, shown' = NoChannel
  PROVE  Blank'
<1> USE DEF PlayerShape, ladderVars, screenVars
<1>1. ~Show BY PlayerAssumption DEF Show
<1>2. shown = NoChannel /\ Blank
  BY <1>1 DEF PlayerNext, Press, ShowFails, PrepareBegins, PrepareEnds, PrepareFails, LateFailure,
    Ready, Stalls, Unresponsive, ParseError, NetworkError, OtherError, Breaks, JobSteps, Answered,
    NotAnswered, JobPrepares, LateNull, ProbeAnswers
<1>3. (\E c \in Channel : Press(c)) \/ ShowFails
  BY <1>1, <1>2 DEF PlayerNext, Blank, PrepareBegins, PrepareEnds, PrepareFails, LateFailure,
    Ready, Stalls, Unresponsive, ParseError, NetworkError, OtherError, Breaks, JobSteps, Answered,
    NotAnswered, JobPrepares, LateNull, ProbeAnswers
<1> QED BY <1>2, <1>3 DEF Press, ShowFails, Blank

Watching == PlayerShape /\ shown \in Channel /\ ~upset /\ Undisturbed

(* The place on the ladder and what was tried so far stay as they are.     *)
LEMMA SameLadder ==
  ASSUME Watching, UNCHANGED <<shown, slots, resolver, slot, attempt, total, tried>>,
         job = "asking" => job' = "asking", job' = "asking" => job = "asking",
         playing = "idle" /\ job = "delay" => playing' = "idle" /\ job' = "delay",
         Ladder
  PROVE  Ladder'
  BY DEF Ladder, Has, Position, Url, OnProxy, Direct, Proxies

LEMMA SameTried ==
  ASSUME UNCHANGED <<shown, tried>>
  PROVE  AllTried' <=> AllTried
  BY DEF AllTried, Urls

(* A channel is shown anew: what is left of the last one is excepted.      *)
LEMMA ShowStarts ==
  ASSUME PlayerShape, Show, ~upset'
  PROVE  Undisturbed'
<1>1. prepares' = "due" /\ leftovers' = {} /\ probes = {} /\ dead = "no"
  BY DEF Show
<1> QED BY <1>1 DEF Show, Foreign, Undisturbed

LEMMA ScreenKeeps ==
  ASSUME Watching,
         \/ \E c \in Channel : Press(c)
         \/ ShowFails \/ PrepareBegins \/ PrepareEnds \/ PrepareFails \/ LateFailure,
         ~upset'
  PROVE  Undisturbed'
<1> USE DEF Watching, Undisturbed
<1>1. ASSUME NEW c \in Channel, Press(c) PROVE Undisturbed'
  <2>1. UNCHANGED <<shown, slots, resolver, slot, attempt, total, tried, job, playing, prepares, probes,
                    leftovers, recovering>> /\ dead' = "no"
    BY <1>1 DEF Press, ladderVars
  <2>2. Ladder => Ladder' BY <2>1, SameLadder
  <2>3. AllTried' <=> AllTried BY <2>1, SameTried
  <2> QED BY <2>1, <2>2, <2>3 DEF Foreign
<1>3. CASE ShowFails
  <2>1. UNCHANGED <<shown, slots, resolver, slot, attempt, total, tried, job, playing, prepares, probes,
                    leftovers, recovering, dead>>
    BY <1>3 DEF ShowFails, ladderVars
  <2>2. Ladder => Ladder' BY <2>1, SameLadder
  <2>3. AllTried' <=> AllTried BY <2>1, SameTried
  <2> QED BY <2>1, <2>2, <2>3 DEF Foreign
<1>4. CASE PrepareBegins
  <2>1. job # "asking" /\ prepares = "due" BY <1>4 DEF PrepareBegins, Spoil
  <2>2. Foreign /\ shown # NoChannel BY <2>1, PlayerAssumption DEF Foreign
  <2>3. Foreign' BY <1>4, <2>2 DEF PrepareBegins, Foreign
  <2> QED BY <1>4, <2>1, <2>2, <2>3 DEF PrepareBegins, Cancel
<1>5. CASE PrepareEnds
  <2>1. Foreign BY <1>5, PlayerAssumption DEF PrepareEnds, Foreign, PlayerShape
  <2>2. /\ shown' = shown /\ slots' = [of |-> shown, n |-> 1] /\ slot' = 0 /\ attempt' = 0
        /\ total' = 0 /\ tried' = {<<0, "direct">>} /\ job' = "none" /\ resolver' = shown
        /\ prepares' = "idle" /\ UNCHANGED <<dead, probes, leftovers>>
    BY <1>5 DEF PrepareEnds
  <2>3. Ladder'
    <3>1. slots'.of = shown' /\ slots'.n = 1 BY <2>2
    <3>2. 1 \in 1 .. Offered[shown] BY PlayerAssumption
    <3>3. Direct(0) = FirstTries /\ FirstTries > 0 /\ FirstTries \in Nat
      BY PlayerAssumption DEF Direct
    <3>4. Proxies' \in {0, 1} BY DEF Proxies
    <3>5. Url(0, 0)' = <<0, "direct">> BY <3>1, <3>3 DEF Url, OnProxy, Direct
    <3>6. slot' < slots'.n /\ \A k \in 0 .. slot' - 1 : FALSE BY <2>2, <3>1
    <3>7. total' <= Position(slot, attempt)' BY <2>2 DEF Position
    <3>8. attempt' <= Direct(slot)' + Proxies' /\ ~(attempt' > Direct(slot)')
      <4>1. Direct(slot)' = FirstTries /\ attempt' = 0 BY <2>2 DEF Direct
      <4>2. PICK p \in {0, 1} : p = Proxies' BY <3>4
      <4>3. PICK d \in Nat : d = FirstTries BY <3>3
      <4>4. 0 <= d + p /\ ~(0 > d) OBVIOUS
      <4> QED BY <4>1, <4>2, <4>3, <4>4
    <3>9. Url(slot, attempt)' \in tried' BY <2>2, <3>5 DEF Url, OnProxy, Direct
    <3> QED BY <2>2, <3>1, <3>2, <3>6, <3>7, <3>8, <3>9 DEF Ladder
  <2> QED BY <2>1, <2>2, <2>3 DEF Foreign
<1>6. CASE PrepareFails
  <2>1. Foreign BY <1>6, PlayerAssumption DEF PrepareFails, Foreign, PlayerShape
  <2>2. Foreign' BY <1>6, PlayerAssumption DEF PrepareFails, Foreign, PlayerShape, ladderVars
  <2> QED BY <1>6, <2>1, <2>2 DEF PrepareFails
<1>7. CASE LateFailure BY <1>7 DEF LateFailure
<1> QED BY <1>1, <1>3, <1>4, <1>5, <1>6, <1>7

(* The states from which an attempt starts are below the top.              *)
LEMMA EventKeeps ==
  ASSUME Watching,
         Ready \/ Stalls \/ Unresponsive \/ ParseError \/ NetworkError \/ OtherError,
         ~upset'
  PROVE  Undisturbed'
<1> USE DEF Watching, Undisturbed
<1>0. /\ UNCHANGED <<screenVars, slots, resolver, slot, total, tried>>
      /\ UNCHANGED <<shown, prepares>>
      /\ Foreign' = Foreign /\ (AllTried' <=> AllTried)
  BY SameTried DEF Ready, Stalls, Unresponsive, ParseError, NetworkError, OtherError, Breaks,
    ladderVars, screenVars, Foreign
<1>1. CASE Ready
  <2>1. job # "asking" => job' # "asking" BY <1>1 DEF Ready, Cancel
  <2>2. job # "asking"
    BY <1>1 DEF Ready, Spoil, PlayerShape
  <2>3. playing # "idle" /\ UNCHANGED <<attempt, probes>> /\ dead' \in {dead, "no"} /\ leftovers' = {}
        /\ (prepares = "asking" => job' = "none" /\ recovering' = FALSE)
    BY <1>1, <2>2 DEF Ready, Cancel, ladderVars
  <2>4. Ladder => Ladder' BY <1>0, <2>1, <2>2, <2>3, SameLadder DEF Undisturbed
  <2> QED BY <1>0, <2>3, <2>4
<1>2. CASE Stalls
  <2>1. UNCHANGED <<job, attempt, probes, dead, leftovers, recovering>> /\ playing # "idle"
    BY <1>2 DEF Stalls, ladderVars
  <2>2. Ladder => Ladder' BY <1>0, <2>1, SameLadder
  <2> QED BY <1>0, <2>1, <2>2
<1>3. CASE Unresponsive
  <2>1. ~Foreign /\ job = "none" /\ playing # "idle"
    BY <1>3 DEF Unresponsive, Spoil, PlayerShape
  <2>2. UNCHANGED <<attempt, probes, playing>> /\ leftovers' = {} /\ job' # "asking"
    BY <1>3, <2>1 DEF Unresponsive, ladderVars, Reconnect, Cancel
  <2>3. Ladder => Ladder' BY <1>0, <2>1, <2>2, SameLadder
  <2>4. CASE total < MaxTotal
    BY <1>0, <1>3, <2>1, <2>2, <2>3, <2>4 DEF Unresponsive, Reconnect, Foreign, PlayerShape
  <2>5. CASE ~(total < MaxTotal)
    <3>1. ASSUME Ladder PROVE AllTried
      <4>1. slot < slots.n /\ Url(slot, attempt) \in tried
        BY <2>1, <3>1 DEF Ladder, PlayerShape
      <4> QED BY <2>1, <2>5, <3>1, <4>1, CountUsedUp, PlayerAssumption DEF Foreign
    <3> QED BY <1>0, <2>1, <2>2, <3>1 DEF Foreign, PlayerShape
  <2> QED BY <2>4, <2>5
<1>4. CASE ParseError \/ NetworkError
  <2>1. ~Foreign /\ job # "asking" /\ playing # "idle"
    BY <1>4 DEF ParseError, NetworkError, Spoil, Breaks
  <2>2. /\ job' \in {job, "step", "delay"} /\ leftovers' = {} /\ dead' \in {dead, "no", "exhausted"}
        /\ probes' \in {probes, probes \cup {"exhausted"}}
    BY <1>4, <2>1 DEF ParseError, NetworkError, Reconnect, Cancel, Declare
  <2>3. prepares # "asking" BY <2>1, PlayerAssumption DEF Foreign, PlayerShape
  <2>4. ASSUME Ladder PROVE Ladder'
    <3>1. slot < slots.n /\ Url(slot, attempt) \in tried
      BY <2>1, <2>4 DEF Ladder, PlayerShape
    <3>2. CASE UNCHANGED attempt
      <4>1. Url(slot, attempt)' = Url(slot, attempt) /\ Proxies' = Proxies /\ Direct(slot)' = Direct(slot)
            /\ Position(slot, attempt)' = Position(slot, attempt)
        BY <1>0, <3>2 DEF Url, OnProxy, Proxies, Direct, Position
      <4> QED BY <1>0, <2>1, <2>2, <2>4, <3>1, <3>2, <4>1 DEF Ladder, Has, PlayerShape
    <3>3. CASE attempt < Direct(slot) /\ attempt' = Direct(slot)
      <4>1. Direct(slot) \in Nat BY PlayerAssumption DEF Direct
      <4>2. Proxies' = Proxies /\ Direct(slot)' = Direct(slot) /\ Proxies \in {0, 1}
        BY <1>0 DEF Proxies, Direct
      <4>3. Url(slot, attempt) = <<slot, "direct">> /\ Url(slot, attempt)' = <<slot, "direct">>
        BY <1>0, <3>3, <4>1, <4>2, PlayerAssumption DEF Url, OnProxy, PlayerShape
      <4>4. Position(slot, attempt) <= Position(slot, attempt)'
            /\ Position(slot, attempt) \in Int /\ Position(slot, attempt)' \in Int
        BY <1>0, <3>3, <4>1, PlayerAssumption DEF Position, PlayerShape
      <4>5. total' <= Position(slot, attempt)'
        BY <1>0, <2>4, <4>4 DEF Ladder, PlayerShape
      <4> QED BY <1>0, <2>1, <2>2, <2>4, <3>1, <3>3, <4>1, <4>2, <4>3, <4>5
          DEF Ladder, Has, PlayerShape
    <3> QED BY <1>4, <3>2, <3>3 DEF ParseError, NetworkError
  <2>5. ASSUME Ladder, dead' = "exhausted" \/ "exhausted" \in probes',
               ~(dead = "exhausted" \/ "exhausted" \in probes)
        PROVE  AllTried
    <3>1. slot < slots.n /\ Url(slot, attempt) \in tried
      BY <2>1, <2>5 DEF Ladder, PlayerShape
    <3>2. ~(total < MaxTotal) \/ ~FallbackRemains
      BY <1>4, <2>5 DEF ParseError, NetworkError, Declare, Reconnect
    <3> QED BY <2>1, <2>5, <3>1, <3>2, CountUsedUp, NothingRemains, PlayerAssumption DEF Foreign
  <2> QED BY <1>0, <2>1, <2>2, <2>3, <2>4, <2>5
<1>5. CASE OtherError
  <2>1. ~Foreign /\ playing # "idle" /\ UNCHANGED <<job, attempt, leftovers>>
    BY <1>5 DEF OtherError, Spoil, Breaks
  <2>2. dead' \in {dead, "fatal"} /\ probes' \in {probes, probes \cup {"fatal"}}
    BY <1>5 DEF OtherError, Declare
  <2>3. Ladder => Ladder' BY <1>0, <2>1, SameLadder
  <2>4. prepares # "asking" BY <2>1, PlayerAssumption DEF Foreign, PlayerShape
  <2> QED BY <1>0, <2>1, <2>2, <2>3, <2>4
<1> QED BY <1>1, <1>2, <1>3, <1>4, <1>5


(* A job takes the next attempt.                                           *)
LEMMA JobStepsKeeps ==
  ASSUME Watching, JobSteps, ~upset'
  PROVE  Undisturbed'
<1> USE DEF Watching
<1> DEFINE over == attempt + 1 > MaxFor(slot)
           s == IF over THEN slot + 1 ELSE slot
           a == IF over THEN 1 ELSE attempt + 1
<1>1. /\ job = "step" /\ slot' = s /\ attempt' = a /\ total' = total + 1
      /\ UNCHANGED <<shown, prepares, slots, resolver, leftovers, probes>>
      /\ job' \in {"asking", "delay", "none"}
      /\ dead' \in {dead, "no", "exhausted"}
      /\ tried \subseteq tried'
  BY DEF JobSteps, screenVars, GiveUrl
<1>2. leftovers = {} /\ prepares # "asking" BY <1>1 DEF Undisturbed
<1>3. CASE Foreign
  <2>1. ~(s >= slots.n /\ resolver = NoChannel) BY <1>3 DEF JobSteps, Spoil
  <2>2. dead' \in {dead, "no"} BY <2>1 DEF JobSteps
  <2>3. Foreign' BY <1>1, <1>3 DEF Foreign
  <2> QED BY <1>1, <1>2, <1>3, <2>2, <2>3 DEF Undisturbed
<1>4. CASE ~Foreign
  <2>1. resolver = shown /\ resolver # NoChannel /\ ~Foreign'
    BY <1>1, <1>4, PlayerAssumption DEF Foreign
  <2>2. dead' \in {dead, "no"} BY <2>1 DEF JobSteps
  <2>3. ASSUME AllTried PROVE AllTried' BY <1>1, <2>3 DEF AllTried, Urls
  <2>4. ASSUME Ladder PROVE Ladder'
    <3>1. /\ slot < slots.n /\ Url(slot, attempt) \in tried
          /\ attempt <= Direct(slot) + Proxies
      BY <1>1, <2>4 DEF Ladder, PlayerShape
    <3>2. /\ slots.n \in Nat /\ slot \in Nat /\ attempt \in Nat /\ total \in Nat
          /\ Direct(slot) \in Nat /\ Proxies \in {0, 1} /\ FirstTries \in Nat \ {0}
      BY PlayerAssumption DEF PlayerShape, Direct, Proxies
    <3>3. MaxFor(slot) = Direct(slot) + Proxies BY <3>1 DEF MaxFor
    <3>4. Proxies' = Proxies /\ \A k : Direct(k)' = Direct(k) /\ (Has(k) => Has(k)')
      BY <1>1 DEF Proxies, Direct, Has
    <3>5. CASE over
      <4>1. attempt >= Direct(slot) + Proxies BY <3>2, <3>3, <3>5
      <4>2. Has(slot) /\ attempt = Direct(slot) + Proxies
        BY <2>4, <3>1, <4>1, SlotUsedUp
      <4>3. slot' = slot + 1 /\ attempt' = 1 BY <1>1, <3>5
      <4>4. \A k \in 0 .. slot' - 1 : Has(k)'
        <5> SUFFICES ASSUME NEW k \in 0 .. slot' - 1 PROVE Has(k)' OBVIOUS
        <5>1. k \in 0 .. slot - 1 \/ k = slot BY <3>2, <4>3
        <5> QED BY <2>4, <3>4, <4>2, <5>1 DEF Ladder
      <4>5. total' <= Position(slot, attempt)'
        <5>1. total <= Position(slot, attempt) BY <2>4 DEF Ladder
        <5>2. Position(slot, attempt)' = Position(slot + 1, 1)
          BY <1>1, <4>3 DEF Position
        <5>3. Position(slot + 1, 1) = Position(slot, attempt) + 1
          <6>1. Proxies = IF shown \in Proxied THEN 1 ELSE 0 BY <2>4 DEF Proxies, Ladder
          <6> QED BY <3>2, <4>2, <6>1 DEF Position, Direct
        <5>4. Position(slot, attempt) \in Int BY <3>2 DEF Position
        <5> QED BY <1>1, <3>2, <5>1, <5>2, <5>3, <5>4
      <4>6. CASE s >= slots.n
        <5>1. job' = "asking" BY <2>1, <4>6 DEF JobSteps
        <5>2. slot' = slots'.n BY <1>1, <3>1, <3>2, <3>5, <4>6
        <5> QED BY <1>1, <2>4, <4>3, <4>4, <4>5, <5>1, <5>2 DEF Ladder
      <4>7. CASE ~(s >= slots.n)
        <5>1. job' = "delay" /\ GiveUrl(Url(s, a)) BY <4>7, <3>5 DEF JobSteps
        <5>2. slot' < slots'.n /\ slot' # slots'.n /\ slot' <= slots'.n
          BY <1>1, <3>2, <3>5, <4>7
        <5>3. Direct(slot') = 1 BY <3>2, <4>3 DEF Direct
        <5>4. Direct(slot)' = 1 BY <3>2, <4>3 DEF Direct
        <5>5. Url(s, a) = Url(slot, attempt)'
          BY <1>1, <3>4 DEF Url, OnProxy, Proxies, Direct
        <5>6. (playing' = "idle" /\ job' = "delay") \/ Url(slot, attempt)' \in tried'
          BY <5>1, <5>5 DEF GiveUrl
        <5>7. attempt' <= Direct(slot)' + Proxies' /\ ~(attempt' > Direct(slot)')
          BY <3>2, <3>4, <4>3, <5>4
        <5> QED BY <1>1, <2>4, <4>4, <4>5, <5>1, <5>2, <5>6, <5>7 DEF Ladder
      <4> QED BY <4>6, <4>7
    <3>6. CASE ~over
      <4>1. /\ slot' = slot /\ attempt' = attempt + 1 /\ attempt + 1 <= Direct(slot) + Proxies
            /\ s = slot /\ a = attempt + 1
        BY <1>1, <3>2, <3>3, <3>6
      <4>2. job' = "delay" /\ (OnProxy(s, a) => GiveUrl(Url(s, a)))
        BY <3>1, <3>2, <4>1 DEF JobSteps
      <4>3. Url(s, a) = Url(slot, attempt)'
        BY <1>1, <3>4 DEF Url, OnProxy, Proxies, Direct
      <4>4. (playing' = "idle" /\ job' = "delay") \/ Url(slot, attempt)' \in tried'
        <5>1. CASE OnProxy(s, a) BY <4>2, <4>3, <5>1 DEF GiveUrl
        <5>2. CASE ~OnProxy(s, a)
          <6>1. Url(s, a) = <<slot, "direct">> BY <4>1, <5>2 DEF Url
          <6>2. ~OnProxy(slot, attempt)
            BY <3>2, <4>1, <5>2 DEF OnProxy
          <6>3. Url(slot, attempt) = <<slot, "direct">> BY <6>2 DEF Url
          <6> QED BY <1>1, <3>1, <4>3, <6>1, <6>3
        <5> QED BY <5>1, <5>2
      <4>5. attempt' > Direct(slot)' => <<slot', "direct">> \in tried'
        <5>1. CASE attempt > Direct(slot) BY <1>1, <2>4, <3>1, <4>1, <5>1 DEF Ladder
        <5>2. CASE ~(attempt > Direct(slot))
          <6>1. Url(slot, attempt) = <<slot, "direct">> BY <5>2 DEF Url, OnProxy
          <6> QED BY <1>1, <3>1, <4>1, <6>1
        <5> QED BY <5>1, <5>2
      <4>6. total' <= Position(slot, attempt)'
        <5>1. total <= Position(slot, attempt) BY <2>4 DEF Ladder
        <5>2. Position(slot, attempt)' = Position(slot, attempt + 1)
          BY <1>1, <4>1 DEF Position
        <5>3. Position(slot, attempt + 1) = Position(slot, attempt) + 1
          BY <3>2 DEF Position
        <5>4. Position(slot, attempt) \in Int BY <3>2 DEF Position
        <5> QED BY <1>1, <3>2, <5>1, <5>2, <5>3, <5>4
      <4>7. Direct(slot)' = Direct(slot) BY <4>1 DEF Direct
      <4>8. \A k \in 0 .. slot' - 1 : Has(k)' BY <2>4, <3>4, <4>1 DEF Ladder
      <4>9. attempt' <= Direct(slot)' + Proxies' BY <3>4, <4>1, <4>7
      <4> QED BY <1>1, <2>4, <3>1, <3>2, <4>1, <4>2, <4>4, <4>5, <4>6, <4>8, <4>9 DEF Ladder
    <3> QED BY <3>5, <3>6
  <2> QED BY <1>1, <1>2, <1>4, <2>1, <2>2, <2>3, <2>4 DEF Undisturbed
<1> QED BY <1>3, <1>4

LEMMA AnswersKeep ==
  ASSUME Watching,
         Answered \/ NotAnswered \/ JobPrepares \/ LateNull \/ \E v \in probes : ProbeAnswers(v),
         ~upset'
  PROVE  Undisturbed'
<1> USE DEF Watching
<1>1. CASE Answered
  <2>1. /\ job = "asking" /\ slot < Offered[resolver]
        /\ slots' = [slots EXCEPT !.n = @ + 1]
        /\ UNCHANGED <<shown, prepares, resolver, slot, attempt, total, leftovers, probes>>
        /\ job' \in {"none", "delay"} /\ tried \subseteq tried'
    BY <1>1 DEF Answered, screenVars, GiveUrl
  <2>2. leftovers = {} /\ prepares # "asking" BY <2>1 DEF Undisturbed
  <2>3. slots'.of = slots.of /\ slots'.n = slots.n + 1 /\ slots.n \in Nat
    BY <2>1 DEF PlayerShape
  <2>4. Foreign' = Foreign BY <2>1 DEF Foreign
  <2>5. CASE Foreign
    <3>1. ~(slot > slots.n) BY <1>1, <2>5 DEF Answered, Spoil
    <3>2. dead' = "no" BY <1>1, <3>1 DEF Answered
    <3> QED BY <2>1, <2>2, <2>4, <2>5, <3>2 DEF Undisturbed
  <2>6. CASE ~Foreign
    <3>1. resolver = shown BY <2>6 DEF Foreign
    <3>2. ASSUME AllTried PROVE AllTried' BY <2>1, <3>2 DEF AllTried, Urls
    <3>3. ASSUME Ladder PROVE Ladder' /\ dead' = "no"
      <4>1. slot = slots.n /\ attempt = 1 /\ slots.n >= 1
        BY <2>1, <3>3 DEF Ladder, PlayerShape
      <4>2. /\ dead' = "no" /\ job' = "delay" /\ GiveUrl(<<slot, "direct">>)
        BY <1>1, <2>3, <4>1 DEF Answered
      <4>3. slots'.n \in 1 .. Offered[shown] /\ slot' < slots'.n /\ slot' # slots'.n
        BY <2>1, <2>3, <3>1, <4>1, PlayerAssumption
      <4>4. Proxies' = Proxies /\ Proxies \in {0, 1} BY <2>3 DEF Proxies
      <4>5. Direct(slot)' = 1 BY <2>1, <4>1 DEF Direct
      <4>6. Url(slot, attempt)' = <<slot, "direct">>
        BY <2>1, <4>1, <4>5 DEF Url, OnProxy, Direct
      <4>7. (playing' = "idle" /\ job' = "delay") \/ Url(slot, attempt)' \in tried'
        BY <4>2, <4>6 DEF GiveUrl
      <4>8. \A k \in 0 .. slot' - 1 : Has(k)' BY <2>1, <3>3 DEF Ladder, Has
      <4>9. total' <= Position(slot, attempt)'
        BY <2>1, <3>3 DEF Ladder, Position
      <4>10. attempt' <= Direct(slot)' + Proxies' /\ ~(attempt' > Direct(slot)')
        BY <2>1, <4>1, <4>4, <4>5
      <4>11. slot' <= slots'.n /\ slots'.of = shown' /\ Offered' = Offered
        BY <2>1, <2>3, <3>3, <4>1 DEF Ladder, PlayerShape
      <4>12. slots'.n \in 1 .. Offered[shown'] /\ job' # "asking" BY <2>1, <4>2, <4>3
      <4> QED BY <4>2, <4>3, <4>7, <4>8, <4>9, <4>10, <4>11, <4>12 DEF Ladder
    <3> QED BY <2>1, <2>2, <2>4, <2>6, <3>2, <3>3 DEF Undisturbed
  <2> QED BY <2>5, <2>6
<1>2. CASE NotAnswered
  <2>1. /\ job = "asking" /\ UNCHANGED <<shown, prepares, slots, resolver, leftovers, probes, tried>>
        /\ ~Foreign /\ ~(slot < Offered[resolver]) /\ job' = "none"
    BY <1>2 DEF NotAnswered, Spoil, screenVars, ladderVars
  <2>2. AllTried
    <3>1. ASSUME Ladder PROVE slot = slots.n /\ slots.n = Offered[shown]
      BY <2>1, <3>1, PlayerAssumption DEF Ladder, PlayerShape, Foreign
    <3> QED BY <2>1, <3>1, TopOfLadder DEF Undisturbed
  <2>3. AllTried' BY <2>1, <2>2, SameTried
  <2> QED BY <2>1, <2>3 DEF Undisturbed, Foreign
<1>3. CASE JobPrepares
  <2>1. /\ job = "delay" /\ job' = "none" /\ tried \subseteq tried' /\ playing' # "idle"
        /\ UNCHANGED <<shown, prepares, slots, resolver, slot, attempt, total, leftovers, probes, dead>>
    BY <1>3 DEF JobPrepares, screenVars, ladderVars
  <2>2. Foreign' = Foreign BY <2>1 DEF Foreign
  <2>3. AllTried => AllTried' BY <2>1 DEF AllTried, Urls
  <2>4. ASSUME Ladder PROVE Ladder'
    <3>1. slot < slots.n BY <2>1, <2>4 DEF Ladder, PlayerShape
    <3>2. /\ Url(slot, attempt)' = Url(slot, attempt) /\ Proxies' = Proxies
          /\ Direct(slot)' = Direct(slot) /\ Position(slot, attempt)' = Position(slot, attempt)
      BY <2>1 DEF Url, OnProxy, Proxies, Direct, Position
    <3>3. Url(slot, attempt) \in tried'
      BY <1>3, <2>1, <2>4, <3>1 DEF JobPrepares, Ladder
    <3>4. \A k : Has(k) => Has(k)' BY <2>1 DEF Has
    <3> QED BY <2>1, <2>4, <3>1, <3>2, <3>3, <3>4 DEF Ladder, PlayerShape
  <2> QED BY <2>1, <2>2, <2>3, <2>4 DEF Undisturbed
<1>4. CASE LateNull BY <1>4 DEF LateNull
<1>5. ASSUME NEW v \in probes, ProbeAnswers(v) PROVE Undisturbed'
  <2>1. /\ ~Foreign /\ dead' = v /\ probes' \subseteq probes
        /\ UNCHANGED <<shown, slots, resolver, slot, attempt, total, tried, job, playing, prepares,
                       leftovers, recovering>>
    BY <1>5 DEF ProbeAnswers, Spoil, screenVars, ladderVars
  <2>2. Ladder => Ladder' BY <2>1, SameLadder
  <2>3. AllTried' <=> AllTried BY <2>1, SameTried
  <2> QED BY <1>5, <2>1, <2>2, <2>3 DEF Undisturbed, Foreign
<1> QED BY <1>1, <1>2, <1>3, <1>4, <1>5

-----------------------------------------------------------------------------
(* The invariant.                                                          *)

LEMMA PlayerInitially == PlayerInit => PlayerInv
<1> SUFFICES ASSUME PlayerInit PROVE PlayerInv OBVIOUS
<1>1. slots \in [of : Channel \cup {NoChannel}, n : Nat] BY DEF PlayerInit
<1>2. PlayerShape BY <1>1 DEF PlayerInit, PlayerShape
<1>3. Blank BY DEF PlayerInit, Blank
<1>4. shown = NoChannel BY DEF PlayerInit
<1> QED BY <1>2, <1>3, <1>4 DEF PlayerInv

LEMMA PlayerStep == PlayerInv /\ [PlayerNext]_playerVars => PlayerInv'
<1> SUFFICES ASSUME PlayerInv, [PlayerNext]_playerVars PROVE PlayerInv' OBVIOUS
<1> USE DEF PlayerInv
<1>1. CASE UNCHANGED playerVars
  BY <1>1 DEF playerVars, screenVars, ladderVars, PlayerShape, Blank, Undisturbed, Foreign,
    Ladder, AllTried, Urls, Has, Position, Url, OnProxy, Direct, Proxies
<1>2. CASE PlayerNext
  <2>1. PlayerShape' BY <1>2, ScreenShape, EventShape, JobShape DEF PlayerNext
  <2>2. shown' = NoChannel => Blank' BY <1>2, BlankStep
  <2>3. ASSUME shown' # NoChannel, ~upset' PROVE Undisturbed'
    <3>1. CASE Show BY <2>3, <3>1, ShowStarts
    <3>2. CASE ~Show
      <4>1. shown' = shown /\ ~upset
        BY <1>2, <2>3, <3>2 DEF PlayerNext, Press, ShowFails, PrepareBegins, PrepareEnds,
          PrepareFails, LateFailure, Ready, Stalls, Unresponsive, ParseError, NetworkError,
          OtherError, Breaks, JobSteps, Answered, NotAnswered, JobPrepares, LateNull,
          ProbeAnswers, Spoil, screenVars, PlayerShape
      <4>2. Watching BY <2>3, <4>1 DEF Watching, PlayerShape
      <4> QED BY <1>2, <2>3, <3>2, <4>2, ScreenKeeps, EventKeeps, JobStepsKeeps, AnswersKeep
          DEF PlayerNext
    <3> QED BY <3>1, <3>2
  <2> QED BY <2>1, <2>2, <2>3
<1> QED BY <1>1, <1>2


(* ErrorRecoveryManager says "exhausted" of the shown channel only when    *)
(* the player was given every URL the server offers for it, however many   *)
(* slots and attempts there are and wherever players' errors, stalls and   *)
(* answers come in between; hits from outside the channel are excepted.    *)
THEOREM ExhaustedMeansTried == PlayerSpec => []DeadAfterAllTried
<1>1. PlayerInv => DeadAfterAllTried
  BY DEF PlayerInv, Blank, Undisturbed, AllTried, DeadAfterAllTried
<1> QED BY <1>1, PlayerInitially, PlayerStep, PTL DEF PlayerSpec
=============================================================================
