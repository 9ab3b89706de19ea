---------------------------- MODULE ClientRedeem ----------------------------
(***************************************************************************)
(* POST /activation/client-redeem (routes/activation.js): an installed     *)
(* client brings a code and no account.  The handler creates a throwaway   *)
(* account, lets redeemCode work for it, and undoes what that left behind  *)
(* if it fails: compensateFailedClientRedeem.  Several clients, or one     *)
(* that retries, bring the same code.                                      *)
(*                                                                         *)
(* One code.  A client makes one request, and its account, if the request  *)
(* creates one, carries the client's name.  Activation tells the rest of   *)
(* the story of a code: admins, lapse and the daily recovery.              *)
(***************************************************************************)
EXTENDS Integers, FiniteSets

CONSTANTS
  Client,      \* requests to redeem the code
  NoAccount,
  RedeemHazards\* the events of RedeemHazard that may happen

RedeemHazard == {
  "throw",        \* a database call of redeemCode fails, with or without effect
  "undoFails",    \* a database call of the compensation fails
  "crash",        \* the process of a request dies
  "slow",         \* a request is still at work 15 minutes after its claim
  "replay",       \* the client retries before its first request is answered
  "lateWrite"}    \* a write of the code that was given up is applied after all

ASSUME NoAccountAssumption == NoAccount \notin Client
ASSUME RedeemHazardsAssumption == RedeemHazards \subseteq RedeemHazard

VARIABLES
  codeStatus,  \* ActivationCode.status
  activatedBy, \* ActivationCode.activatedBy
  users,       \* the throwaway accounts that exist
  subscribers, \* the accounts with a Subscription row
  withDevice,  \* the accounts with a Device row
  ledger,      \* the accounts named by ActivationRedemption rows
  letIn,       \* the accounts a session was created for
  phase,       \* where each request is
  into,        \* the account each request is for
  failed,      \* the requests whose compensation missed a step
  pending,     \* accounts whose write of ACTIVATED may still be applied
  strange      \* history: whether "replay" and "lateWrite" have happened

account == <<users, subscribers, withDevice, ledger, letIn>>
code == <<codeStatus, activatedBy>>
clientVars == <<code, account, phase, into, failed, pending, strange>>

Redeeming == {"claiming", "device", "subscribing", "activating", "booking", "restoring"}
Undoing == {"releasing", "verifying", "unsubscribing", "undevicing", "unbooking", "deleting"}

ClientTypeOK ==
  /\ codeStatus \in {"UNUSED", "ACTIVATING", "ACTIVATED"}
  /\ activatedBy \in Client \cup {NoAccount}
  /\ users \subseteq Client /\ subscribers \subseteq Client
  /\ withDevice \subseteq Client /\ ledger \subseteq Client /\ letIn \subseteq Client
  /\ phase \in [Client -> {"new", "replaying", "entering", "done"} \cup Redeeming \cup Undoing]
  /\ into \in [Client -> Client \cup {NoAccount}]
  /\ failed \subseteq Client /\ pending \subseteq Client
  /\ strange \subseteq RedeemHazard

ClientInit ==
  /\ codeStatus = "UNUSED" /\ activatedBy = NoAccount
  /\ users = {} /\ subscribers = {} /\ withDevice = {} /\ ledger = {} /\ letIn = {}
  /\ phase = [c \in Client |-> "new"]
  /\ into = [c \in Client |-> NoAccount]
  /\ failed = {} /\ pending = {} /\ strange = {}

-----------------------------------------------------------------------------
(* Helpers.                                                                *)

Go(c, to) == phase' = [phase EXCEPT ![c] = to]

Hazardous(kind) == kind \in RedeemHazards

(* redeemCode reports a failure, or rethrows.                              *)
Undo(c) == Go(c, "releasing")

(* recordRedemption: a row that cannot be written is logged and forgotten. *)
Book(c) ==
  \/ ledger' = ledger \cup {c}
  \/ Hazardous("throw") /\ UNCHANGED ledger

-----------------------------------------------------------------------------
(* The request looks the code up, and lets a returning client in.          *)

Replay(c) ==
  /\ phase[c] = "new"
  /\ codeStatus = "ACTIVATED"
  /\ into' = [into EXCEPT ![c] = activatedBy]
  /\ Go(c, IF activatedBy \in users THEN "replaying" ELSE "done")
  /\ IF phase[activatedBy] \in {"entering", "done"}
     THEN UNCHANGED strange
     ELSE Hazardous("replay") /\ strange' = strange \cup {"replay"}
  /\ UNCHANGED <<code, account, failed, pending>>

(* registerDevice for the account that activated the code; or it refuses.  *)
ReplayDevice(c) ==
  /\ phase[c] = "replaying"
  /\ \/ withDevice' = withDevice \cup {into[c]} /\ Go(c, "entering")
     \/ Go(c, "done") /\ UNCHANGED withDevice
  /\ UNCHANGED <<code, users, subscribers, ledger, letIn, into, failed, pending, strange>>

(* Session.create.                                                         *)
Enter(c) ==
  /\ phase[c] = "entering"
  /\ letIn' = letIn \cup {into[c]}
  /\ Go(c, "done")
  /\ UNCHANGED <<code, users, subscribers, withDevice, ledger, into, failed, pending, strange>>

-----------------------------------------------------------------------------
(* The request creates an account and redeems the code for it.             *)

(* The code was not ACTIVATED when it was looked up; it may be by now.     *)
CreateAccount(c) ==
  /\ phase[c] = "new"
  /\ users' = users \cup {c} /\ into' = [into EXCEPT ![c] = c]
  /\ Go(c, "claiming")
  /\ UNCHANGED <<code, subscribers, withDevice, ledger, letIn, failed, pending, strange>>

(* The atomic claim; a code that is taken costs a FAILURE entry.           *)
ClaimCode(c) ==
  /\ phase[c] = "claiming"
  /\ IF codeStatus = "UNUSED"
     THEN codeStatus' = "ACTIVATING" /\ Go(c, "device") /\ UNCHANGED ledger
     ELSE Book(c) /\ Undo(c) /\ UNCHANGED codeStatus
  /\ UNCHANGED <<activatedBy, users, subscribers, withDevice, letIn, into, failed, pending, strange>>

AddDevice(c) ==
  /\ phase[c] = "device"
  /\ withDevice' = withDevice \cup {c}
  /\ Go(c, "subscribing")
  /\ UNCHANGED <<code, users, subscribers, ledger, letIn, into, failed, pending, strange>>

(* The plan is unavailable or has no room: the claim is released.          *)
Refuse(c) ==
  /\ phase[c] = "device"
  /\ codeStatus' = "UNUSED" /\ Book(c)
  /\ Undo(c)
  /\ UNCHANGED <<activatedBy, users, subscribers, withDevice, letIn, into, failed, pending, strange>>

Subscribe(c) ==
  /\ phase[c] = "subscribing"
  /\ subscribers' = subscribers \cup {c}
  /\ Go(c, "activating")
  /\ UNCHANGED <<code, users, withDevice, ledger, letIn, into, failed, pending, strange>>

ActivateCode(c) ==
  /\ phase[c] = "activating"
  /\ codeStatus' = "ACTIVATED" /\ activatedBy' = c
  /\ Go(c, "booking")
  /\ UNCHANGED <<account, into, failed, pending, strange>>

(* The SUCCESS entry, and the client is let in.                            *)
BookRedemption(c) ==
  /\ phase[c] = "booking"
  /\ Book(c)
  /\ Go(c, "entering")
  /\ UNCHANGED <<code, users, subscribers, withDevice, letIn, into, failed, pending, strange>>

(* The claim fails, before the try block, and may have been applied.       *)
ClaimThrows(c) ==
  /\ phase[c] = "claiming" /\ Hazardous("throw")
  /\ \/ UNCHANGED codeStatus
     \/ codeStatus = "UNUSED" /\ codeStatus' = "ACTIVATING"
  /\ Undo(c)
  /\ UNCHANGED <<activatedBy, account, into, failed, pending, strange>>

(* A call inside the try block fails.  The write of ACTIVATED may have     *)
(* been sent, and be applied by a slow database later; the SUCCESS entry   *)
(* may have been written.                                                  *)
RedeemThrows(c) ==
  /\ phase[c] \in {"device", "subscribing", "activating", "booking"} /\ Hazardous("throw")
  /\ Go(c, "restoring")
  /\ \/ UNCHANGED pending
     \/ /\ phase[c] = "activating" /\ Hazardous("lateWrite")
        /\ pending' = pending \cup {c}
  /\ \/ UNCHANGED ledger
     \/ phase[c] = "booking" /\ ledger' = ledger \cup {c}
  /\ UNCHANGED <<code, users, subscribers, withDevice, letIn, into, failed, strange>>

(* The catch block writes ACTIVATING, whatever the code is by now (see     *)
(* CatchRestore in Activation), so an activation is a claim again, which   *)
(* still names its account.  A write that fails is swallowed.              *)
CatchRestore(c) ==
  /\ phase[c] = "restoring"
  /\ codeStatus' \in {"ACTIVATING", codeStatus}
  /\ Undo(c)
  /\ UNCHANGED <<activatedBy, account, into, failed, pending, strange>>

LateWrite(c) ==
  /\ c \in pending /\ pending' = pending \ {c}
  /\ codeStatus' = "ACTIVATED" /\ activatedBy' = c
  /\ strange' = strange \cup {"lateWrite"}
  /\ UNCHANGED <<account, phase, into, failed>>

-----------------------------------------------------------------------------
(* compensateFailedClientRedeem.                                           *)

(* Mutant: the release looks for a claim instead of an activation.         *)
MineClaimed(c) == codeStatus = "ACTIVATING" /\ activatedBy = c

(* The filter of the release and of the read-back.                         *)
Mine(c) == codeStatus = "ACTIVATED" /\ activatedBy = c

ReleaseCode(c) ==
  /\ phase[c] = "releasing"
  /\ IF Mine(c)
     THEN codeStatus' = "UNUSED" /\ activatedBy' = NoAccount
     ELSE UNCHANGED code
  /\ Go(c, "verifying")
  /\ UNCHANGED <<account, into, failed, pending, strange>>

(* Mutant: an account is deleted although its code was not released.       *)
VerifyNothing(c) ==
  /\ phase[c] = "verifying"
  /\ Go(c, "unsubscribing")
  /\ UNCHANGED <<code, account, into, failed, pending, strange>>

(* An account that still holds the code is kept, with its rows.            *)
Verify(c) ==
  /\ phase[c] = "verifying"
  /\ Go(c, IF Mine(c) THEN "done" ELSE "unsubscribing")
  /\ UNCHANGED <<code, account, into, failed, pending, strange>>

RemoveSubscription(c) ==
  /\ phase[c] = "unsubscribing"
  /\ subscribers' = subscribers \ {c}
  /\ Go(c, "undevicing")
  /\ UNCHANGED <<code, users, withDevice, ledger, letIn, into, failed, pending, strange>>

RemoveDevice(c) ==
  /\ phase[c] = "undevicing"
  /\ withDevice' = withDevice \ {c}
  /\ Go(c, "unbooking")
  /\ UNCHANGED <<code, users, subscribers, ledger, letIn, into, failed, pending, strange>>

RemoveLedger(c) ==
  /\ phase[c] = "unbooking"
  /\ ledger' = ledger \ {c}
  /\ Go(c, "deleting")
  /\ UNCHANGED <<code, users, subscribers, withDevice, letIn, into, failed, pending, strange>>

(* Mutant: the account goes whatever failed before.                        *)
MayDeleteAlways(c) == TRUE

MayDelete(c) == c \notin failed

(* The account goes last, and only if every step succeeded.                *)
DeleteAccount(c) ==
  /\ phase[c] = "deleting"
  /\ users' = IF MayDelete(c) THEN users \ {c} ELSE users
  /\ Go(c, "done")
  /\ UNCHANGED <<code, subscribers, withDevice, ledger, letIn, into, failed, pending, strange>>

After(place) ==
  CASE place = "releasing" -> "verifying"
    [] place = "verifying" -> "done"
    [] place = "unsubscribing" -> "undevicing"
    [] place = "undevicing" -> "unbooking"
    [] place = "unbooking" -> "deleting"
    [] place = "deleting" -> "done"

(* A step fails, is remembered, and the next one is tried.                 *)
UndoFails(c) ==
  /\ phase[c] \in Undoing /\ Hazardous("undoFails")
  /\ failed' = failed \cup {c}
  /\ Go(c, After(phase[c]))
  /\ UNCHANGED <<code, account, into, pending, strange>>

-----------------------------------------------------------------------------

ProcessDies(c) ==
  /\ phase[c] \notin {"new", "done"} /\ Hazardous("crash")
  /\ Go(c, "done")
  /\ UNCHANGED <<code, account, into, failed, pending, strange>>

(* The daily task recovers a claim of more than 15 minutes (Activation).   *)
RecoverClaim ==
  /\ codeStatus = "ACTIVATING"
  /\ \/ Hazardous("slow")
     \/ \A c \in Client : phase[c] \notin Redeeming \ {"claiming"}
  /\ codeStatus' = "UNUSED"
  /\ UNCHANGED <<activatedBy, account, phase, into, failed, pending, strange>>

ClientNext ==
  \/ \E c \in Client :
       \/ Replay(c) \/ ReplayDevice(c) \/ Enter(c) \/ CreateAccount(c) \/ ClaimCode(c)
       \/ AddDevice(c) \/ Refuse(c) \/ Subscribe(c) \/ ActivateCode(c) \/ BookRedemption(c)
       \/ ClaimThrows(c) \/ RedeemThrows(c) \/ CatchRestore(c) \/ LateWrite(c)
       \/ ReleaseCode(c) \/ Verify(c) \/ RemoveSubscription(c) \/ RemoveDevice(c)
       \/ RemoveLedger(c) \/ DeleteAccount(c) \/ UndoFails(c) \/ ProcessDies(c)
  \/ RecoverClaim

ClientSpec == ClientInit /\ [][ClientNext]_clientVars

-----------------------------------------------------------------------------
(* Properties.                                                             *)

(* No code is ever activated by an account that is gone, which would burn  *)
(* it: whatever calls of the redemption and of its compensation fail, and  *)
(* whoever claims the code meanwhile.  After a failure past the activation *)
(* the catch block makes the code a claim again, the release finds no      *)
(* activation, and the account goes although the code still names it: the  *)
(* next redemption of the code overwrites the name before it is read.      *)
NoDanglingCode ==
  "lateWrite" \notin strange /\ codeStatus = "ACTIVATED" => activatedBy \in users

(* An account that holds the activated code has the subscription that was  *)
(* paid for: a compensation that is not finished, or that failed, keeps    *)
(* both or takes both back.  The subscription goes although the code names *)
(* the account, but only once the code is not ACTIVATED: by the release,   *)
(* or because the catch block had made it a claim again.                   *)
HolderIsSubscribed ==
  "lateWrite" \notin strange /\ codeStatus = "ACTIVATED" => activatedBy \in subscribers

(* A deleted account leaves no subscription and no ledger entry behind;    *)
(* and no device, and no client that was let in with it, unless a retry    *)
(* came in before the answer.                                              *)
NothingLeftBehind ==
  /\ subscribers \cup ledger \subseteq users
  /\ "replay" \notin strange => withDevice \cup letIn \subseteq users

-----------------------------------------------------------------------------
(* The inductive invariant.                                                *)

(* A request that redeems has its account, and a subscription once it is   *)
(* written; one that lets a client in knows the account.                   *)
RedeemerExists ==
  \A c \in Client :
    /\ phase[c] \in Redeeming => c \in users /\ into[c] = c
    /\ phase[c] \in {"replaying", "entering"} => into[c] \in Client
    /\ phase[c] \in {"activating", "booking"} => c \in subscribers

(* Unless a write came late, the account that activated the code has its   *)
(* rows, and its request does not remove them.                             *)
HolderStands ==
  codeStatus = "ACTIVATED" =>
    /\ activatedBy \in Client
    /\ "lateWrite" \notin strange =>
         /\ activatedBy \in users \cap subscribers
         /\ phase[activatedBy] \in
              {"booking", "restoring", "entering", "done", "releasing", "verifying"}

(* What the compensation has done so far, if no step of it failed.         *)
UndoneSoFar ==
  \A c \in Client : c \notin failed =>
    /\ phase[c] \in {"undevicing", "unbooking", "deleting"} => c \notin subscribers
    /\ phase[c] \in {"unbooking", "deleting"} /\ "replay" \notin strange =>
         c \notin withDevice
    /\ phase[c] = "deleting" => c \notin ledger

(* A device or a session comes to an account that stays, unless a retry    *)
(* came too early.                                                         *)
AccountStays(c) == c \in users /\ phase[c] \in {"entering", "done"}

ReplayFindsAccount ==
  "replay" \notin strange =>
    /\ \A c \in Client : phase[c] \in {"replaying", "entering"} => AccountStays(into[c])
    /\ \A c \in letIn : AccountStays(c)

ClientInv ==
  /\ ClientTypeOK /\ RedeemerExists /\ HolderStands /\ UndoneSoFar /\ ReplayFindsAccount
  /\ NothingLeftBehind
=============================================================================
