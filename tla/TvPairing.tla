----------------------------- MODULE TvPairing -----------------------------
(***************************************************************************)
(* routes/tv.js and models/PairingRequest.ts: a television asks for a PIN, *)
(* its owner enters the PIN on the web dashboard, and the television, who  *)
(* asks again and again, is given the owner's channel list.                *)
(*                                                                         *)
(* Each television asks for one PIN.  The owner is authenticated; what is  *)
(* kept of the session is who it is.                                       *)
(***************************************************************************)
EXTENDS Integers, FiniteSets

CONSTANTS
  Tv,      \* requests for a PIN, each with its television
  Pin,
  Owner,   \* users of the dashboard
  NoTv, NoOwner, NoPin

ASSUME PairingAssumption == NoTv \notin Tv /\ NoOwner \notin Owner /\ NoPin \notin Pin

VARIABLES
  pin,      \* the PIN drawn for each television
  request,  \* PairingRequest.status of each; "none" before, "gone" after the row
  overdue,     \* those whose expiresAt has passed
  linked,   \* PairingRequest.userId of each
  asks,     \* what each television's call is doing
  seen,     \* the row that call has read
  confirms, \* what each user's call is doing
  found,    \* the row that call has read
  shows,    \* the user whose channel list each television was given
  told,     \* history: who was told that a television is paired, with it
  blurred   \* history: the televisions hit by an event PairingAgrees excepts

pairingVars ==
  <<pin, request, overdue, linked, asks, seen, confirms, found, shows, told, blurred>>

PairingTypeOK ==
  /\ pin \in [Tv -> Pin \cup {NoPin}]
  /\ request \in [Tv -> {"none", "pending", "completed", "expired", "gone"}]
  /\ overdue \subseteq Tv
  /\ linked \in [Tv -> Owner \cup {NoOwner}]
  /\ asks \in [Tv -> {"new", "drawn", "idle", "marking", "over"}]
  /\ seen \in [Tv -> Tv \cup {NoTv}]
  /\ confirms \in [Owner -> {"idle", "found", "marking", "linked"}]
  /\ found \in [Owner -> Tv \cup {NoTv}]
  /\ shows \in [Tv -> Owner \cup {NoOwner}]
  /\ told \subseteq Owner \X Tv
  /\ blurred \subseteq Tv

PairingInit ==
  /\ pin = [t \in Tv |-> NoPin]
  /\ request = [t \in Tv |-> "none"]
  /\ overdue = {}
  /\ linked = [t \in Tv |-> NoOwner]
  /\ asks = [t \in Tv |-> "new"]
  /\ seen = [t \in Tv |-> NoTv]
  /\ confirms = [u \in Owner |-> "idle"]
  /\ found = [u \in Owner |-> NoTv]
  /\ shows = [t \in Tv |-> NoOwner]
  /\ told = {} /\ blurred = {}

Stored(t) == request[t] \notin {"none", "gone"}

(* The users whose calls have read that t waits, and have not written yet. *)
Confirming(t) == {u \in Owner : confirms[u] = "found" /\ found[u] = t}

-----------------------------------------------------------------------------
(* POST /pairing/request.                                                  *)

(* generatePin passes over the PINs of requests that wait, not over those  *)
(* of rows that are kept for an hour more.                                 *)
DrawPin(t, p) ==
  /\ asks[t] = "new" /\ asks' = [asks EXCEPT ![t] = "drawn"]
  /\ ~\E o \in Tv : pin[o] = p /\ request[o] = "pending" /\ o \notin overdue
  /\ pin' = [pin EXCEPT ![t] = p]
  /\ UNCHANGED <<request, overdue, linked, seen, confirms, found, shows, told, blurred>>

(* A unique index refuses a second pending row with the PIN.  A PIN stands *)
(* for two televisions if the earlier one's row is kept, or it still asks. *)
SaveRequest(t) ==
  LET same == {o \in Tv \ {t} :
        pin[o] = pin[t] /\ (Stored(o) \/ asks[o] \in {"idle", "marking"})}
  IN /\ asks[t] = "drawn"
     /\ IF \E o \in same : request[o] = "pending"
        THEN /\ asks' = [asks EXCEPT ![t] = "over"]
             /\ UNCHANGED <<request, blurred>>
        ELSE /\ asks' = [asks EXCEPT ![t] = "idle"]
             /\ request' = [request EXCEPT ![t] = "pending"]
             /\ blurred' = IF same = {} THEN blurred ELSE blurred \cup same \cup {t}
     /\ UNCHANGED <<pin, overdue, linked, seen, confirms, found, shows, told>>

-----------------------------------------------------------------------------
(* GET /pairing/status/:pin, which reads any row with the PIN.             *)

(* markExpired may be about to overtake a user who found the row in time.  *)
Overtakes(o) == Confirming(o) # {}

AskStatus(t, o) ==
  /\ asks[t] = "idle"
  /\ Stored(o) /\ pin[o] = pin[t]
  /\ IF o \in overdue /\ request[o] = "pending"
     THEN /\ asks' = [asks EXCEPT ![t] = "marking"] /\ seen' = [seen EXCEPT ![t] = o]
          /\ blurred' = IF Overtakes(o) THEN blurred \cup {o} ELSE blurred
          /\ UNCHANGED shows
     ELSE /\ request[o] = "completed"
          /\ asks' = [asks EXCEPT ![t] = "over"]
          /\ shows' = [shows EXCEPT ![t] = linked[o]]
          /\ UNCHANGED <<seen, blurred>>
  /\ UNCHANGED <<pin, request, overdue, linked, confirms, found, told>>

(* markExpired, whatever the row has become; a row that is gone throws.    *)
Expired(o) == [request EXCEPT ![o] = IF @ = "gone" THEN @ ELSE "expired"]

TvMarksExpired(t) ==
  /\ asks[t] = "marking"
  /\ asks' = [asks EXCEPT ![t] = "over"]
  /\ request' = Expired(seen[t])
  /\ seen' = [seen EXCEPT ![t] = NoTv]
  /\ UNCHANGED <<pin, overdue, linked, confirms, found, shows, told, blurred>>

-----------------------------------------------------------------------------
(* POST /pairing/confirm.                                                  *)

(* Mutant: a request that has been completed may be confirmed again.       *)
AwaitsAnyone(o) == request[o] \in {"pending", "completed"}

Awaits(o) == request[o] = "pending"

FindRequest(u, o) ==
  /\ confirms[u] = "idle"
  /\ Awaits(o)
  /\ found' = [found EXCEPT ![u] = o]
  /\ confirms' = [confirms EXCEPT ![u] = IF o \in overdue THEN "marking" ELSE "found"]
  /\ blurred' = IF Confirming(o) # {} THEN blurred \cup {o} ELSE blurred
  /\ UNCHANGED <<pin, request, overdue, linked, asks, seen, shows, told>>

OwnerMarksExpired(u) ==
  /\ confirms[u] = "marking"
  /\ confirms' = [confirms EXCEPT ![u] = "idle"]
  /\ request' = Expired(found[u])
  /\ found' = [found EXCEPT ![u] = NoTv]
  /\ UNCHANGED <<pin, overdue, linked, asks, seen, shows, told, blurred>>

(* The user is linked by a write of its own, unconditional.                *)
LinkOwner(u) ==
  LET o == found[u]
  IN /\ confirms[u] = "found"
     /\ IF request[o] = "gone"
        THEN /\ confirms' = [confirms EXCEPT ![u] = "idle"]
             /\ found' = [found EXCEPT ![u] = NoTv]
             /\ UNCHANGED <<request, linked>>
        ELSE /\ confirms' = [confirms EXCEPT ![u] = "linked"]
             /\ request' = [request EXCEPT ![o] = "completed"]
             /\ linked' = [linked EXCEPT ![o] = u]
             /\ UNCHANGED found
     /\ UNCHANGED <<pin, overdue, asks, seen, shows, told, blurred>>

(* user.save() may fail: the television is paired and its owner told not.  *)
AnswerOwner(u) ==
  /\ confirms[u] = "linked"
  /\ confirms' = [confirms EXCEPT ![u] = "idle"]
  /\ found' = [found EXCEPT ![u] = NoTv]
  /\ told' \in {told, told \cup {<<u, found[u]>>}}
  /\ UNCHANGED <<pin, request, overdue, linked, asks, seen, shows, blurred>>

-----------------------------------------------------------------------------
(* Time.                                                                   *)

PinExpires(t) ==
  /\ Stored(t) /\ t \notin overdue
  /\ overdue' = overdue \cup {t}
  /\ UNCHANGED <<pin, request, linked, asks, seen, confirms, found, shows, told, blurred>>

(* The index deletes rows an hour after expiresAt.                         *)
RowExpires(t) ==
  /\ Stored(t) /\ t \in overdue
  /\ request' = [request EXCEPT ![t] = "gone"]
  /\ UNCHANGED <<pin, overdue, linked, asks, seen, confirms, found, shows, told, blurred>>

PairingNext ==
  \/ \E t \in Tv, p \in Pin : DrawPin(t, p)
  \/ \E t, o \in Tv : AskStatus(t, o)
  \/ \E u \in Owner, o \in Tv : FindRequest(u, o)
  \/ \E t \in Tv : SaveRequest(t) \/ TvMarksExpired(t) \/ PinExpires(t) \/ RowExpires(t)
  \/ \E u \in Owner : OwnerMarksExpired(u) \/ LinkOwner(u) \/ AnswerOwner(u)

PairingSpec == PairingInit /\ [][PairingNext]_pairingVars

-----------------------------------------------------------------------------
(* Properties.                                                             *)

(* The television, the row and the user agree: who was told that a         *)
(* television is paired is the one its row names, as long as there is one, *)
(* and nobody else's channels are shown by it.  Excepted are televisions   *)
(* whose PIN another one has too, whose PIN two users entered at once, or *)
(* whose PIN expired while a user was confirming it.                       *)
PairingAgrees ==
  \A t \in Tv \ blurred :
    /\ \A u \in Owner : <<u, t>> \in told =>
         /\ linked[t] = u
         /\ request[t] \in {"completed", "gone"}
    /\ shows[t] # NoOwner => shows[t] = linked[t]
=============================================================================
