--------------------------- MODULE SourceWatchdog ---------------------------
(***************************************************************************)
(* runSourceWatchdog (services/source-failover-service.ts) for one Xtream  *)
(* source with direct playback, which it probes whatever the source's      *)
(* status, and the other writers of its verificationStatus:                *)
(* verifyXtreamSource (services/xtream-service.ts) and an admin who        *)
(* changes the credentials (routes/admin-xtream-sources.js).               *)
(*                                                                         *)
(* The verdict is in the database; how many probes in a row succeeded is   *)
(* in the memory of each process.  The scheduler and an admin may run the  *)
(* watchdog at the same time.  What a probe finds is left open.            *)
(***************************************************************************)
EXTENDS Integers

CONSTANTS
  Host,           \* processes
  Watch,          \* calls of the watchdog that may be at work
  HostOf,         \* the process of each
  WatchdogHazards \* the events of WatchdogHazard that may happen

WatchdogHazard == {
  "overlap",   \* two runs of the watchdog overlap: the scheduler's and an admin's
  "elsewhere", \* a run follows one in a process that still remembers its streak
  "overrule"}  \* a verification marks a source down that the watchdog counts probes of

ASSUME HostOfAssumption == HostOf \in [Watch -> Host]
ASSUME WatchdogHazardsAssumption == WatchdogHazards \subseteq WatchdogHazard

VARIABLES
  verdict,             \* XtreamSource.verificationStatus
  consecutiveVerified, \* the streak in each process; 2 stands for 2 and more
  check,               \* what each call of the watchdog is doing
  prev,                \* the verdict it read
  next,                \* the verdict it is about to write, or "none"
  verifying,           \* the verdict read by the verification at work, or "none"
  passed               \* history: probes passed since one failed or the source was marked down

watchdogVars == <<verdict, consecutiveVerified, check, prev, next, verifying, passed>>

Down == {"degraded", "blocked"}
Verdict == {"pending", "unknown", "verified"} \cup Down

WatchdogTypeOK ==
  /\ verdict \in Verdict
  /\ consecutiveVerified \in [Host -> 0 .. 2]
  /\ check \in [Watch -> {"idle", "probing", "writing"}]
  /\ prev \in [Watch -> Verdict] /\ next \in [Watch -> Verdict \cup {"none"}]
  /\ verifying \in Verdict \cup {"none"}
  /\ passed \in 0 .. 2

WatchdogInit ==
  /\ verdict = "pending"
  /\ consecutiveVerified = [h \in Host |-> 0]
  /\ check = [w \in Watch |-> "idle"]
  /\ prev = [w \in Watch |-> "pending"] /\ next = [w \in Watch |-> "none"]
  /\ verifying = "none"
  /\ passed = 0

(* Bound: a streak is only compared with 2.                                *)
OneMore(n) == IF n = 2 THEN 2 ELSE n + 1

(* mapDbStatusToHealth.                                                    *)
Health(v) == IF v = "pending" THEN "unknown" ELSE v

May(kind) == kind \in WatchdogHazards

-----------------------------------------------------------------------------
(* One source in one run of the watchdog.                                  *)

ReadSource(w) ==
  /\ check[w] = "idle"
  /\ May("overlap") \/ \A x \in Watch : check[x] = "idle"
  /\ May("elsewhere") \/ \A h \in Host \ {HostOf[w]} : consecutiveVerified[h] = 0
  /\ check' = [check EXCEPT ![w] = "probing"]
  /\ prev' = [prev EXCEPT ![w] = verdict]
  /\ UNCHANGED <<verdict, consecutiveVerified, next, verifying, passed>>

(* Mutant: a probe that fails does not end the streak.                     *)
StreakKept(h, was, found) ==
  IF found = "verified" THEN IF was = "verified" THEN 0 ELSE OneMore(consecutiveVerified[h])
  ELSE consecutiveVerified[h]

Streak(h, was, found) ==
  IF found = "verified" /\ was # "verified" THEN OneMore(consecutiveVerified[h]) ELSE 0

(* A source that is down stays so until its second probe in a row passes.  *)
(* A verdict that is what it was is not written, except over "pending" and *)
(* with the error of a probe that failed: the query does not select the    *)
(* lastError to compare it with.                                           *)
ProbeSource(w, found) ==
  LET h == HostOf[w]
      was == Health(prev[w])
      streak == Streak(h, was, found)
      left == IF found = "verified" /\ was # "verified" /\ streak < 2 THEN was ELSE found
  IN /\ check[w] = "probing"
     /\ check' = [check EXCEPT ![w] = "writing"]
     /\ consecutiveVerified' = [consecutiveVerified EXCEPT ![h] = streak]
     /\ next' = [next EXCEPT ![w] =
          IF left # was \/ found \in Down \/ prev[w] = "pending" THEN left ELSE "none"]
     /\ prev' = [prev EXCEPT ![w] = "pending"]
     /\ passed' = IF found = "verified" THEN OneMore(passed) ELSE 0
     /\ UNCHANGED <<verdict, verifying>>

WriteVerdict(w) ==
  /\ check[w] = "writing"
  /\ check' = [check EXCEPT ![w] = "idle"]
  /\ verdict' = IF next[w] = "none" THEN verdict ELSE next[w]
  /\ next' = [next EXCEPT ![w] = "none"]
  /\ UNCHANGED <<consecutiveVerified, prev, verifying, passed>>

(* A process is restarted.                                                 *)
Restart(h) ==
  /\ consecutiveVerified' = [consecutiveVerified EXCEPT ![h] = 0]
  /\ check' = [w \in Watch |-> IF HostOf[w] = h THEN "idle" ELSE check[w]]
  /\ prev' = [w \in Watch |-> IF HostOf[w] = h THEN "pending" ELSE prev[w]]
  /\ next' = [w \in Watch |-> IF HostOf[w] = h THEN "none" ELSE next[w]]
  /\ UNCHANGED <<verdict, verifying, passed>>

-----------------------------------------------------------------------------
(* The other writers.                                                      *)

VerifyStarts ==
  /\ verifying = "none"
  /\ verifying' = verdict
  /\ UNCHANGED <<verdict, consecutiveVerified, check, prev, next, passed>>

(* source.save() writes the verdict only if it differs from the one read.  *)
VerifyEnds(found) ==
  LET saved == IF found = verifying THEN verdict ELSE found
      marksDown == saved \in Down /\ saved # verdict
  IN /\ verifying # "none"
     /\ verifying' = "none"
     /\ verdict' = saved
     /\ marksDown =>
          \/ May("overrule")
          \/ (\A h \in Host : consecutiveVerified[h] = 0) /\ (\A w \in Watch : check[w] = "idle")
     /\ passed' = IF marksDown THEN 0 ELSE passed
     /\ UNCHANGED <<consecutiveVerified, check, prev, next>>

ChangeCredentials ==
  /\ verdict # "pending"
  /\ verdict' = "pending"
  /\ UNCHANGED <<consecutiveVerified, check, prev, next, verifying, passed>>

WatchdogNext ==
  \/ \E w \in Watch : ReadSource(w) \/ WriteVerdict(w)
  \/ \E w \in Watch, found \in {"verified"} \cup Down : ProbeSource(w, found)
  \/ \E h \in Host : Restart(h)
  \/ VerifyStarts \/ ChangeCredentials
  \/ \E found \in {"verified"} \cup Down : VerifyEnds(found)

WatchdogSpec == WatchdogInit /\ [][WatchdogNext]_watchdogVars

-----------------------------------------------------------------------------
(* Properties.                                                             *)

(* The watchdog lifts a source that is down only after two probes in a row *)
(* have passed since it was marked down, whichever of its runs made them.  *)
RecoversSlowly ==
  [][(verdict \in Down /\ verdict' = "verified" /\ verifying' = verifying) => passed = 2]_watchdogVars
=============================================================================
