----------------------------- MODULE Recording -----------------------------
(***************************************************************************)
(* services/recording-service.ts: an admin records a channel.  ffmpeg      *)
(* captures it into a .ts file, and the handler of its close event remuxes *)
(* that into an .mp4 file and saves the outcome in the Recording row.  The *)
(* rows are in the database, the captures in the memory of one process,    *)
(* the files on its disk.                                                  *)
(*                                                                         *)
(* A call to start has a name of its own, which is also the slug of what   *)
(* it records.  A .ts file without data counts as absent, and files that   *)
(* exist can be unlinked.                                                  *)
(***************************************************************************)
EXTENDS Integers, FiniteSets

CONSTANTS
  Take,            \* calls to start a recording
  Feed,            \* the channels
  NoFeed,
  MaxConcurrent,   \* MAX_CONCURRENT
  RecordingHazards \* the events of RecordingHazard that may happen

RecordingHazard == {
  "crash",   \* the process dies, or cannot save the end of a recording
  "cutOff"}  \* a recording is deleted before its end is saved

ASSUME FeedAssumption == NoFeed \notin Feed
ASSUME MaxConcurrentAssumption == MaxConcurrent \in Nat \ {0}
ASSUME RecordingHazardsAssumption == RecordingHazards \subseteq RecordingHazard

VARIABLES
  feed,       \* the channel each call names
  row,        \* Recording.status; "none" without a row
  activeJobs, \* the Map of captures
  stage,      \* where each recording is, from its start to the end of its handler
  files,      \* the files of each recording
  deletion,   \* where the deletion of each recording is
  marred      \* history: what an event of RecordingHazard has hit

recordingVars == <<feed, row, activeJobs, stage, files, deletion, marred>>

Starting == {"checked", "looked", "made"}
Capturing == {"running", "writing"}
Closing == {"closing", "remuxing", "remuxed", "muxed", "failed"}

RecordingTypeOK ==
  /\ feed \in [Take -> Feed \cup {NoFeed}]
  /\ row \in [Take -> {"none", "recording", "ready", "failed"}]
  /\ activeJobs \subseteq Take
  /\ stage \in [Take -> {"new", "stuck", "over"} \cup Starting \cup Capturing \cup Closing]
  /\ files \in [Take -> SUBSET {"ts", "mp4"}]
  /\ deletion \in [Take -> {"none", "killed", "found", "half", "unlinked"}]
  /\ marred \subseteq Take

RecordingInit ==
  /\ feed = [t \in Take |-> NoFeed]
  /\ row = [t \in Take |-> "none"]
  /\ activeJobs = {}
  /\ stage = [t \in Take |-> "new"]
  /\ files = [t \in Take |-> {}]
  /\ deletion = [t \in Take |-> "none"]
  /\ marred = {}

Stage(t, from, to) == stage[t] = from /\ stage' = [stage EXCEPT ![t] = to]
Deletion(t, from, to) == deletion[t] = from /\ deletion' = [deletion EXCEPT ![t] = to]

(* The event kind may happen, and it hits the recordings ts.               *)
Mar(kind, ts) == kind \in RecordingHazards /\ marred' = marred \cup ts

-----------------------------------------------------------------------------
(* startRecording.                                                         *)

CheckRoom(t, f) ==
  /\ Cardinality(activeJobs) < MaxConcurrent
  /\ Stage(t, "new", "checked")
  /\ feed' = [feed EXCEPT ![t] = f]
  /\ UNCHANGED <<row, activeJobs, files, deletion, marred>>

(* A channel that is being recorded already is answered with that one.     *)
LookForRow(t) ==
  /\ Stage(t, "checked",
       IF \E u \in Take : row[u] = "recording" /\ feed[u] = feed[t] THEN "over" ELSE "looked")
  /\ UNCHANGED <<feed, row, activeJobs, files, deletion, marred>>

CreateRow(t) ==
  /\ Stage(t, "looked", "made")
  /\ row' = [row EXCEPT ![t] = "recording"]
  /\ UNCHANGED <<feed, activeJobs, files, deletion, marred>>

Spawn(t) ==
  /\ Stage(t, "made", "running")
  /\ activeJobs' = activeJobs \cup {t}
  /\ UNCHANGED <<feed, row, files, deletion, marred>>

(* mkdirSync or spawn throws: the call is rejected, and the row that was   *)
(* made says "recording" with nobody to end it.                            *)
SpawnThrows(t) ==
  /\ Stage(t, "made", "stuck")
  /\ UNCHANGED <<feed, row, activeJobs, files, deletion, marred>>

-----------------------------------------------------------------------------
(* The capture, and the handler of its end: the stream broke off, the time *)
(* is up, stopRecording or a deletion sent a signal, or ffmpeg is missing. *)

Capture(t) ==
  /\ Stage(t, "running", "writing")
  /\ files' = [files EXCEPT ![t] = {"ts"}]
  /\ UNCHANGED <<feed, row, activeJobs, deletion, marred>>

CaptureEnds(t) ==
  /\ stage[t] \in Capturing
  /\ stage' = [stage EXCEPT ![t] = "closing"]
  /\ activeJobs' = activeJobs \ {t}
  /\ UNCHANGED <<feed, row, files, deletion, marred>>

FindRow(t) ==
  /\ Stage(t, "closing",
       CASE row[t] = "none" -> "over" [] "ts" \in files[t] -> "remuxing" [] OTHER -> "failed")
  /\ UNCHANGED <<feed, row, activeJobs, files, deletion, marred>>

(* ffmpeg writes the .mp4 file; one that fails may leave a part of it.     *)
Remux(t) ==
  /\ \/ Stage(t, "remuxing", "remuxed") /\ files' = [files EXCEPT ![t] = @ \cup {"mp4"}]
     \/ Stage(t, "remuxing", "failed")
        /\ \E left \in SUBSET {"mp4"} : files' = [files EXCEPT ![t] = @ \cup left]
  /\ UNCHANGED <<feed, row, activeJobs, deletion, marred>>

UnlinkCapture(t) ==
  /\ IF "mp4" \in files[t]
     THEN Stage(t, "remuxed", "muxed") /\ files' = [files EXCEPT ![t] = @ \ {"ts"}]
     ELSE Stage(t, "remuxed", "failed") /\ UNCHANGED files
  /\ UNCHANGED <<feed, row, activeJobs, deletion, marred>>

(* Mutant: whatever ffmpeg left, the recording is saved as ready.          *)
OutcomeReady(at) == "ready"

Outcome(at) == IF at = "muxed" THEN "ready" ELSE "failed"

(* rec.save(): it throws, and nobody catches it, if the row is gone.       *)
SaveEnd(t) ==
  /\ stage[t] \in {"muxed", "failed"}
  /\ row' = [row EXCEPT ![t] = IF @ = "none" THEN @ ELSE Outcome(stage[t])]
  /\ stage' = [stage EXCEPT ![t] = "over"]
  /\ UNCHANGED <<feed, activeJobs, files, deletion, marred>>

SaveThrows(t) ==
  /\ stage[t] \in {"muxed", "failed"}
  /\ stage' = [stage EXCEPT ![t] = "over"]
  /\ Mar("crash", {t})
  /\ UNCHANGED <<feed, row, activeJobs, files, deletion>>

-----------------------------------------------------------------------------
(* deleteRecording, for an admin or when RETENTION_DAYS have passed.       *)

Underway(t) == stage[t] \notin {"new", "stuck", "over"}

Kill(t) ==
  /\ row[t] # "none"
  /\ Deletion(t, "none", "killed")
  /\ activeJobs' = activeJobs \ {t}
  /\ IF Underway(t) THEN Mar("cutOff", {t}) ELSE UNCHANGED marred
  /\ UNCHANGED <<feed, row, stage, files>>

FindDeleted(t) ==
  /\ Deletion(t, "killed", IF row[t] = "none" THEN "none" ELSE "found")
  /\ UNCHANGED <<feed, row, activeJobs, stage, files, marred>>

UnlinkMp4(t) ==
  /\ Deletion(t, "found", "half")
  /\ files' = [files EXCEPT ![t] = @ \ {"mp4"}]
  /\ UNCHANGED <<feed, row, activeJobs, stage, marred>>

UnlinkTs(t) ==
  /\ Deletion(t, "half", "unlinked")
  /\ files' = [files EXCEPT ![t] = @ \ {"ts"}]
  /\ UNCHANGED <<feed, row, activeJobs, stage, marred>>

DeleteRow(t) ==
  /\ Deletion(t, "unlinked", "none")
  /\ row' = [row EXCEPT ![t] = "none"]
  /\ UNCHANGED <<feed, activeJobs, stage, files, marred>>

-----------------------------------------------------------------------------
(* The process dies, its children and its calls with it.                   *)
ServerStops ==
  /\ \E t \in Take : Underway(t) \/ deletion[t] # "none"
  /\ Mar("crash", {t \in Take : Underway(t) \/ deletion[t] # "none"})
  /\ activeJobs' = {}
  /\ stage' = [t \in Take |-> IF Underway(t) THEN "over" ELSE stage[t]]
  /\ deletion' = [t \in Take |-> "none"]
  /\ UNCHANGED <<feed, row, files>>

Handle(t) ==
  \/ LookForRow(t) \/ CreateRow(t) \/ Spawn(t) \/ SpawnThrows(t)
  \/ Capture(t) \/ CaptureEnds(t)
  \/ FindRow(t) \/ Remux(t) \/ UnlinkCapture(t) \/ SaveEnd(t) \/ SaveThrows(t)
  \/ FindDeleted(t) \/ UnlinkMp4(t) \/ UnlinkTs(t) \/ DeleteRow(t)

RecordingNext ==
  \/ \E t \in Take, f \in Feed : CheckRoom(t, f)
  \/ \E t \in Take : Handle(t) \/ Kill(t)
  \/ ServerStops

RecordingSpec == RecordingInit /\ [][RecordingNext]_recordingVars

-----------------------------------------------------------------------------
(* Properties.                                                             *)

(* Once the handlers of a recording have ended, its row and its files tell *)
(* the same: a deleted recording has left no file, a ready one has its     *)
(* .mp4 file, and none is still said to be recording but one whose capture *)
(* could not be started, which has no file.  A recording that was deleted  *)
(* before its end was saved, or that a crash has hit, is excepted; it does *)
(* not spoil any other.                                                    *)
RowsMatchDisk ==
  \A t \in Take \ marred :
    ~Underway(t) /\ deletion[t] = "none" =>
      /\ row[t] = "none" => files[t] = {}
      /\ row[t] = "ready" => files[t] = {"mp4"}
      /\ row[t] = "recording" => stage[t] = "stuck" /\ files[t] = {}
      /\ t \notin activeJobs
=============================================================================
