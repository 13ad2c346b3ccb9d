------------------------------ MODULE Timeouts ------------------------------
(***************************************************************************)
(* The job timeout of the sub-jobs of one attempt: the settings a process  *)
(* starts with (core/config.py), calculate_job_timeout (worker/timeout.py),*)
(* the size enqueue_pipeline gives each sub-job and the one                *)
(* adjust_subjob_timeouts gives the GPU stages when preprocess has probed  *)
(* the audio, while the enqueuing process may still be at work.            *)
(*                                                                         *)
(* Seconds are small numbers and 0 is an unknown duration, which the code  *)
(* treats as it treats None.  The multiplier counts in tenths.  The stages *)
(* after assign_speakers are sized as it is, and left out.                 *)
(***************************************************************************)
EXTENDS Integers, Sequences

CONSTANTS
    SettingsChoices,  \* what an operator may have put in the environment
    MediaDurations,   \* the possible lengths of the audio
    MaxStoreErrors    \* bound on failing Redis calls of the resize

ASSUME TimeoutsAssumption ==
    /\ SettingsChoices \subseteq [floor : Int, default : Int, max : Int, multiplier : Int,
                                  buffer : Int, expiry : Int]
    /\ MediaDurations \subseteq Nat \ {0}
    /\ MaxStoreErrors \in Nat

VARIABLES
    settings,       \* the Settings of the deployment
    audio,          \* how long the audio is
    fromUrl,        \* whether the job starts with a download
    rowDuration,    \* jobs.duration when the pipeline is enqueued
    enqueuer,       \* enqueue_pipeline: the next stage, and whether it is to be recorded
    stageStatus,    \* the RQ status of each sub-job
    stageTimeout,   \* the RQ timeout of each sub-job
    recorded,       \* the sub-jobs in the subjobs set
    resize,         \* the post_persist hook of preprocess
    storeErrors     \* faults left to inject

timeoutVars == <<settings, audio, fromUrl, rowDuration, enqueuer, stageStatus, stageTimeout,
                 recorded, resize, storeErrors>>

StageOrder == <<"download", "preprocess", "transcribe_align", "diarize", "assign_speakers">>
StageIds == {StageOrder[k] : k \in 1..Len(StageOrder)}
DurationScaled == {"transcribe_align", "diarize"}

-----------------------------------------------------------------------------
(* Settings and calculate_job_timeout *)

StaleJobTimeout(s) == s.max + s.buffer

\* Mutant: the default may exceed the cap.
SettingsAccepted_DefaultUncapped(s) ==
    /\ s.floor > 0 /\ s.default >= s.floor
    /\ s.multiplier > 0 /\ s.buffer >= 0
    /\ s.expiry >= StaleJobTimeout(s)

\* _validate_timeout_invariants: any other Settings raise at startup.
SettingsAccepted(s) ==
    /\ s.floor > 0 /\ s.default >= s.floor /\ s.max >= s.default
    /\ s.multiplier > 0 /\ s.buffer >= 0
    /\ s.expiry >= StaleJobTimeout(s)

Smaller(a, b) == IF a < b THEN a ELSE b
Larger(a, b) == IF a < b THEN b ELSE a

\* calculate_job_timeout
JobTimeout(duration, s) ==
    IF duration <= 0 THEN s.default
    ELSE Larger(s.floor, Smaller(s.max, (duration * s.multiplier) \div 10))

-----------------------------------------------------------------------------

TimeoutsTypeOK ==
    /\ settings \in SettingsChoices
    /\ audio \in MediaDurations /\ fromUrl \in BOOLEAN
    /\ rowDuration \in MediaDurations \cup {0}
    /\ enqueuer \in [at : 1..(Len(StageOrder) + 1), recording : BOOLEAN, failed : BOOLEAN]
    /\ stageStatus \in [StageIds -> {"none", "deferred", "queued", "started", "finished", "failed"}]
    /\ stageTimeout \in [StageIds -> Int]
    /\ recorded \subseteq StageIds
    /\ resize \in [pc : {"idle", "load", "loop", "done"}, duration : MediaDurations \cup {0},
                   todo : SUBSET StageIds, reached : SUBSET StageIds]
    /\ storeErrors \in 0..MaxStoreErrors

\* Upload and retry probe a file, unless ffprobe fails; a URL job has no duration yet.
TimeoutsInit ==
    /\ settings \in {s \in SettingsChoices : SettingsAccepted(s)}
    /\ audio \in MediaDurations /\ fromUrl \in BOOLEAN
    /\ rowDuration \in IF fromUrl THEN {0} ELSE {0, audio}
    /\ enqueuer = [at |-> IF fromUrl THEN 1 ELSE 2, recording |-> FALSE, failed |-> FALSE]
    /\ stageStatus = [s \in StageIds |-> "none"]
    /\ stageTimeout = [s \in StageIds |-> 0]
    /\ recorded = {}
    /\ resize = [pc |-> "idle", duration |-> 0, todo |-> {}, reached |-> {}]
    /\ storeErrors = MaxStoreErrors

DependsOn(s) ==
    CASE s = "download" -> {}
      [] s = "preprocess" -> IF fromUrl THEN {"download"} ELSE {}
      [] s = "assign_speakers" -> {"transcribe_align", "diarize"}
      [] OTHER -> {"preprocess"}

-----------------------------------------------------------------------------
(* enqueue_pipeline, in the web process *)

\* queue.enqueue, which defers a sub-job whose dependencies have not finished.
EnqueueStage ==
    /\ enqueuer.at <= Len(StageOrder) /\ ~enqueuer.recording /\ ~enqueuer.failed
    /\ LET s == StageOrder[enqueuer.at] IN
       /\ stageStatus' = [stageStatus EXCEPT ![s] =
              IF \A d \in DependsOn(s) : stageStatus[d] = "finished" THEN "queued" ELSE "deferred"]
       /\ stageTimeout' = [stageTimeout EXCEPT ![s] = JobTimeout(rowDuration, settings)]
    /\ enqueuer' = [enqueuer EXCEPT !.recording = TRUE]
    /\ UNCHANGED <<settings, audio, fromUrl, rowDuration, recorded, resize, storeErrors>>

\* _record_subjob
RecordStage ==
    /\ enqueuer.recording /\ ~enqueuer.failed
    /\ recorded' = recorded \cup {StageOrder[enqueuer.at]}
    /\ enqueuer' = [enqueuer EXCEPT !.recording = FALSE, !.at = @ + 1]
    /\ UNCHANGED <<settings, audio, fromUrl, rowDuration, stageStatus, stageTimeout, resize, storeErrors>>

\* Either call raises: the rest of the DAG is never enqueued.
EnqueueStageFails ==
    /\ enqueuer.at <= Len(StageOrder) /\ ~enqueuer.failed /\ storeErrors > 0
    /\ enqueuer' = [enqueuer EXCEPT !.failed = TRUE]
    /\ storeErrors' = storeErrors - 1
    /\ UNCHANGED <<settings, audio, fromUrl, rowDuration, stageStatus, stageTimeout, recorded, resize>>

-----------------------------------------------------------------------------
(* The workers *)

\* A worker takes a sub-job and arms its death penalty from the timeout it has now.
StartStage(s) ==
    /\ stageStatus[s] = "queued"
    /\ stageStatus' = [stageStatus EXCEPT ![s] = "started"]
    /\ resize' = IF s = "preprocess" THEN [resize EXCEPT !.pc = "load"] ELSE resize
    /\ UNCHANGED <<settings, audio, fromUrl, rowDuration, enqueuer, stageTimeout, recorded, storeErrors>>

\* Preprocess has persisted its outputs; the hook reads the subjobs set, unless it has
\* no duration to go by or Redis is away.
ProbeAndLoad ==
    /\ resize.pc = "load"
    /\ \/ \E found \in {0, audio} :
             resize' = [resize EXCEPT !.pc = IF found = 0 THEN "done" ELSE "loop", !.duration = found,
                                      !.todo = IF found = 0 THEN {} ELSE recorded]
          /\ UNCHANGED storeErrors
       \/ /\ storeErrors > 0 /\ storeErrors' = storeErrors - 1
          /\ resize' = [resize EXCEPT !.pc = "done", !.duration = audio]
    /\ UNCHANGED <<settings, audio, fromUrl, rowDuration, enqueuer, stageStatus, stageTimeout, recorded>>

\* Mutant: a deferred sub-job is taken for one that cannot be resized.
Resizable_QueuedOnly(s) == stageStatus[s] = "queued"

Resizable(s) == stageStatus[s] \in {"deferred", "queued"}

\* One turn of the loop of adjust_subjob_timeouts; a failing call skips its sub-job.
ResizeStage(s) ==
    /\ resize.pc = "loop" /\ s \in resize.todo
    /\ \/ /\ stageTimeout' = IF s \in DurationScaled /\ Resizable(s)
                             THEN [stageTimeout EXCEPT ![s] = JobTimeout(resize.duration, settings)]
                             ELSE stageTimeout
          /\ resize' = [resize EXCEPT !.todo = @ \ {s}, !.reached = @ \cup {s}]
          /\ UNCHANGED storeErrors
       \/ /\ storeErrors > 0 /\ storeErrors' = storeErrors - 1
          /\ resize' = [resize EXCEPT !.todo = @ \ {s}]
          /\ UNCHANGED stageTimeout
    /\ UNCHANGED <<settings, audio, fromUrl, rowDuration, enqueuer, stageStatus, recorded>>

ResizeEnds ==
    /\ resize.pc = "loop" /\ resize.todo = {}
    /\ resize' = [resize EXCEPT !.pc = "done"]
    /\ UNCHANGED <<settings, audio, fromUrl, rowDuration, enqueuer, stageStatus, stageTimeout,
                   recorded, storeErrors>>

\* A stage returns, and RQ queues the sub-jobs that waited for it.
FinishStage(s) ==
    /\ stageStatus[s] = "started"
    /\ s = "preprocess" => resize.pc = "done"
    /\ stageStatus' = [d \in StageIds |->
          IF d = s THEN "finished"
          ELSE IF /\ stageStatus[d] = "deferred" /\ s \in DependsOn(d)
                  /\ \A e \in DependsOn(d) \ {s} : stageStatus[e] = "finished"
               THEN "queued" ELSE stageStatus[d]]
    /\ UNCHANGED <<settings, audio, fromUrl, rowDuration, enqueuer, stageTimeout, recorded,
                   resize, storeErrors>>

\* A stage raises or is killed by its death penalty, also within the hook.
StageFails(s) ==
    /\ stageStatus[s] = "started"
    /\ stageStatus' = [stageStatus EXCEPT ![s] = "failed"]
    /\ resize' = IF s = "preprocess" THEN [resize EXCEPT !.pc = "done"] ELSE resize
    /\ UNCHANGED <<settings, audio, fromUrl, rowDuration, enqueuer, stageTimeout, recorded, storeErrors>>

TimeoutsStep ==
    \/ EnqueueStage \/ RecordStage \/ EnqueueStageFails
    \/ ProbeAndLoad \/ ResizeEnds
    \/ \E s \in StageIds : StartStage(s) \/ ResizeStage(s) \/ FinishStage(s) \/ StageFails(s)

TimeoutsSpec == TimeoutsInit /\ [][TimeoutsStep]_timeoutVars

-----------------------------------------------------------------------------
(* Properties *)

\* A running stage is never killed before the floor, and its timeout is no longer than
\* the idle time after which the reaper looks at the job, nor than the life of the
\* progress hash, whatever its duration and its probe.
TimeoutsAreBounded ==
    \A s \in StageIds : stageStatus[s] = "started" =>
        /\ settings.floor <= stageTimeout[s] /\ 0 < stageTimeout[s]
        /\ stageTimeout[s] <= StaleJobTimeout(settings)
        /\ stageTimeout[s] <= settings.expiry

\* A GPU stage that the resize of its attempt reached runs under the timeout of the
\* probed audio, in every interleaving with the process that still enqueues the DAG.
GpuTimeoutFitsAudio ==
    \A s \in DurationScaled \cap resize.reached :
        stageStatus[s] = "started" => stageTimeout[s] = JobTimeout(audio, settings)
=============================================================================
