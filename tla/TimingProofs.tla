---------------------------- MODULE TimingProofs ----------------------------
(***************************************************************************)
(* Theorems about the components whose properties are about time: the      *)
(* job timeouts, the expiry of the pipeline's keys, and progress reports   *)
(* that come late.  For any settings, audio, chains, shapes and faults.    *)
(***************************************************************************)
EXTENDS Timeouts, KeyExpiry, Progress, TLAPS

(***************************************************************************)
(* Timeouts: for any settings and lengths of audio.                        *)
(***************************************************************************)

Durations == MediaDurations \cup {0}

\* The numbers that a timeout is made from.
Sources ==
    /\ settings \in SettingsChoices /\ SettingsAccepted(settings)
    /\ audio \in MediaDurations /\ rowDuration \in Durations /\ resize.duration \in Durations

\* The sub-jobs, and where the enqueuing process is.
TimeoutShapes ==
    /\ enqueuer \in [at : 1..(Len(StageOrder) + 1), recording : BOOLEAN, failed : BOOLEAN]
    /\ stageStatus \in [StageIds -> {"none", "deferred", "queued", "started", "finished", "failed"}]
    /\ stageTimeout \in [StageIds -> Int]
    /\ recorded \subseteq StageIds
    /\ resize \in [pc : {"idle", "load", "loop", "done"}, duration : Durations,
                   todo : SUBSET StageIds, reached : SUBSET StageIds]

InRange(t) == settings.floor <= t /\ t <= settings.max

Sized == \A s \in StageIds : stageStatus[s] # "none" => InRange(stageTimeout[s])

\* The stages are enqueued once, in their order.
Order(s) == CHOOSE k \in 1..5 : StageOrder[k] = s

EnqueuedInOrder ==
    /\ \A s \in StageIds : stageStatus[s] # "none" =>
          Order(s) < enqueuer.at \/ (Order(s) = enqueuer.at /\ enqueuer.recording)
    /\ enqueuer.recording => enqueuer.at <= 5 /\ stageStatus[StageOrder[enqueuer.at]] # "none"
    /\ \A s \in recorded : stageStatus[s] # "none"
    /\ resize.todo \subseteq recorded /\ resize.reached \subseteq recorded

\* The GPU stages wait until preprocess has returned, and so until the resize is over.
GpuWaits ==
    /\ resize.pc \in {"load", "loop"} => stageStatus["preprocess"] = "started"
    /\ resize.pc = "loop" => resize.duration = audio
    /\ \A s \in DurationScaled :
          stageStatus[s] \in {"none", "deferred"} \/ stageStatus["preprocess"] = "finished"

Resized == \A s \in DurationScaled \cap resize.reached : stageTimeout[s] = JobTimeout(audio, settings)

TimeoutsInv == Sources /\ TimeoutShapes /\ Sized /\ EnqueuedInOrder /\ GpuWaits /\ Resized

-----------------------------------------------------------------------------

\* calculate_job_timeout stays within the floor and the cap, whatever the duration.
LEMMA JobTimeoutInRange ==
    ASSUME Sources, NEW d \in Durations
    PROVE  JobTimeout(d, settings) \in Int /\ InRange(JobTimeout(d, settings))
<1>1. /\ settings.floor \in Int /\ settings.default \in Int /\ settings.max \in Int /\ settings.multiplier \in Int
      /\ d \in Int
  BY TimeoutsAssumption DEF Sources, TimeoutsAssumption, Durations
<1>2. (d * settings.multiplier) \div 10 \in Int
  BY <1>1
<1>3. settings.floor <= settings.default /\ settings.default <= settings.max
  BY <1>1 DEF Sources, SettingsAccepted
<1> QED BY <1>1, <1>2, <1>3 DEF JobTimeout, InRange, Larger, Smaller

LEMMA TheStages ==
    /\ Len(StageOrder) = 5
    /\ StageIds = {"download", "preprocess", "transcribe_align", "diarize", "assign_speakers"}
    /\ \A k \in 1..5 : StageOrder[k] \in StageIds /\ Order(StageOrder[k]) = k
    /\ \A s \in StageIds : Order(s) \in 1..5 /\ StageOrder[Order(s)] = s
    /\ DurationScaled \subseteq StageIds \ {"preprocess"}
<1>1. Len(StageOrder) = 5
  BY DEF StageOrder
<1>2. /\ StageOrder[1] = "download" /\ StageOrder[2] = "preprocess" /\ StageOrder[3] = "transcribe_align"
      /\ StageOrder[4] = "diarize" /\ StageOrder[5] = "assign_speakers"
  BY DEF StageOrder
<1>3. \A k \in 1..5 : k = 1 \/ k = 2 \/ k = 3 \/ k = 4 \/ k = 5
  OBVIOUS
<1>4. StageIds = {"download", "preprocess", "transcribe_align", "diarize", "assign_speakers"}
  <2>1. StageIds = {StageOrder[k] : k \in 1..5}
    BY <1>1 DEF StageIds
  <2>2. 1 \in 1..5 /\ 2 \in 1..5 /\ 3 \in 1..5 /\ 4 \in 1..5 /\ 5 \in 1..5
    OBVIOUS
  <2> QED BY <1>2, <1>3, <2>1, <2>2
<1>5. \A j, k \in 1..5 : StageOrder[j] = StageOrder[k] => j = k
  BY <1>2, <1>3
<1>6. \A s \in StageIds : \E k \in 1..5 : StageOrder[k] = s
  BY <1>1 DEF StageIds
<1>7. \A s \in StageIds : Order(s) \in 1..5 /\ StageOrder[Order(s)] = s
  BY <1>6 DEF Order
<1>8. \A k \in 1..5 : StageOrder[k] \in StageIds
  BY <1>1 DEF StageIds
<1>9. \A k \in 1..5 : Order(StageOrder[k]) = k
  BY <1>5, <1>7, <1>8
<1> QED BY <1>1, <1>4, <1>7, <1>8, <1>9 DEF DurationScaled

-----------------------------------------------------------------------------
(* One lemma per conjunct of the invariant, and in it one step per action that can
   disturb the conjunct. *)

\* What the hook holds after its load, and after a turn of its loop.
LEMMA ProbeOutcome ==
    ASSUME Sources, TimeoutShapes, ProbeAndLoad
    PROVE  /\ resize'.pc \in {"done", "loop"} /\ resize'.duration \in {0, audio}
           /\ resize'.todo \subseteq resize.todo \cup recorded /\ resize'.reached = resize.reached
           /\ resize'.pc = "loop" => resize'.duration = audio
           /\ resize' \in [pc : {"idle", "load", "loop", "done"}, duration : Durations,
                          todo : SUBSET StageIds, reached : SUBSET StageIds]
<1> USE DEF TimeoutShapes
<1>1. resize.pc = "load" /\ resize.todo \subseteq StageIds
  BY DEF ProbeAndLoad
<1>2. CASE resize' = [resize EXCEPT !.pc = "done", !.duration = audio]
  BY <1>2 DEF Sources, Durations
<1>3. ASSUME NEW found \in {0, audio},
             resize' = [resize EXCEPT !.pc = IF found = 0 THEN "done" ELSE "loop", !.duration = found,
                                      !.todo = IF found = 0 THEN {} ELSE recorded]
      PROVE  \/ resize' = [resize EXCEPT !.pc = "done", !.duration = 0, !.todo = {}]
             \/ found = audio /\ resize' = [resize EXCEPT !.pc = "loop", !.duration = audio, !.todo = recorded]
  <2>1. CASE found = 0
    BY <1>3, <2>1
  <2>2. CASE found # 0
    BY <1>3, <2>2
  <2> QED BY <2>1, <2>2
<1>4. CASE resize' = [resize EXCEPT !.pc = "done", !.duration = 0, !.todo = {}]
  BY <1>4 DEF Sources, Durations
<1>5. CASE resize' = [resize EXCEPT !.pc = "loop", !.duration = audio, !.todo = recorded]
  BY <1>5 DEF Sources, Durations
<1> QED BY <1>2, <1>3, <1>4, <1>5 DEF ProbeAndLoad

LEMMA LoopTurn ==
    ASSUME TimeoutShapes, NEW s \in StageIds, ResizeStage(s)
    PROVE  /\ resize'.pc = "loop" /\ resize'.duration = resize.duration
           /\ resize'.todo = resize.todo \ {s}
           /\ resize'.reached = resize.reached \/ resize'.reached = resize.reached \cup {s}
           /\ s \in resize.todo /\ resize.pc = "loop"
           /\ resize' \in [pc : {"idle", "load", "loop", "done"}, duration : Durations,
                          todo : SUBSET StageIds, reached : SUBSET StageIds]
<1> USE DEF TimeoutShapes
<1>1. resize.pc = "loop" /\ s \in resize.todo
  BY DEF ResizeStage
<1>2. CASE resize' = [resize EXCEPT !.todo = resize.todo \ {s}]
  BY <1>1, <1>2
<1>3. CASE resize' = [resize EXCEPT !.todo = resize.todo \ {s}, !.reached = resize.reached \cup {s}]
  BY <1>1, <1>3
<1> QED BY <1>2, <1>3 DEF ResizeStage

LEMMA SourcesKept ==
    ASSUME Sources, TimeoutShapes, [TimeoutsStep]_timeoutVars
    PROVE  Sources'
<1>1. UNCHANGED <<settings, audio, rowDuration>>
  BY DEF TimeoutsStep, timeoutVars, EnqueueStage, RecordStage, EnqueueStageFails, ProbeAndLoad, ResizeEnds,
      StartStage, ResizeStage, FinishStage, StageFails
<1>2. resize'.duration \in Durations
  <2>1. CASE ProbeAndLoad
    BY <2>1, ProbeOutcome DEF Sources, Durations
  <2>2. CASE resize' = resize \/ resize'.duration = resize.duration
    BY <2>2 DEF Sources
  <2>3. ProbeAndLoad \/ resize' = resize \/ resize'.duration = resize.duration
    BY DEF TimeoutShapes, TimeoutsStep, timeoutVars, EnqueueStage, RecordStage, EnqueueStageFails, ResizeEnds,
        StartStage, ResizeStage, FinishStage, StageFails
  <2> QED BY <2>1, <2>2, <2>3
<1> QED BY <1>1, <1>2 DEF Sources

LEMMA TimeoutShapesKept ==
    ASSUME Sources, TimeoutShapes, EnqueuedInOrder, [TimeoutsStep]_timeoutVars
    PROVE  TimeoutShapes'
<1> USE TheStages DEF TimeoutShapes
<1>1. CASE EnqueueStage
  <2>1. StageOrder[enqueuer.at] \in StageIds /\ JobTimeout(rowDuration, settings) \in Int
    BY <1>1, JobTimeoutInRange DEF EnqueueStage, Sources
  <2>2. /\ stageStatus' \in [StageIds -> {"none", "deferred", "queued", "started", "finished", "failed"}]
        /\ stageTimeout' \in [StageIds -> Int]
    BY <1>1, <2>1 DEF EnqueueStage
  <2> QED BY <1>1, <2>2 DEF EnqueueStage
<1>2. CASE RecordStage
  <2>1. enqueuer.at \in 1..5 /\ recorded' \subseteq StageIds
    BY <1>2 DEF RecordStage, EnqueuedInOrder
  <2>2. enqueuer' \in [at : 1..(Len(StageOrder) + 1), recording : BOOLEAN, failed : BOOLEAN]
    <3>1. enqueuer' = [enqueuer EXCEPT !.recording = FALSE, !.at = enqueuer.at + 1]
      BY <1>2 DEF RecordStage
    <3>2. enqueuer.at + 1 \in 1..(Len(StageOrder) + 1)
      BY <2>1
    <3> QED BY <3>1, <3>2
  <2> QED BY <1>2, <2>1, <2>2 DEF RecordStage
<1>3. CASE EnqueueStageFails
  BY <1>3 DEF EnqueueStageFails
<1>4. CASE ProbeAndLoad
  BY <1>4, ProbeOutcome DEF ProbeAndLoad
<1>5. CASE ResizeEnds
  BY <1>5 DEF ResizeEnds
<1>6. ASSUME NEW s \in StageIds, StartStage(s)
      PROVE  TimeoutShapes'
  BY <1>6 DEF StartStage
<1>7. ASSUME NEW s \in StageIds, ResizeStage(s)
      PROVE  TimeoutShapes'
  <2>1. JobTimeout(resize.duration, settings) \in Int
    BY JobTimeoutInRange DEF Sources
  <2>2. stageTimeout' \in [StageIds -> Int]
    BY <1>7, <2>1 DEF ResizeStage
  <2> QED BY <1>7, <2>2, LoopTurn DEF ResizeStage
<1>8. ASSUME NEW s \in StageIds, FinishStage(s)
      PROVE  TimeoutShapes'
  BY <1>8 DEF FinishStage
<1>9. ASSUME NEW s \in StageIds, StageFails(s)
      PROVE  TimeoutShapes'
  BY <1>9 DEF StageFails
<1>10. CASE UNCHANGED timeoutVars
  BY <1>10 DEF timeoutVars
<1> QED BY <1>1, <1>2, <1>3, <1>4, <1>5, <1>6, <1>7, <1>8, <1>9, <1>10 DEF TimeoutsStep

LEMMA SizedKept ==
    ASSUME Sources, TimeoutShapes, Sized, [TimeoutsStep]_timeoutVars
    PROVE  Sized'
<1> USE DEF TimeoutShapes, Sized
<1>1. settings' = settings
  BY DEF TimeoutsStep, timeoutVars, EnqueueStage, RecordStage, EnqueueStageFails, ProbeAndLoad, ResizeEnds,
      StartStage, ResizeStage, FinishStage, StageFails
<1>2. CASE EnqueueStage
  <2>1. StageOrder[enqueuer.at] \in StageIds /\ InRange(JobTimeout(rowDuration, settings))
    BY <1>2, TheStages, JobTimeoutInRange DEF EnqueueStage, Sources
  <2> QED BY <1>1, <1>2, <2>1 DEF EnqueueStage, InRange
<1>3. ASSUME NEW s \in StageIds, ResizeStage(s)
      PROVE  Sized'
  <2>1. InRange(JobTimeout(resize.duration, settings))
    BY JobTimeoutInRange DEF Sources
  <2> QED BY <1>1, <1>3, <2>1 DEF ResizeStage, InRange
<1>4. ASSUME NEW s \in StageIds, StartStage(s) \/ FinishStage(s) \/ StageFails(s)
      PROVE  Sized'
  <2>1. stageTimeout' = stageTimeout /\ \A d \in StageIds : stageStatus'[d] # "none" => stageStatus[d] # "none"
    BY <1>4 DEF StartStage, FinishStage, StageFails
  <2> QED BY <1>1, <2>1 DEF InRange
<1>5. CASE UNCHANGED <<stageStatus, stageTimeout>>
  BY <1>1, <1>5 DEF InRange
<1> QED
  BY <1>2, <1>3, <1>4, <1>5 DEF TimeoutsStep, timeoutVars, RecordStage, EnqueueStageFails, ProbeAndLoad, ResizeEnds

LEMMA EnqueuedInOrderKept ==
    ASSUME Sources, TimeoutShapes, EnqueuedInOrder, [TimeoutsStep]_timeoutVars
    PROVE  EnqueuedInOrder'
<1> USE TheStages DEF TimeoutShapes, EnqueuedInOrder
<1>1. CASE EnqueueStage
  <2> DEFINE new == StageOrder[enqueuer.at]
  <2>1. enqueuer.at \in 1..5 /\ new \in StageIds /\ Order(new) = enqueuer.at
    BY <1>1 DEF EnqueueStage
  <2>2. /\ enqueuer' = [enqueuer EXCEPT !.recording = TRUE] /\ UNCHANGED <<recorded, resize>>
        /\ stageStatus'[new] # "none" /\ \A s \in StageIds \ {new} : stageStatus'[s] = stageStatus[s]
    BY <1>1, <2>1 DEF EnqueueStage
  <2> QED BY <2>1, <2>2
<1>2. CASE RecordStage
  <2>1. /\ enqueuer'.at = enqueuer.at + 1 /\ ~enqueuer'.recording
        /\ recorded' = recorded \cup {StageOrder[enqueuer.at]} /\ UNCHANGED <<stageStatus, resize>>
        /\ enqueuer.recording
    BY <1>2 DEF RecordStage
  <2> QED BY <2>1
<1>3. CASE EnqueueStageFails
  BY <1>3 DEF EnqueueStageFails
<1>4. CASE ProbeAndLoad
  <2>1. UNCHANGED <<enqueuer, stageStatus, recorded>>
    BY <1>4 DEF ProbeAndLoad
  <2> QED BY <1>4, <2>1, ProbeOutcome
<1>8. CASE ResizeEnds
  BY <1>8 DEF ResizeEnds
<1>5. ASSUME NEW s \in StageIds, ResizeStage(s)
      PROVE  EnqueuedInOrder'
  <2>1. UNCHANGED <<enqueuer, stageStatus, recorded>>
    BY <1>5 DEF ResizeStage
  <2> QED BY <1>5, <2>1, LoopTurn
<1>6. ASSUME NEW s \in StageIds, StartStage(s) \/ FinishStage(s) \/ StageFails(s)
      PROVE  EnqueuedInOrder'
  <2>1. /\ UNCHANGED <<enqueuer, recorded>>
        /\ \A d \in StageIds : stageStatus'[d] = "none" <=> stageStatus[d] = "none"
        /\ resize'.todo = resize.todo /\ resize'.reached = resize.reached
    BY <1>6 DEF StartStage, FinishStage, StageFails
  <2> QED BY <2>1
<1>7. CASE UNCHANGED timeoutVars
  BY <1>7 DEF timeoutVars
<1> QED BY <1>1, <1>2, <1>3, <1>4, <1>5, <1>6, <1>7, <1>8 DEF TimeoutsStep

LEMMA GpuWaitsKept ==
    ASSUME Sources, TimeoutShapes, EnqueuedInOrder, GpuWaits, [TimeoutsStep]_timeoutVars
    PROVE  GpuWaits'
<1> USE TheStages DEF TimeoutShapes, GpuWaits
<1>1. audio' = audio
  BY DEF TimeoutsStep, timeoutVars, EnqueueStage, RecordStage, EnqueueStageFails, ProbeAndLoad, ResizeEnds,
      StartStage, ResizeStage, FinishStage, StageFails
<1>2. CASE EnqueueStage
  <2> DEFINE new == StageOrder[enqueuer.at]
  <2>1. new \in StageIds /\ stageStatus[new] = "none"
    BY <1>2 DEF EnqueueStage, EnqueuedInOrder
  <2>2. /\ resize' = resize /\ stageStatus'[new] \in {"queued", "deferred"}
        /\ \A s \in StageIds \ {new} : stageStatus'[s] = stageStatus[s]
    BY <1>2, <2>1 DEF EnqueueStage
  <2>3. ASSUME new \in DurationScaled, stageStatus'[new] = "queued"
        PROVE  stageStatus["preprocess"] = "finished"
    <3>1. DependsOn(new) = {"preprocess"}
      BY <2>3 DEF DependsOn, DurationScaled
    <3> QED BY <1>2, <2>1, <2>3, <3>1 DEF EnqueueStage
  <2>4. stageStatus["preprocess"] \in {"started", "finished"} => new # "preprocess"
    BY <2>1
  <2> QED BY <1>1, <2>1, <2>2, <2>3, <2>4
<1>3. CASE ProbeAndLoad
  <2>1. stageStatus' = stageStatus /\ resize.pc = "load"
    BY <1>3 DEF ProbeAndLoad
  <2> QED BY <1>1, <1>3, <2>1, ProbeOutcome
<1>4. CASE ResizeEnds
  BY <1>1, <1>4 DEF ResizeEnds
<1>5. ASSUME NEW s \in StageIds, ResizeStage(s)
      PROVE  GpuWaits'
  <2>1. stageStatus' = stageStatus
    BY <1>5 DEF ResizeStage
  <2> QED BY <1>1, <1>5, <2>1, LoopTurn
<1>6. ASSUME NEW s \in StageIds, StartStage(s)
      PROVE  GpuWaits'
  <2>1. /\ stageStatus[s] = "queued" /\ stageStatus'[s] = "started"
        /\ \A d \in StageIds \ {s} : stageStatus'[d] = stageStatus[d]
    BY <1>6 DEF StartStage
  <2>2. CASE s = "preprocess"
    <3>1. resize'.pc = "load"
      BY <1>6, <2>2 DEF StartStage
    <3> QED BY <1>1, <2>1, <2>2, <3>1
  <2>3. CASE s # "preprocess"
    <3>1. resize' = resize
      BY <1>6, <2>3 DEF StartStage
    <3> QED BY <1>1, <2>1, <2>3, <3>1
  <2> QED BY <2>2, <2>3
<1>7. ASSUME NEW s \in StageIds, FinishStage(s)
      PROVE  GpuWaits'
  <2>1. resize' = resize /\ (s = "preprocess" => resize.pc = "done")
        /\ stageStatus'[s] = "finished" /\ stageStatus[s] = "started"
    BY <1>7 DEF FinishStage
  <2>2. \A d \in StageIds \ {s} : \/ stageStatus'[d] = stageStatus[d]
                                  \/ /\ stageStatus[d] = "deferred" /\ stageStatus'[d] = "queued"
                                     /\ s \in DependsOn(d)
    BY <1>7 DEF FinishStage
  <2>3. \A d \in DurationScaled : s \in DependsOn(d) => s = "preprocess"
    BY DEF DependsOn, DurationScaled
  <2>4. \A d \in DurationScaled :
            stageStatus'[d] \in {"none", "deferred"} \/ stageStatus'["preprocess"] = "finished"
    BY <2>1, <2>2, <2>3
  <2>5. resize.pc \in {"load", "loop"} => stageStatus'["preprocess"] = "started"
    BY <2>1, <2>2
  <2> QED BY <1>1, <2>1, <2>4, <2>5
<1>8. ASSUME NEW s \in StageIds, StageFails(s)
      PROVE  GpuWaits'
  <2>1. /\ stageStatus[s] = "started" /\ stageStatus'[s] = "failed"
        /\ \A d \in StageIds \ {s} : stageStatus'[d] = stageStatus[d]
    BY <1>8 DEF StageFails
  <2>2. IF s = "preprocess" THEN resize'.pc = "done" ELSE resize' = resize
    BY <1>8 DEF StageFails
  <2> QED BY <1>1, <2>1, <2>2
<1>9. CASE UNCHANGED <<stageStatus, resize>>
  BY <1>1, <1>9
<1> QED
  BY <1>2, <1>3, <1>4, <1>5, <1>6, <1>7, <1>8, <1>9 DEF TimeoutsStep, timeoutVars, RecordStage, EnqueueStageFails

LEMMA ResizedKept ==
    ASSUME Sources, TimeoutShapes, EnqueuedInOrder, GpuWaits, Resized, [TimeoutsStep]_timeoutVars
    PROVE  Resized'
<1> USE TheStages DEF TimeoutShapes, Resized
<1>1. UNCHANGED <<settings, audio>>
  BY DEF TimeoutsStep, timeoutVars, EnqueueStage, RecordStage, EnqueueStageFails, ProbeAndLoad, ResizeEnds,
      StartStage, ResizeStage, FinishStage, StageFails
<1>2. JobTimeout(audio, settings)' = JobTimeout(audio, settings)
  BY <1>1 DEF JobTimeout, Larger, Smaller
<1>3. CASE EnqueueStage
  <2> DEFINE new == StageOrder[enqueuer.at]
  <2>1. new \in StageIds /\ new \notin resize.reached
    BY <1>3 DEF EnqueueStage, EnqueuedInOrder
  <2>2. resize' = resize /\ \A s \in StageIds \ {new} : stageTimeout'[s] = stageTimeout[s]
    BY <1>3, <2>1 DEF EnqueueStage
  <2> QED BY <1>2, <2>1, <2>2
<1>4. ASSUME NEW s \in StageIds, ResizeStage(s)
      PROVE  Resized'
  <2>1. s \in recorded /\ resize.duration = audio
    BY <1>4, LoopTurn DEF EnqueuedInOrder, GpuWaits
  <2>2. s \in DurationScaled => Resizable(s)
    BY <1>4, <2>1, LoopTurn DEF GpuWaits, EnqueuedInOrder, Resizable
  <2>3. \A d \in StageIds \ {s} : stageTimeout'[d] = stageTimeout[d]
    BY <1>4 DEF ResizeStage
  <2>4. CASE s \in resize'.reached /\ s \in DurationScaled
    <3>1. stageTimeout'[s] = JobTimeout(audio, settings) \/ (resize'.reached = resize.reached /\ stageTimeout' = stageTimeout)
      BY <1>4, <2>1, <2>2, <2>4 DEF ResizeStage
    <3> QED BY <1>2, <1>4, <2>3, <3>1, LoopTurn
  <2>5. CASE ~(s \in resize'.reached /\ s \in DurationScaled)
    BY <1>2, <1>4, <2>3, <2>5, LoopTurn
  <2> QED BY <2>4, <2>5
<1>5. CASE stageTimeout' = stageTimeout /\ resize'.reached = resize.reached
  BY <1>2, <1>5
<1>6. \/ EnqueueStage \/ (\E s \in StageIds : ResizeStage(s))
      \/ stageTimeout' = stageTimeout /\ resize'.reached = resize.reached
  <2>1. ProbeAndLoad => stageTimeout' = stageTimeout /\ resize'.reached = resize.reached
    BY ProbeOutcome DEF ProbeAndLoad
  <2> QED BY <2>1 DEF TimeoutsStep, timeoutVars, RecordStage, EnqueueStageFails, ResizeEnds, StartStage,
              FinishStage, StageFails
<1> QED BY <1>3, <1>4, <1>5, <1>6

-----------------------------------------------------------------------------

\* The invariant behind the two theorems below.
THEOREM TimeoutsInvariant == TimeoutsSpec => []TimeoutsInv
<1>1. TimeoutsInit => TimeoutsInv
  <2> SUFFICES ASSUME TimeoutsInit
               PROVE  TimeoutsInv
    OBVIOUS
  <2> USE TheStages DEF TimeoutsInit
  <2>1. Sources
    BY DEF Sources, Durations
  <2>2. TimeoutShapes
    BY DEF TimeoutShapes, Durations
  <2>3. Sized /\ EnqueuedInOrder /\ GpuWaits /\ Resized
    BY DEF Sized, EnqueuedInOrder, GpuWaits, Resized
  <2> QED BY <2>1, <2>2, <2>3 DEF TimeoutsInv
<1>2. TimeoutsInv /\ [TimeoutsStep]_timeoutVars => TimeoutsInv'
  BY SourcesKept, TimeoutShapesKept, SizedKept, EnqueuedInOrderKept, GpuWaitsKept, ResizedKept DEF TimeoutsInv
<1> QED BY <1>1, <1>2, PTL DEF TimeoutsSpec

\* No settings that start up, duration or probe give a running stage a timeout below the
\* floor or beyond what the reaper and the progress hash wait for.
THEOREM TimeoutsAlwaysBounded == TimeoutsSpec => []TimeoutsAreBounded
<1>1. TimeoutsInv => TimeoutsAreBounded
  <2> SUFFICES ASSUME TimeoutsInv, NEW s \in StageIds, stageStatus[s] = "started"
               PROVE  /\ settings.floor <= stageTimeout[s] /\ 0 < stageTimeout[s]
                      /\ stageTimeout[s] <= StaleJobTimeout(settings)
                      /\ stageTimeout[s] <= settings.expiry
    BY DEF TimeoutsAreBounded
  <2>1. InRange(stageTimeout[s]) /\ stageTimeout[s] \in Int
    BY DEF TimeoutsInv, Sized, TimeoutShapes
  <2>2. settings \in [floor : Int, default : Int, max : Int, multiplier : Int, buffer : Int, expiry : Int]
    BY TimeoutsAssumption DEF TimeoutsAssumption, TimeoutsInv, Sources
  <2>3. settings.floor > 0 /\ settings.buffer >= 0 /\ settings.expiry >= settings.max + settings.buffer
    BY DEF TimeoutsInv, Sources, SettingsAccepted, StaleJobTimeout
  <2> QED BY <2>1, <2>2, <2>3 DEF InRange, StaleJobTimeout
<1> QED BY <1>1, TimeoutsInvariant, PTL

\* However the hook of preprocess and the process that still enqueues interleave, a GPU
\* stage that the hook reached runs under the timeout of the probed audio.
THEOREM GpuTimeoutAlwaysFits == TimeoutsSpec => []GpuTimeoutFitsAudio
<1>1. TimeoutsInv => GpuTimeoutFitsAudio
  BY DEF TimeoutsInv, Resized, GpuTimeoutFitsAudio
<1> QED BY <1>1, TimeoutsInvariant, PTL

\* The sub-jobs, the hook and the faults keep their types.
THEOREM TimeoutsTypes == TimeoutsSpec => []TimeoutsTypeOK
<1> DEFINE Faults == storeErrors \in 0..MaxStoreErrors /\ fromUrl \in BOOLEAN
<1>1. TimeoutsInit => Faults
  <2>1. MaxStoreErrors \in 0..MaxStoreErrors
    BY TimeoutsAssumption DEF TimeoutsAssumption
  <2> QED BY <2>1 DEF TimeoutsInit
<1>2. Faults /\ [TimeoutsStep]_timeoutVars => Faults'
  <2> SUFFICES ASSUME Faults, [TimeoutsStep]_timeoutVars PROVE Faults'
    OBVIOUS
  <2>1. /\ storeErrors' = storeErrors \/ (storeErrors > 0 /\ storeErrors' = storeErrors - 1)
        /\ fromUrl' = fromUrl
    BY DEF TimeoutsStep, timeoutVars, EnqueueStage, RecordStage, EnqueueStageFails, ProbeAndLoad, ResizeEnds,
        StartStage, ResizeStage, FinishStage, StageFails
  <2> QED BY <2>1, TimeoutsAssumption DEF TimeoutsAssumption
<1>3. TimeoutsInv /\ Faults => TimeoutsTypeOK
  BY DEF TimeoutsInv, Sources, TimeoutShapes, Durations, TimeoutsTypeOK
<1> QED BY <1>1, <1>2, <1>3, TimeoutsInvariant, PTL DEF TimeoutsSpec

-----------------------------------------------------------------------------
(***************************************************************************)
(* KeyExpiry: for any timeouts and any TTL long enough.                    *)
(***************************************************************************)

\* The reaper reads these two.
ReaperKeys == {"generation", "subjobs"}

\* What one stage may cost: its wait until the reaper takes the job for stale, and its run.
StageCost == StageTimeout + StaleTimeout + 1

\* What the stages so far, the sub-job at hand and the rounds missed may have cost since
\* the keys were armed.  While a sub-job waits nothing resets idle, so idle counts the
\* wait until the job is stale; from then on a round that is not missed arms the keys.
Spendable ==
    (attempt.stage - 1) * StageCost + (MaxMissed - missed) +
    IF attempt.at = "started" THEN attempt.ran + StaleTimeout + 1
    ELSE IF idle <= StaleTimeout THEN idle
    ELSE IF due THEN StaleTimeout + 1 ELSE StaleTimeout

KeysSpent == \A k \in ReaperKeys : StateTtl - ttl[k] <= Spendable

\* A job is alive until it is lost or has ended; the keys of a live one are there.
Live == Active /\ attempt.at # "lost"

ExpiryInv == KeyExpiryTypeOK /\ (Live => KeysSpent) /\ LiveIsSpared

-----------------------------------------------------------------------------

\* The budget outlasts the longest chain.
LEMMA KeysAreThere ==
    ASSUME KeyExpiryTypeOK, Live, KeysSpent
    PROVE  \A k \in ReaperKeys : ttl[k] > 0
<1> USE KeyExpiryAssumption DEF KeyExpiryAssumption
<1>1. StageCost \in Nat /\ attempt.stage - 1 \in Nat /\ attempt.stage - 1 <= Stages - 1
  BY DEF StageCost, KeyExpiryTypeOK
<1>2. (attempt.stage - 1) * StageCost <= (Stages - 1) * StageCost
  <2>1. \A a, b, c \in Nat : a <= b => a * c <= b * c
    OBVIOUS
  <2> QED BY <1>1, <2>1
<1>3. Spendable <= (Stages - 1) * StageCost + MaxMissed + StageCost
  <2>1. attempt.ran <= StageTimeout /\ MaxMissed - missed <= MaxMissed
    BY DEF KeyExpiryTypeOK
  <2> QED BY <1>1, <1>2, <2>1 DEF Spendable, StageCost, KeyExpiryTypeOK
<1>4. (Stages - 1) * StageCost + StageCost = Stages * StageCost
  BY <1>1
<1>5. Spendable < StateTtl
  BY <1>1, <1>3, <1>4 DEF StageCost, Spendable, KeyExpiryTypeOK
<1> QED BY <1>1, <1>5 DEF KeysSpent, Spendable, ReaperKeys, Keys, KeyExpiryTypeOK

LEMMA ConstantTypes ==
    /\ Stages \in Nat \ {0} /\ StageTimeout \in Nat /\ StaleTimeout \in Nat /\ MaxMissed \in Nat
    /\ StateTtl \in Nat
BY KeyExpiryAssumption DEF KeyExpiryAssumption

Attempts == [stage : 1..Stages, at : {"queued", "started", "lost"}, ran : 0..StageTimeout, loaded : BOOLEAN]

\* One step per action: types, and the budget of the keys where a live job goes on.
LEMMA TypesKept ==
    ASSUME KeyExpiryTypeOK, [KeyExpiryStep]_expiryVars
    PROVE  KeyExpiryTypeOK'
<1> USE ConstantTypes DEF KeyExpiryTypeOK
<1>1. CASE Tick
  <2>1. attempt' \in Attempts
    BY <1>1 DEF Tick, Attempts
  <2>2. idle' \in 0..StaleTimeout + 1 /\ ttl' \in [Keys -> 0..StateTtl]
    BY <1>1 DEF Tick
  <2> QED BY <1>1, <2>1, <2>2 DEF Tick, Attempts
<1>2. CASE StartSubjob
  <2>1. PICK found \in BOOLEAN :
            attempt' = [attempt EXCEPT !.at = "started", !.ran = 0, !.loaded = found]
    <3>1. (ttl["context"] > 0) \in BOOLEAN
      OBVIOUS
    <3> QED BY <1>2, <3>1 DEF StartSubjob
  <2>2. attempt' \in Attempts
    <3>1. attempt' = [stage |-> attempt.stage, at |-> "started", ran |-> 0, loaded |-> found]
      BY <2>1
    <3>2. attempt.stage \in 1..Stages /\ 0 \in 0..StageTimeout
      OBVIOUS
    <3> QED BY <3>1, <3>2 DEF Attempts
  <2> QED BY <1>2, <2>2 DEF StartSubjob, Attempts
<1>3. CASE MirrorReport
  BY <1>3 DEF MirrorReport
<1>4. CASE FinishSubjob
  <2>1. attempt' \in Attempts
    <3>1. CASE attempt.stage = Stages
      BY <1>4, <3>1 DEF FinishSubjob, Attempts
    <3>2. CASE attempt.stage # Stages
      <4>1. attempt' = [attempt EXCEPT !.stage = attempt.stage + 1, !.at = "queued", !.ran = 0, !.loaded = FALSE]
        BY <1>4, <3>2 DEF FinishSubjob
      <4>2. attempt.stage + 1 \in 1..Stages
        BY <3>2
      <4>3. attempt' = [stage |-> attempt.stage + 1, at |-> "queued", ran |-> 0, loaded |-> FALSE]
        BY <4>1
      <4>4. 0 \in 0..StageTimeout
        OBVIOUS
      <4> QED BY <4>2, <4>3, <4>4 DEF Attempts
    <3> QED BY <3>1, <3>2
  <2>2. ttl' \in [Keys -> 0..StateTtl]
    <3>1. StateTtl \in 0..StateTtl
      OBVIOUS
    <3>2. ttl' = [ttl EXCEPT !["context"] = StateTtl]
      BY <1>4 DEF FinishSubjob
    <3> QED BY <3>1, <3>2 DEF Keys
  <2>3. verdict' \in {"active", "completed"} /\ UNCHANGED <<idle, due, missed>>
    BY <1>4 DEF FinishSubjob, Active
  <2> QED BY <2>1, <2>2, <2>3 DEF Attempts
<1>5. CASE SubjobFails
  BY <1>5 DEF SubjobFails
<1>6. CASE SubjobLost
  BY <1>6 DEF SubjobLost
<1>7. CASE ReaperRound
  <2>1. verdict' \in {verdict, "reaped"} /\ due' = FALSE /\ UNCHANGED <<attempt, idle, missed>>
    BY <1>7 DEF ReaperRound
  <2>2. ttl' \in [Keys -> 0..StateTtl]
    <3>1. StateTtl \in 0..StateTtl
      OBVIOUS
    <3>2. ttl' \in {ttl, [ttl EXCEPT !["generation"] = StateTtl],
                    [ttl EXCEPT !["generation"] = StateTtl, !["subjobs"] = StateTtl]}
      BY <1>7 DEF ReaperRound, RefreshedTtl
    <3> QED BY <3>1, <3>2 DEF Keys
  <2> QED BY <2>1, <2>2
<1>8. CASE MissRound
  <2>1. missed' \in 0..MaxMissed
    BY <1>8 DEF MissRound
  <2> QED BY <1>8, <2>1 DEF MissRound
<1>9. CASE UNCHANGED expiryVars
  BY <1>9 DEF expiryVars
<1> QED BY <1>1, <1>2, <1>3, <1>4, <1>5, <1>6, <1>7, <1>8, <1>9 DEF KeyExpiryStep

LEMMA BudgetKept ==
    ASSUME KeyExpiryTypeOK, Live, KeysSpent, Live', [KeyExpiryStep]_expiryVars
    PROVE  KeysSpent'
<1> DEFINE Past == (attempt.stage - 1) * StageCost
<1> USE ConstantTypes DEF KeyExpiryTypeOK, KeysSpent, Spendable, Live, Active
<1>1. StageCost \in Nat /\ Past \in Nat
  BY DEF StageCost
<1>2. CASE Tick
  <2>1. \A k \in ReaperKeys : StateTtl - ttl'[k] <= StateTtl - ttl[k] + 1
    BY <1>2 DEF Tick, ReaperKeys, Keys
  <2>2. /\ attempt'.stage = attempt.stage /\ attempt'.at = attempt.at /\ missed' = missed
        /\ attempt.at = "started" => attempt'.ran = attempt.ran + 1
        /\ ~due /\ due'
        /\ idle' = IF idle > StaleTimeout THEN idle ELSE idle + 1
    BY <1>2 DEF Tick
  <2>3. Spendable' = Spendable + 1
    BY <1>1, <2>2
  <2>4. Spendable \in Int
    BY <1>1
  <2>5. \A k \in ReaperKeys : ttl[k] \in Nat /\ ttl'[k] \in Nat
    BY <1>2 DEF Tick, ReaperKeys, Keys
  <2> HIDE DEF Spendable
  <2> QED BY <2>1, <2>3, <2>4, <2>5
<1>3. CASE StartSubjob
  <2>1. /\ attempt'.stage = attempt.stage /\ attempt.at = "queued" /\ attempt'.at = "started"
        /\ attempt'.ran = 0 /\ UNCHANGED <<ttl, missed>>
    BY <1>3 DEF StartSubjob
  <2>2. Spendable <= Spendable' /\ Spendable \in Int /\ Spendable' \in Int
    BY <1>1, <2>1
  <2>3. \A k \in ReaperKeys : ttl[k] \in Nat
    BY DEF ReaperKeys, Keys
  <2> HIDE DEF Spendable
  <2> QED BY <2>1, <2>2, <2>3
<1>4. CASE MirrorReport
  BY <1>1, <1>4 DEF MirrorReport, ReaperKeys, Keys
<1>5. CASE FinishSubjob
  <2>1. /\ attempt'.stage = attempt.stage + 1 /\ attempt'.at = "queued"
        /\ attempt.at = "started" /\ attempt.ran <= StageTimeout
        /\ UNCHANGED <<missed, idle, due>>
        /\ \A k \in ReaperKeys : ttl'[k] = ttl[k]
    <3>1. attempt.at = "started" /\ attempt.stage # Stages /\ UNCHANGED <<missed, idle, due>>
      BY <1>5 DEF FinishSubjob
    <3>2. attempt' = [attempt EXCEPT !.stage = attempt.stage + 1, !.at = "queued", !.ran = 0, !.loaded = FALSE]
      BY <1>5, <3>1 DEF FinishSubjob
    <3>3. \A k \in ReaperKeys : ttl'[k] = ttl[k]
      BY <1>5 DEF FinishSubjob, ReaperKeys, Keys
    <3> QED BY <3>1, <3>2, <3>3
  <2>2. (attempt'.stage - 1) * StageCost = Past + StageCost
    BY <1>1, <2>1
  <2>3. Spendable <= Spendable'
    BY <1>1, <2>1, <2>2 DEF StageCost
  <2> QED BY <1>1, <2>1, <2>3 DEF ReaperKeys, Keys
<1>6. CASE ReaperRound
  <2>1. UNCHANGED <<attempt, idle, missed>> /\ ~due'
    BY <1>6 DEF ReaperRound
  <2>2. \A k \in ReaperKeys : ttl'[k] = IF idle > StaleTimeout THEN StateTtl ELSE ttl[k]
    BY <1>6 DEF ReaperRound, RefreshedTtl, IsStaleCandidate, ReaperKeys, Keys
  <2>3. Spendable' \in Nat /\ (idle <= StaleTimeout => Spendable' = Spendable)
    BY <1>1, <2>1
  <2> QED BY <1>1, <2>2, <2>3 DEF ReaperKeys, Keys
<1>7. CASE MissRound
  BY <1>1, <1>7 DEF MissRound, ReaperKeys, Keys
<1>8. CASE UNCHANGED expiryVars
  BY <1>8 DEF expiryVars
<1>9. ~SubjobFails /\ ~SubjobLost
  BY DEF SubjobFails, SubjobLost
<1> QED BY <1>2, <1>3, <1>4, <1>5, <1>6, <1>7, <1>8, <1>9 DEF KeyExpiryStep

LEMMA FirstTypes == KeyExpiryInit => KeyExpiryTypeOK
<1> SUFFICES ASSUME KeyExpiryInit PROVE KeyExpiryTypeOK
  OBVIOUS
<1> USE ConstantTypes
<1>1. 1 \in 1..Stages /\ 0 \in 0..StageTimeout /\ 0 \in 0..StaleTimeout + 1
      /\ StateTtl \in 0..StateTtl /\ MaxMissed \in 0..MaxMissed
  OBVIOUS
<1>2. attempt \in Attempts
  BY <1>1 DEF KeyExpiryInit, Attempts
<1> QED BY <1>1, <1>2 DEF KeyExpiryInit, KeyExpiryTypeOK, Attempts

\* The sub-job at hand, the keys and the clocks keep their types: no TTL is passed, and a
\* run is over before its timeout is.
THEOREM KeyExpiryTypes == KeyExpirySpec => []KeyExpiryTypeOK
<1>1. KeyExpiryTypeOK /\ [KeyExpiryStep]_expiryVars => KeyExpiryTypeOK'
  BY TypesKept
<1> QED BY <1>1, FirstTypes, PTL DEF KeyExpirySpec

\* The stale-job reaper never fails a job that has a sub-job to run, for every timeout and
\* every TTL that is long enough for the chain.
THEOREM LiveIsAlwaysSpared == KeyExpirySpec => []LiveIsSpared
<1> USE ConstantTypes
<1>1. KeyExpiryInit => ExpiryInv
  <2> SUFFICES ASSUME KeyExpiryInit
               PROVE  ExpiryInv
    OBVIOUS
  <2>1. KeyExpiryTypeOK
    BY FirstTypes
  <2>2. KeysSpent
    BY DEF KeyExpiryInit, KeysSpent, Spendable, ReaperKeys, Keys, StageCost
  <2> QED BY <2>1, <2>2 DEF ExpiryInv, LiveIsSpared, KeyExpiryInit
<1>2. ExpiryInv /\ [KeyExpiryStep]_expiryVars => ExpiryInv'
  <2> SUFFICES ASSUME ExpiryInv, [KeyExpiryStep]_expiryVars
               PROVE  ExpiryInv'
    OBVIOUS
  <2> USE DEF ExpiryInv
  <2>1. KeyExpiryTypeOK'
    BY TypesKept
  <2>2. Live' => Live
    BY DEF KeyExpiryStep, Tick, StartSubjob, MirrorReport, FinishSubjob, SubjobFails, SubjobLost,
        ReaperRound, MissRound, expiryVars, Live, Active, KeyExpiryTypeOK
  <2>3. Live' => KeysSpent'
    BY <2>2, BudgetKept
  <2>4. ASSUME ReaperRound, IsStaleCandidate, IsPipelineDead
        PROVE  LiveIsSpared'
    <3>1. Active /\ UNCHANGED attempt
      BY <2>4 DEF ReaperRound, IsStaleCandidate
    <3>2. ~Live
      <4> SUFFICES ASSUME Live PROVE FALSE
        OBVIOUS
      <4>1. ttl["generation"] > 0 /\ ttl["subjobs"] > 0
        BY KeysAreThere DEF ReaperKeys
      <4>2. ttl["generation"] # 0 /\ ttl["subjobs"] # 0
        BY <4>1 DEF KeyExpiryTypeOK, Keys
      <4> QED BY <2>4, <4>2 DEF IsPipelineDead, Live
    <3> QED BY <3>1, <3>2 DEF Live, LiveIsSpared
  <2>5. ASSUME ~(ReaperRound /\ IsStaleCandidate /\ IsPipelineDead)
        PROVE  LiveIsSpared'
    <3>1. CASE UNCHANGED <<attempt, verdict>>
      BY <3>1 DEF LiveIsSpared
    <3>2. CASE ~UNCHANGED <<attempt, verdict>>
      <4>1. Active /\ verdict' # "reaped"
        BY <2>5, <3>2 DEF KeyExpiryStep, Tick, StartSubjob, MirrorReport, FinishSubjob, SubjobFails,
            SubjobLost, ReaperRound, MissRound, expiryVars, Active
      <4> QED BY <4>1 DEF LiveIsSpared
    <3> QED BY <3>1, <3>2
  <2> QED BY <2>1, <2>3, <2>4, <2>5
<1>3. ExpiryInv => LiveIsSpared
  BY DEF ExpiryInv
<1> QED BY <1>1, <1>2, <1>3, PTL DEF KeyExpirySpec

-----------------------------------------------------------------------------
(***************************************************************************)
(* Progress: for any shapes, reports and faults.                           *)
(***************************************************************************)

IsTask(r) ==
    r = [pc |-> r.pc, stage |-> r.stage, last |-> r.last, message |-> r.message,
         heart |-> r.heart, seen |-> r.seen]

\* A heartbeat thread lives in diarize only, and only while it runs.
Heartless(t, r) == r.heart => t = "diarize" /\ r.pc = "running"

SilentInv ==
    /\ task = [t \in TaskNames |-> task[t]]
    /\ \A t \in TaskNames : IsTask(task[t]) /\ Heartless(t, task[t])

-----------------------------------------------------------------------------

LEMMA DiarizeIsATask == "diarize" \in TaskNames /\ "transcribe_align" \in TaskNames
<1>1. 3 \in DOMAIN Tasks /\ 4 \in DOMAIN Tasks /\ Tasks[3] = "transcribe_align" /\ Tasks[4] = "diarize"
  BY DEF Tasks
<1> QED BY <1>1 DEF TaskNames, Range

LEMMA TailIsATask == "llm_correction" \in TaskNames
<1>1. 7 \in DOMAIN Tasks /\ Tasks[7] = "llm_correction"
  BY DEF Tasks
<1> QED BY <1>1 DEF TaskNames, Range

\* What each step leaves a task as.
LEMMA TaskReplaced ==
    ASSUME SilentInv, NEW t \in TaskNames, NEW r, IsTask(r), Heartless(t, r),
           task' = [task EXCEPT ![t] = r]
    PROVE  SilentInv'
<1>1. task' = [u \in TaskNames |-> IF u = t THEN r ELSE task[u]]
  BY DEF SilentInv
<1>2. task' = [u \in TaskNames |-> task'[u]]
  BY <1>1
<1>3. \A u \in TaskNames : task'[u] = IF u = t THEN r ELSE task[u]
  BY <1>1
<1>4. ASSUME NEW u \in TaskNames PROVE IsTask(task'[u]) /\ Heartless(u, task'[u])
  <2>1. CASE u = t
    <3>1. task'[u] = r
      BY <1>3, <2>1
    <3> QED BY <2>1, <3>1
  <2>2. CASE u # t
    <3>1. task'[u] = task[u]
      BY <1>3, <2>2
    <3> QED BY <3>1 DEF SilentInv
  <2> QED BY <2>1, <2>2
<1> QED BY <1>2, <1>4 DEF SilentInv

LEMMA IdleIsSilent ==
    ASSUME NEW t, NEW pc
    PROVE  IsTask(Idle(pc)) /\ Heartless(t, Idle(pc))
BY DEF IsTask, Heartless, Idle

\* The fields a report may change say nothing of the thread.
LEMMA ReporterChanged ==
    ASSUME NEW t, NEW r, IsTask(r), Heartless(t, r), NEW p, NEW m, NEW seen
    PROVE  /\ IsTask([r EXCEPT !.seen = seen]) /\ Heartless(t, [r EXCEPT !.seen = seen])
           /\ IsTask([r EXCEPT !.last = p, !.message = m, !.seen = seen])
           /\ Heartless(t, [r EXCEPT !.last = p, !.message = m, !.seen = seen])
<1>1. [r EXCEPT !.seen = seen] =
        [pc |-> r.pc, stage |-> r.stage, last |-> r.last, message |-> r.message,
         heart |-> r.heart, seen |-> seen]
  BY DEF IsTask
<1>2. [r EXCEPT !.last = p, !.message = m, !.seen = seen] =
        [pc |-> r.pc, stage |-> r.stage, last |-> p, message |-> m,
         heart |-> r.heart, seen |-> seen]
  <2> DEFINE a == [r EXCEPT !.last = p]
             b == [a EXCEPT !.message = m]
             c == [b EXCEPT !.seen = seen]
  <2>1. a = [pc |-> r.pc, stage |-> r.stage, last |-> p, message |-> r.message,
             heart |-> r.heart, seen |-> r.seen]
    BY DEF IsTask
  <2>2. b = [pc |-> r.pc, stage |-> r.stage, last |-> p, message |-> m,
             heart |-> r.heart, seen |-> r.seen]
    <3> HIDE DEF a
    <3> QED BY <2>1
  <2>3. c = [pc |-> r.pc, stage |-> r.stage, last |-> p, message |-> m,
             heart |-> r.heart, seen |-> seen]
    <3> HIDE DEF a, b
    <3> QED BY <2>2
  <2>4. c = [r EXCEPT !.last = p, !.message = m, !.seen = seen]
    OBVIOUS
  <2> HIDE DEF c
  <2> QED BY <2>3, <2>4
<1> QED BY <1>1, <1>2 DEF IsTask, Heartless

LEMMA ReportKeeps ==
    ASSUME SilentInv, NEW t \in TaskNames, NEW r, IsTask(r), Heartless(t, r),
           NEW p, NEW m, NEW elapsed, OnProgress(t, r, p, m, elapsed)
    PROVE  SilentInv'
<1>1. \E seen : \/ task' = [task EXCEPT ![t] = [r EXCEPT !.seen = seen]]
                \/ task' = [task EXCEPT ![t] = [r EXCEPT !.last = p, !.message = m, !.seen = seen]]
  BY DEF OnProgress
<1>2. PICK seen : \/ task' = [task EXCEPT ![t] = [r EXCEPT !.seen = seen]]
                  \/ task' = [task EXCEPT ![t] = [r EXCEPT !.last = p, !.message = m, !.seen = seen]]
  BY <1>1
<1>3. CASE task' = [task EXCEPT ![t] = [r EXCEPT !.seen = seen]]
  <2> DEFINE q == [r EXCEPT !.seen = seen]
  <2>1. IsTask(q) /\ Heartless(t, q)
    BY ReporterChanged
  <2>2. task' = [task EXCEPT ![t] = q]
    BY <1>3
  <2> HIDE DEF q
  <2> QED BY <2>1, <2>2, TaskReplaced
<1>4. CASE task' = [task EXCEPT ![t] = [r EXCEPT !.last = p, !.message = m, !.seen = seen]]
  <2> DEFINE q == [r EXCEPT !.last = p, !.message = m, !.seen = seen]
  <2>1. IsTask(q) /\ Heartless(t, q)
    BY ReporterChanged
  <2>2. task' = [task EXCEPT ![t] = q]
    BY <1>4
  <2> HIDE DEF q
  <2> QED BY <2>1, <2>2, TaskReplaced
<1> QED BY <1>2, <1>3, <1>4

\* A report is written in the name of the task that makes it.
LEMMA ReportIsSigned ==
    ASSUME NEW t, NEW r, NEW p, NEW m, NEW elapsed, OnProgress(t, r, p, m, elapsed)
    PROVE  bar' # bar => bar'.writer = t
BY DEF OnProgress, MaxWrite

-----------------------------------------------------------------------------
(* The steps. *)

LEMMA SilentInit == ProgressInit => SilentInv
<1> SUFFICES ASSUME ProgressInit PROVE SilentInv
  OBVIOUS
<1>1. \A t \in TaskNames : task[t] = Idle("waiting")
  BY DEF ProgressInit
<1>2. task = [t \in TaskNames |-> task[t]]
  BY DEF ProgressInit
<1> QED BY <1>1, <1>2, IdleIsSilent DEF SilentInv

LEMMA StartSilent ==
    ASSUME SilentInv, NEW t \in TaskNames, StartTask(t)
    PROVE  SilentInv'
<1> DEFINE first == IF t = "transcribe_align" THEN "transcribe" ELSE t
           fresh == Idle("running")
           r == [fresh EXCEPT !.stage = first]
<1>1. IsTask(fresh) /\ fresh.pc = "running" /\ fresh.heart = FALSE
  BY DEF Idle, IsTask
<1>2. task' = [task EXCEPT ![t] = r]
  BY DEF StartTask
<1> HIDE DEF first, fresh
<1>3. r = [pc |-> fresh.pc, stage |-> first, last |-> fresh.last, message |-> fresh.message,
           heart |-> fresh.heart, seen |-> fresh.seen]
  BY <1>1 DEF IsTask
<1> HIDE DEF r
<1>4. IsTask(r) /\ Heartless(t, r)
  BY <1>1, <1>3 DEF IsTask, Heartless
<1> QED BY <1>2, <1>4, TaskReplaced

\* A task that fails, or is stopped.
LEMMA IdleSilent ==
    ASSUME SilentInv, NEW t \in TaskNames, NEW pc, task' = [task EXCEPT ![t] = Idle(pc)]
    PROVE  SilentInv'
<1> DEFINE r == Idle(pc)
<1>1. IsTask(r) /\ Heartless(t, r)
  BY IdleIsSilent
<1> HIDE DEF r
<1>2. task' = [task EXCEPT ![t] = r]
  BY DEF r
<1> QED BY <1>1, <1>2, TaskReplaced

LEMMA FinishTranscribeSilent == SilentInv /\ FinishTranscribe => SilentInv'
<1> SUFFICES ASSUME SilentInv, FinishTranscribe PROVE SilentInv'
  OBVIOUS
<1> DEFINE t == "transcribe_align"
           r == [task[t] EXCEPT !.stage = "align"]
<1>1. t \in TaskNames /\ IsTask(task[t]) /\ Heartless(t, task[t])
  BY DiarizeIsATask DEF SilentInv
<1>2. r = [pc |-> task[t].pc, stage |-> "align", last |-> task[t].last, message |-> task[t].message,
           heart |-> task[t].heart, seen |-> task[t].seen]
  BY <1>1 DEF IsTask
<1>3. \E p, m, elapsed : OnProgress(t, r, p, m, elapsed)
  BY DEF FinishTranscribe
<1> HIDE DEF r
<1>4. IsTask(r) /\ Heartless(t, r)
  BY <1>1, <1>2 DEF IsTask, Heartless
<1> QED BY <1>1, <1>3, <1>4, ReportKeeps

LEMMA ReportSilent ==
    ASSUME SilentInv, NEW t \in TaskNames, ReportProgress(t)
    PROVE  SilentInv'
<1>1. \E p, m, elapsed : OnProgress(t, task[t], p, m, elapsed)
  BY DEF ReportProgress
<1> QED BY <1>1, ReportKeeps DEF SilentInv

LEMMA FinishSilent ==
    ASSUME SilentInv, NEW t \in TaskNames, FinishTask(t)
    PROVE  SilentInv'
<1>1. \E p, m, elapsed : OnProgress(t, Idle("ended"), p, m, elapsed)
  BY DEF FinishTask
<1> QED BY <1>1, ReportKeeps, IdleIsSilent

LEMMA HeartbeatSilent == SilentInv /\ Heartbeat => SilentInv'
<1> SUFFICES ASSUME SilentInv, Heartbeat PROVE SilentInv'
  OBVIOUS
<1>1. \E p, m, elapsed : OnProgress("diarize", task["diarize"], p, m, elapsed)
  BY DEF Heartbeat
<1> QED BY <1>1, DiarizeIsATask, ReportKeeps DEF SilentInv

LEMMA ThreadSilent ==
    ASSUME SilentInv, task["diarize"].pc = "running", NEW beats \in BOOLEAN,
           task' = [task EXCEPT !["diarize"] = [task["diarize"] EXCEPT !.heart = beats]]
    PROVE  SilentInv'
<1> DEFINE r == [task["diarize"] EXCEPT !.heart = beats]
<1>1. IsTask(task["diarize"])
  BY DiarizeIsATask DEF SilentInv
<1>2. r = [pc |-> task["diarize"].pc, stage |-> task["diarize"].stage, last |-> task["diarize"].last,
           message |-> task["diarize"].message, heart |-> beats, seen |-> task["diarize"].seen]
  BY <1>1 DEF IsTask
<1>3. task' = [task EXCEPT !["diarize"] = r]
  OBVIOUS
<1> HIDE DEF r
<1>4. IsTask(r) /\ Heartless("diarize", r)
  BY <1>2 DEF IsTask, Heartless
<1> QED BY <1>3, <1>4, DiarizeIsATask, TaskReplaced

LEMMA StartHeartbeatSilent == SilentInv /\ StartHeartbeat => SilentInv'
<1> SUFFICES ASSUME SilentInv, StartHeartbeat PROVE SilentInv'
  OBVIOUS
<1>1. task' = [task EXCEPT !["diarize"] = [task["diarize"] EXCEPT !.heart = TRUE]]
  BY DiarizeIsATask DEF StartHeartbeat, SilentInv
<1> QED BY <1>1, ThreadSilent DEF StartHeartbeat

LEMMA InferenceSilent ==
    ASSUME SilentInv, NEW raises \in BOOLEAN, InferenceEnds(raises)
    PROVE  SilentInv'
<1>1. CASE raises
  <2>1. task' = [task EXCEPT !["diarize"] = Idle("failed")]
    BY <1>1 DEF InferenceEnds
  <2> QED BY <2>1, DiarizeIsATask, IdleSilent
<1>2. CASE ~raises
  <2>1. task' = [task EXCEPT !["diarize"] = [task["diarize"] EXCEPT !.heart = FALSE]]
    BY <1>2, DiarizeIsATask DEF InferenceEnds, SilentInv
  <2> QED BY <2>1, ThreadSilent DEF InferenceEnds
<1> QED BY <1>1, <1>2

\* A step of finalize_failure: the task that failed stays without a thread.
LEMMA FailureSilent ==
    ASSUME SilentInv, NEW t \in TaskNames, NEW pc \in {"canceled", "reported"},
           task[t].pc \in {"failed", "canceled"}, task' = [task EXCEPT ![t] = [task[t] EXCEPT !.pc = pc]]
    PROVE  SilentInv'
<1> DEFINE r == [task[t] EXCEPT !.pc = pc]
<1>1. IsTask(task[t]) /\ Heartless(t, task[t])
  BY DEF SilentInv
<1>2. r = [pc |-> pc, stage |-> task[t].stage, last |-> task[t].last,
           message |-> task[t].message, heart |-> task[t].heart, seen |-> task[t].seen]
  BY <1>1 DEF IsTask
<1>3. task' = [task EXCEPT ![t] = r]
  OBVIOUS
<1> HIDE DEF r
<1>4. IsTask(r) /\ Heartless(t, r)
  BY <1>1, <1>2 DEF IsTask, Heartless
<1> QED BY <1>3, <1>4, TaskReplaced

LEMMA StepSilent == SilentInv /\ [ProgressStep]_progressVars => SilentInv'
<1> SUFFICES ASSUME SilentInv, [ProgressStep]_progressVars PROVE SilentInv'
  OBVIOUS
<1>1. CASE \E t \in TaskNames : StartTask(t) \/ ReportProgress(t) \/ FinishTask(t)
  BY <1>1, StartSilent, ReportSilent, FinishSilent
<1>2. CASE \E t \in TaskNames : FailTask(t) \/ StopTask(t)
  BY <1>2, IdleSilent DEF FailTask, StopTask
<1>3. CASE (\E t \in TaskNames : CancelSiblings(t) \/ ReportFailure(t)) \/ SalvageTranscript
  <2>1. \E t \in TaskNames, pc \in {"canceled", "reported"} :
          /\ task[t].pc \in {"failed", "canceled"}
          /\ task' = [task EXCEPT ![t] = [task[t] EXCEPT !.pc = pc]]
    BY <1>3, TailIsATask DEF SilentInv, CancelSiblings, ReportFailure, SalvageTranscript
  <2> QED BY <2>1, FailureSilent
<1>4. CASE task' = task
  BY <1>4 DEF SilentInv, IsTask, Heartless
<1>5. CASE \E raises \in BOOLEAN : InferenceEnds(raises)
  BY <1>5, InferenceSilent
<1>6. (\E t \in TaskNames : RetireGeneration(t)) \/ ReportCompletion \/ UNCHANGED progressVars => task' = task
  BY DEF RetireGeneration, ReportCompletion, progressVars
<1> QED BY <1>1, <1>2, <1>3, <1>4, <1>5, <1>6, FinishTranscribeSilent, StartHeartbeatSilent, HeartbeatSilent
        DEF ProgressStep

-----------------------------------------------------------------------------
(* The theorem. *)

\* Only the three kinds of report write "processing", and only with the task running.
LEMMA WriterRuns ==
    ASSUME SilentInv, [ProgressStep]_progressVars, bar' # bar, bar'.status = "processing"
    PROVE  task[bar'.writer].pc = "running"
<1>1. CASE \E t \in TaskNames : ReportProgress(t) \/ FinishTask(t)
  <2>1. PICK t \in TaskNames : ReportProgress(t) \/ FinishTask(t)
    BY <1>1
  <2>2. \E r, p, m, elapsed : OnProgress(t, r, p, m, elapsed)
    BY <2>1 DEF ReportProgress, FinishTask
  <2>3. bar'.writer = t
    BY <2>2, ReportIsSigned
  <2> QED BY <2>1, <2>3 DEF ReportProgress, FinishTask
<1>2. CASE FinishTranscribe
  <2>1. \E r, p, m, elapsed : OnProgress("transcribe_align", r, p, m, elapsed)
    BY <1>2 DEF FinishTranscribe
  <2> QED BY <1>2, <2>1, ReportIsSigned DEF FinishTranscribe
<1>3. CASE Heartbeat
  <2>1. \E r, p, m, elapsed : OnProgress("diarize", r, p, m, elapsed)
    BY <1>3 DEF Heartbeat
  <2>2. task["diarize"].pc = "running"
    BY <1>3, DiarizeIsATask DEF Heartbeat, SilentInv, Heartless
  <2> QED BY <2>1, <2>2, ReportIsSigned
<1>4. \A t \in TaskNames : ReportFailure(t) => bar' = bar \/ bar'.status = "failed"
  BY DEF ReportFailure
<1>5. ReportCompletion \/ SalvageTranscript => bar'.status = "completed"
  <2>1. ReportCompletion \/ SalvageTranscript => bar' = [progress |-> One, status |-> "completed", writer |-> ""]
    BY Zenon DEF ReportCompletion, SalvageTranscript
  <2>2. [progress |-> One, status |-> "completed", writer |-> ""].status = "completed"
    OBVIOUS
  <2> QED BY <2>1, <2>2, Zenon
<1>6. /\ StartHeartbeat \/ UNCHANGED progressVars => bar' = bar
      /\ \A t \in TaskNames : StartTask(t) \/ FailTask(t) \/ CancelSiblings(t)
                              \/ RetireGeneration(t) \/ StopTask(t) => bar' = bar
      /\ \A raises \in BOOLEAN : InferenceEnds(raises) => bar' = bar
  BY DEF StartHeartbeat, StartTask, FailTask, CancelSiblings, RetireGeneration, StopTask, InferenceEnds, progressVars
<1> QED BY <1>1, <1>2, <1>3, <1>4, <1>5, <1>6 DEF ProgressStep

\* Whatever the stages report and wherever faults strike, the bar is moved by running
\* tasks only: the heartbeat thread never outlives the call of diarize it belongs to.
THEOREM EndedTaskAlwaysSilent == ProgressSpec => EndedTaskIsSilent
<1>1. SilentInv /\ [ProgressStep]_progressVars =>
        [bar' # bar /\ bar'.status = "processing" => task[bar'.writer].pc = "running"]_progressVars
  BY WriterRuns
<1> QED BY <1>1, SilentInit, StepSilent, PTL DEF ProgressSpec, EndedTaskIsSilent

-----------------------------------------------------------------------------
(* The bands. *)

\* Where the stages stand in the order of the bands.
LEMMA BandPlaces ==
    /\ Range(BandOrder) = {"download", "preprocess", "transcribe", "align", "diarize",
                           "assign_speakers", "postprocess", "llm_correction"}
    /\ \A k \in 1..8 : BandOrder[k] \in Range(BandOrder) /\ Place(BandOrder[k]) = k
    /\ \A stage \in Range(BandOrder) : Place(stage) \in 1..8 /\ BandOrder[Place(stage)] = stage
    /\ Place("transcribe") = 3 /\ Place("align") = 4
<1>1. Range(BandOrder) = {"download", "preprocess", "transcribe", "align", "diarize",
                          "assign_speakers", "postprocess", "llm_correction"}
  <2>1. DOMAIN BandOrder = {1, 2, 3, 4, 5, 6, 7, 8}
    BY DEF BandOrder
  <2> QED BY <2>1 DEF Range, BandOrder
<1>2. \A k \in 1..8 : Place(BandOrder[k]) = k
  <2> SUFFICES ASSUME NEW k \in 1..8 PROVE Place(BandOrder[k]) = k
    OBVIOUS
  <2>1. \A j \in 1..8 : BandOrder[j] = BandOrder[k] <=> j = k
    BY DEF BandOrder
  <2> QED BY <2>1 DEF Place
<1>3. \A stage \in Range(BandOrder) : \E k \in 1..8 : stage = BandOrder[k]
  BY <1>1 DEF BandOrder
<1>4. BandOrder[3] = "transcribe" /\ BandOrder[4] = "align" /\ \A k \in 1..8 : BandOrder[k] \in Range(BandOrder)
  BY <1>1 DEF BandOrder
<1>5. Place(BandOrder[3]) = 3 /\ Place(BandOrder[4]) = 4
  BY <1>2
<1> QED BY <1>1, <1>2, <1>3, <1>4, <1>5

\* What a stage adds to the cursor of a shape.
Added(j, s) == IF HasBand(BandOrder[j], s) THEN Weight(BandOrder[j], s) ELSE 0

\* The weights of a shape: no stage is without one, and the cursor adds them up.
LEMMA Weights ==
    ASSUME NEW s \in Shapes
    PROVE  /\ Added(1, s) = (IF s.download THEN 15 ELSE 0) /\ Added(2, s) = 5
           /\ Added(3, s) = 50 /\ Added(4, s) = 10
           /\ Added(5, s) = (IF s.diarize THEN 25 ELSE 0) /\ Added(6, s) = 5
           /\ Added(7, s) = (IF s.llm THEN 2 ELSE 5)
           /\ Added(8, s) = (IF s.llm THEN 8 ELSE 0)
           /\ \A j \in 1..8 : HasBand(BandOrder[j], s) <=>
                  (j = 1 => s.download) /\ (j = 5 => s.diarize) /\ (j = 8 => s.llm)
<1>1. /\ BandOrder[1] = "download" /\ BandOrder[2] = "preprocess" /\ BandOrder[3] = "transcribe"
      /\ BandOrder[4] = "align" /\ BandOrder[5] = "diarize" /\ BandOrder[6] = "assign_speakers"
      /\ BandOrder[7] = "postprocess" /\ BandOrder[8] = "llm_correction"
  BY DEF BandOrder
<1>2. \A j \in 1..8 : HasBand(BandOrder[j], s) <=>
                  (j = 1 => s.download) /\ (j = 5 => s.diarize) /\ (j = 8 => s.llm)
  BY <1>1 DEF HasBand
<1>3. /\ Weight("download", s) = 15 /\ Weight("preprocess", s) = 5 /\ Weight("transcribe", s) = 50
      /\ Weight("align", s) = 10 /\ Weight("diarize", s) = 25 /\ Weight("assign_speakers", s) = 5
      /\ Weight("postprocess", s) = (IF s.llm THEN 2 ELSE 5) /\ Weight("llm_correction", s) = 8
  BY DEF Weight, RelativeWeights
<1> QED BY <1>1, <1>2, <1>3 DEF Added

LEMMA CursorSteps ==
    ASSUME NEW s \in Shapes
    PROVE  /\ Cursor(0, s) = 0
           /\ \A k \in 1..8 : Cursor(k, s) = Cursor(k - 1, s) + Added(k, s)
           /\ \A k \in 0..8 : Cursor(k, s) \in Nat
<1> DEFINE a(j) == Added(j, s)
           c(k) == Cursor(k, s)
<1>1. /\ a(1) \in Nat /\ a(2) \in Nat /\ a(3) \in Nat /\ a(4) \in Nat
      /\ a(5) \in Nat /\ a(6) \in Nat /\ a(7) \in Nat /\ a(8) \in Nat
  BY Weights
<1> HIDE DEF a, c
<1>2. /\ c(0) = 0 /\ c(1) = c(0) + a(1) /\ c(2) = c(1) + a(2) /\ c(3) = c(2) + a(3) /\ c(4) = c(3) + a(4)
      /\ c(5) = c(4) + a(5) /\ c(6) = c(5) + a(6) /\ c(7) = c(6) + a(7) /\ c(8) = c(7) + a(8)
  <2>1. c(0) = 0 + 0 + 0 + 0 + 0 + 0 + 0 + 0
    BY DEF Cursor, Added, a, c
  <2>2. c(1) = a(1) + 0 + 0 + 0 + 0 + 0 + 0 + 0
    BY DEF Cursor, Added, a, c
  <2>3. c(2) = a(1) + a(2) + 0 + 0 + 0 + 0 + 0 + 0
    BY DEF Cursor, Added, a, c
  <2>4. c(3) = a(1) + a(2) + a(3) + 0 + 0 + 0 + 0 + 0
    BY DEF Cursor, Added, a, c
  <2>5. c(4) = a(1) + a(2) + a(3) + a(4) + 0 + 0 + 0 + 0
    BY DEF Cursor, Added, a, c
  <2>6. c(5) = a(1) + a(2) + a(3) + a(4) + a(5) + 0 + 0 + 0
    BY DEF Cursor, Added, a, c
  <2>7. c(6) = a(1) + a(2) + a(3) + a(4) + a(5) + a(6) + 0 + 0
    BY DEF Cursor, Added, a, c
  <2>8. c(7) = a(1) + a(2) + a(3) + a(4) + a(5) + a(6) + a(7) + 0
    BY DEF Cursor, Added, a, c
  <2>9. c(8) = a(1) + a(2) + a(3) + a(4) + a(5) + a(6) + a(7) + a(8)
    BY DEF Cursor, Added, a, c
  <2> QED BY <1>1, <2>1, <2>2, <2>3, <2>4, <2>5, <2>6, <2>7, <2>8, <2>9, SMT
<1>3. /\ c(0) \in Nat /\ c(1) \in Nat /\ c(2) \in Nat /\ c(3) \in Nat /\ c(4) \in Nat
      /\ c(5) \in Nat /\ c(6) \in Nat /\ c(7) \in Nat /\ c(8) \in Nat
  BY <1>1, <1>2, SMT
<1>4. \A k \in 1..8 : c(k) = c(k - 1) + a(k)
  BY <1>2, SMT
<1>5. \A k \in 0..8 : c(k) \in Nat
  BY <1>3, SMT
<1> QED BY <1>2, <1>4, <1>5 DEF a, c

\* The totals of the eight shapes.
Totals == {75, 80, 90, 95, 100, 105, 115, 120}

LEMMA TotalsOfShapes == \A s \in Shapes : TotalWeight(s) \in Totals
<1> SUFFICES ASSUME NEW s \in Shapes PROVE TotalWeight(s) \in Totals
  OBVIOUS
<1>1. TotalWeight(s) = Added(1, s) + Added(2, s) + Added(3, s) + Added(4, s) + Added(5, s) + Added(6, s)
                       + Added(7, s) + Added(8, s)
  BY DEF TotalWeight, Cursor, Added
<1> QED BY <1>1, Weights DEF Totals

\* Division: what the quotient is, and how far apart two of them are.
LEMMA Quotient ==
    ASSUME NEW x \in Nat, NEW n \in Nat, n > 0
    PROVE  /\ x \div n \in Nat /\ n * (x \div n) <= x /\ x < n * (x \div n) + n
           /\ \A q \in Nat : n * q <= x /\ x < n * q + n => x \div n = q
<1>1. x \div n \in Nat /\ n * (x \div n) <= x /\ x < n * (x \div n) + n
  BY SMT
<1>2. ASSUME NEW q \in Nat, n * q <= x, x < n * q + n PROVE x \div n = q
  BY <1>2, SMT
<1> QED BY <1>1, <1>2

LEMMA QuotientsApart ==
    ASSUME NEW x \in Nat, NEW y \in Nat, NEW n \in Nat, n > 0, NEW k \in Nat, x + k * n <= y
    PROVE  x \div n + k <= y \div n
<1> DEFINE p == x \div n
           q == y \div n
<1>1. p \in Nat /\ n * p <= x /\ q \in Nat /\ y < n * q + n
  BY Quotient
<1> HIDE DEF p, q
<1>2. n * (p + k) < n * (q + 1)
  BY <1>1, SMT
<1>3. p + k < q + 1
  BY <1>1, <1>2, SMT
<1> QED BY <1>1, <1>3, SMT DEF p, q

\* Rounding keeps apart what is two units of weight apart.
LEMMA Shares ==
    ASSUME NEW total \in Nat, 0 < total, total <= 2000
    PROVE  /\ Share(0, total) = 0 /\ Share(total, total) = One
           /\ \A c \in Nat : Share(c, total) \in Nat
           /\ \A c, d \in Nat : c <= d => Share(c, total) <= Share(d, total)
           /\ \A c, d \in Nat : c + 2 <= d => Share(c, total) < Share(d, total)
           /\ \A c, d \in Nat : c + 10 <= d => Share(c, total) + MinDelta <= Share(d, total)
<1> DEFINE n == 2 * total
           x(c) == 20000 * c + total
<1>1. n \in Nat /\ n > 0 /\ n <= 4000 /\ \A c \in Nat : x(c) \in Nat
  BY SMT
<1>2. x(0) \div n = 0 /\ x(total) \div n = 10000
  BY <1>1, Quotient, SMT
<1>3. \A c \in Nat : x(c) \div n \in Nat
  BY <1>1, Quotient, SMT
<1>4. \A c, d \in Nat : c <= d => x(c) \div n <= x(d) \div n
  <2> SUFFICES ASSUME NEW c \in Nat, NEW d \in Nat, c <= d PROVE x(c) \div n + 0 <= x(d) \div n
    BY <1>3, SMT
  <2>1. x(c) + 0 * n <= x(d)
    BY SMT
  <2> HIDE DEF x, n
  <2> QED BY <1>1, <2>1, QuotientsApart
<1>5. \A c, d \in Nat : c + 2 <= d => x(c) \div n + 1 <= x(d) \div n
  <2> SUFFICES ASSUME NEW c \in Nat, NEW d \in Nat, c + 2 <= d PROVE x(c) \div n + 1 <= x(d) \div n
    OBVIOUS
  <2>1. x(c) + 1 * n <= x(d)
    BY SMT
  <2> HIDE DEF x, n
  <2> QED BY <1>1, <2>1, QuotientsApart
<1>6. \A c, d \in Nat : c + 10 <= d => x(c) \div n + 50 <= x(d) \div n
  <2> SUFFICES ASSUME NEW c \in Nat, NEW d \in Nat, c + 10 <= d PROVE x(c) \div n + 50 <= x(d) \div n
    OBVIOUS
  <2>1. x(c) + 50 * n <= x(d)
    BY SMT
  <2> HIDE DEF x, n
  <2> QED BY <1>1, <2>1, QuotientsApart
<1>7. Share(0, total) = 0 /\ Share(total, total) = One
  <2>1. Share(0, total) = 100 * (x(0) \div n) /\ Share(total, total) = 100 * (x(total) \div n)
    BY DEF Share
  <2> HIDE DEF x, n
  <2> QED BY <1>2, <2>1, SMT DEF One
<1>8. ASSUME NEW c \in Nat, NEW d \in Nat
      PROVE  /\ Share(c, total) \in Nat
             /\ c <= d => Share(c, total) <= Share(d, total)
             /\ c + 2 <= d => Share(c, total) < Share(d, total)
             /\ c + 10 <= d => Share(c, total) + MinDelta <= Share(d, total)
  <2> DEFINE p == x(c) \div n
             q == x(d) \div n
  <2>1. Share(c, total) = 100 * p /\ Share(d, total) = 100 * q
    BY DEF Share
  <2>2. /\ p \in Nat /\ q \in Nat
        /\ c <= d => p <= q
        /\ c + 2 <= d => p + 1 <= q
        /\ c + 10 <= d => p + 50 <= q
    BY <1>3, <1>4, <1>5, <1>6
  <2> HIDE DEF p, q
  <2> QED BY <2>1, <2>2, SMT DEF MinDelta
<1> QED BY <1>7, <1>8

\* The band of a stage of a shape, and of a name without one.
LEMMA BandOf ==
    ASSUME NEW s \in Shapes, NEW stage \in StageNames
    PROVE  /\ stage \in Range(BandOrder) /\ HasBand(stage, s) =>
                 /\ Bands[s][stage][1] = Share(Cursor(Place(stage) - 1, s), TotalWeight(s))
                 /\ Bands[s][stage][2] = Share(Cursor(Place(stage), s), TotalWeight(s))
           /\ ~(stage \in Range(BandOrder) /\ HasBand(stage, s)) =>
                 Bands[s][stage][1] = 0 /\ Bands[s][stage][2] = One
BY DEF Bands

\* The cursor only rises, and by the weights of what it passes.
LEMMA CursorRises ==
    ASSUME NEW s \in Shapes
    PROVE  /\ \A k \in 1..8 : Cursor(k - 1, s) <= Cursor(k, s)
           /\ \A k \in 1..8 : HasBand(BandOrder[k], s) => Cursor(k - 1, s) + 2 <= Cursor(k, s)
           /\ Cursor(3, s) + 10 <= Cursor(4, s)
           /\ \A j, k \in 0..8 : j <= k => Cursor(j, s) <= Cursor(k, s)
           /\ \A j, k \in 0..8 : /\ j <= k
                                 /\ \A i \in (j + 1)..k : ~HasBand(BandOrder[i], s)
                                 => Cursor(j, s) = Cursor(k, s)
<1> DEFINE c(k) == Cursor(k, s)
           a(k) == Added(k, s)
           has(k) == HasBand(BandOrder[k], s)
<1>2. \A k \in 1..8 : c(k) = c(k - 1) + a(k) /\ c(k) \in Nat /\ c(k - 1) \in Nat
  <2>1. \A k \in 1..8 : k \in 0..8 /\ k - 1 \in 0..8
    BY SMT
  <2> QED BY <2>1, CursorSteps
<1>3. a(4) = 10
  BY Weights
<1>4. \A k \in 1..8 : a(k) \in Nat /\ (has(k) => a(k) >= 2) /\ (~has(k) => a(k) = 0)
  <2> SUFFICES ASSUME NEW k \in {1, 2, 3, 4, 5, 6, 7, 8}
               PROVE  a(k) \in Nat /\ (has(k) => a(k) >= 2) /\ (~has(k) => a(k) = 0)
    BY SMT
  <2> QED BY Weights, SMT DEF Added
<1> HIDE DEF c, a, has
<1>5. \A k \in 1..8 : c(k - 1) <= c(k) /\ (has(k) => c(k - 1) + 2 <= c(k)) /\ (~has(k) => c(k - 1) = c(k))
  BY <1>2, <1>4, SMT
<1>6. c(3) + 10 <= c(4)
  <2>1. c(4) = c(4 - 1) + a(4) /\ c(4 - 1) \in Nat /\ 4 - 1 = 3
    BY <1>2, SMT
  <2> QED BY <2>1, <1>3, SMT
<1>7. /\ c(0) <= c(1) /\ c(1) <= c(2) /\ c(2) <= c(3) /\ c(3) <= c(4) /\ c(4) <= c(5) /\ c(5) <= c(6)
      /\ c(6) <= c(7) /\ c(7) <= c(8)
      /\ c(0) \in Nat /\ c(1) \in Nat /\ c(2) \in Nat /\ c(3) \in Nat /\ c(4) \in Nat
      /\ c(5) \in Nat /\ c(6) \in Nat /\ c(7) \in Nat /\ c(8) \in Nat
  BY <1>2, <1>5, SMT
<1>8. /\ has(1) \/ c(0) = c(1)
      /\ has(2) \/ c(1) = c(2)
      /\ has(3) \/ c(2) = c(3)
      /\ has(4) \/ c(3) = c(4)
      /\ has(5) \/ c(4) = c(5)
      /\ has(6) \/ c(5) = c(6)
      /\ has(7) \/ c(6) = c(7)
      /\ has(8) \/ c(7) = c(8)
  BY <1>2, <1>5, SMT
<1>9. \A j, k \in 0..8 : j <= k => c(j) <= c(k)
  BY <1>7, SMT
<1>10. \A j, k \in 0..8 : j <= k /\ (\A i \in (j + 1)..k : ~has(i)) => c(j) = c(k)
  BY <1>7, <1>8, SMT
<1> QED BY <1>5, <1>6, <1>9, <1>10 DEF c, has

\* The end of a stage's band on the bar of this job.
BandEnd(stage) == Bands[shape][stage][2]

LEMMA OneIsNat == One \in Nat /\ 0 \in 0..One /\ One \in 0..One
<1>1. One \in Nat
  BY SMT DEF One
<1> QED BY <1>1

LEMMA StageNamesAre ==
    /\ TaskNames = {"download", "preprocess", "transcribe_align", "diarize", "assign_speakers",
                    "postprocess", "llm_correction"}
    /\ Range(BandOrder) \subseteq StageNames
    /\ \A t \in TaskNames : t \in StageNames /\ LastBand(t) \in StageNames
<1>1. DOMAIN Tasks = {1, 2, 3, 4, 5, 6, 7}
  BY DEF Tasks
<1>2. TaskNames = {"download", "preprocess", "transcribe_align", "diarize", "assign_speakers",
                   "postprocess", "llm_correction"}
  BY <1>1 DEF TaskNames, Range, Tasks
<1> QED BY <1>2, BandPlaces DEF StageNames, LastBand

\* What the reports need to know of a band.
LEMMA BandBounds ==
    ASSUME NEW s \in Shapes
    PROVE  /\ \A stage \in StageNames :
                 /\ Bands[s][stage][1] \in 0..One /\ Bands[s][stage][2] \in 0..One
                 /\ Bands[s][stage][1] <= Bands[s][stage][2]
           /\ Bands[s]["transcribe"][2] + MinDelta <= Bands[s]["align"][2]
<1> DEFINE total == TotalWeight(s)
           sh(c) == Share(c, total)
<1>1. total \in Nat /\ 0 < total /\ total <= 2000
  BY TotalsOfShapes, SMT DEF Totals
<1>2. \A k \in 0..8 : Cursor(k, s) \in Nat /\ Cursor(k, s) <= total
  BY CursorSteps, CursorRises DEF TotalWeight
<1>9. /\ sh(0) = 0 /\ sh(total) = One
      /\ \A c \in Nat : sh(c) \in Nat
      /\ \A c, d \in Nat : c <= d => sh(c) <= sh(d)
      /\ \A c, d \in Nat : c + 2 <= d => sh(c) < sh(d)
      /\ \A c, d \in Nat : c + 10 <= d => sh(c) + MinDelta <= sh(d)
  BY <1>1, Shares
<1>3. \A k \in 0..8 : sh(Cursor(k, s)) \in 0..One
  <2> SUFFICES ASSUME NEW k \in 0..8 PROVE sh(Cursor(k, s)) \in 0..One
    OBVIOUS
  <2>3. Cursor(k, s) \in Nat /\ total \in Nat /\ Cursor(k, s) <= total
    BY <1>1, <1>2
  <2> HIDE DEF sh
  <2>1. sh(Cursor(k, s)) \in Nat /\ sh(Cursor(k, s)) <= sh(total) /\ sh(total) = One
    BY <1>9, <2>3
  <2>2. One \in Nat
    BY OneIsNat
  <2> HIDE DEF total
  <2> QED BY <2>1, <2>2, SMT
<1>4. ASSUME NEW stage \in StageNames
      PROVE  /\ Bands[s][stage][1] \in 0..One /\ Bands[s][stage][2] \in 0..One
             /\ Bands[s][stage][1] <= Bands[s][stage][2]
  <2>1. CASE stage \in Range(BandOrder) /\ HasBand(stage, s)
    <3> DEFINE k == Place(stage)
    <3>1. k \in 1..8
      BY <2>1, BandPlaces
    <3>2. k - 1 \in 0..8 /\ k \in 0..8
      BY <3>1, SMT
    <3>3. Bands[s][stage][1] = sh(Cursor(k - 1, s)) /\ Bands[s][stage][2] = sh(Cursor(k, s))
      BY <2>1, BandOf
    <3>4. Cursor(k - 1, s) <= Cursor(k, s)
      BY <3>1, CursorRises
    <3> HIDE DEF sh, k
    <3>5. sh(Cursor(k - 1, s)) <= sh(Cursor(k, s))
      BY <1>2, <1>9, <3>2, <3>4
    <3> QED BY <1>3, <3>2, <3>3, <3>5
  <2>2. CASE ~(stage \in Range(BandOrder) /\ HasBand(stage, s))
    <3>1. Bands[s][stage][1] = 0 /\ Bands[s][stage][2] = One
      BY <2>2, BandOf
    <3>3. One \in Nat
      BY OneIsNat
    <3>2. 0 \in 0..One /\ One \in 0..One /\ 0 <= One
      BY <3>3, SMT
    <3> QED BY <3>1, <3>2
  <2> QED BY <2>1, <2>2
<1>5. Bands[s]["transcribe"][2] + MinDelta <= Bands[s]["align"][2]
  <2>1. "transcribe" \in Range(BandOrder) /\ "align" \in Range(BandOrder)
    BY BandPlaces
  <2>2. /\ Bands[s]["transcribe"][2] = sh(Cursor(3, s)) /\ Bands[s]["align"][2] = sh(Cursor(4, s))
    BY <2>1, BandOf, BandPlaces, StageNamesAre DEF HasBand
  <2>3. Cursor(3, s) \in Nat /\ Cursor(4, s) \in Nat /\ Cursor(3, s) + 10 <= Cursor(4, s)
    BY CursorRises, CursorSteps
  <2>4. sh(Cursor(3, s)) + MinDelta <= sh(Cursor(4, s))
    BY <1>9, <2>3
  <2> HIDE DEF sh
  <2> QED BY <2>2, <2>4
<1> QED BY <1>4, <1>5

\* In every shape the bands partition the bar.
LEMMA Partition ==
    ASSUME NEW s \in Shapes,
           NEW k \in 1..8, HasBand(BandOrder[k], s)
    PROVE  LET band(i) == Bands[s][BandOrder[i]]
               places == {i \in 1..8 : HasBand(BandOrder[i], s)}
           IN  /\ band(k)[1] < band(k)[2]
               /\ (\A j \in places : j >= k) => band(k)[1] = 0
               /\ (\A j \in places : j <= k) => band(k)[2] = One
               /\ \A j \in places : j < k /\ (\A i \in places : i <= j \/ i >= k)
                                      => band(k)[1] = band(j)[2]
<1> DEFINE total == TotalWeight(s)
           sh(u) == Share(u, total)
           c(i) == Cursor(i, s)
           has(i) == HasBand(BandOrder[i], s)
           places == {i \in 1..8 : has(i)}
<1>1. total \in Nat /\ 0 < total /\ total <= 2000
  BY TotalsOfShapes, SMT DEF Totals
<1>2. \A i \in 1..8 : has(i) => Bands[s][BandOrder[i]][1] = sh(c(i - 1)) /\ Bands[s][BandOrder[i]][2] = sh(c(i))
  BY BandOf, BandPlaces, StageNamesAre
<1>9. /\ sh(0) = 0 /\ sh(total) = One
      /\ \A u \in Nat : sh(u) \in Nat
      /\ \A u, v \in Nat : u <= v => sh(u) <= sh(v)
      /\ \A u, v \in Nat : u + 2 <= v => sh(u) < sh(v)
      /\ \A u, v \in Nat : u + 10 <= v => sh(u) + MinDelta <= sh(v)
  BY <1>1, Shares
<1>3. k - 1 \in 0..8 /\ k \in 0..8
  BY SMT
<1>4. \A i, j \in 0..8 : i <= j /\ (\A m \in (i + 1)..j : ~has(m)) => c(i) = c(j)
  BY CursorRises
<1>5. sh(c(k - 1)) < sh(c(k))
  <2>1. c(k - 1) \in Nat /\ c(k) \in Nat /\ c(k - 1) + 2 <= c(k)
    BY <1>3, CursorSteps, CursorRises
  <2> HIDE DEF sh, c
  <2> QED BY <1>9, <2>1
<1>6. ASSUME \A j \in places : j >= k PROVE sh(c(k - 1)) = 0
  <2>1. \A m \in 1..(k - 1) : m \in 1..8 /\ ~(m >= k)
    BY SMT
  <2>2. \A m \in 1..(k - 1) : ~has(m)
    BY <1>6, <2>1
  <2>3. c(0) = c(k - 1)
    <3>1. \A m \in (0 + 1)..(k - 1) : ~has(m)
      BY <2>2
    <3>2. 0 \in 0..8 /\ 0 <= k - 1
      BY SMT
    <3> QED BY <1>3, <1>4, <3>1, <3>2
  <2> QED BY <1>9, <2>3, CursorSteps
<1>7. ASSUME \A j \in places : j <= k PROVE sh(c(k)) = One
  <2>1. \A m \in (k + 1)..8 : m \in 1..8 /\ ~(m <= k)
    BY SMT
  <2>2. \A m \in (k + 1)..8 : ~has(m)
    BY <1>7, <2>1
  <2>3. 8 \in 0..8 /\ k <= 8
    BY SMT
  <2>4. c(k) = c(8)
    BY <1>3, <1>4, <2>2, <2>3
  <2> QED BY <1>9, <2>4 DEF TotalWeight
<1>8. ASSUME NEW j \in places, j < k, \A i \in places : i <= j \/ i >= k
      PROVE  sh(c(k - 1)) = sh(c(j))
  <2>1. \A m \in (j + 1)..(k - 1) : m \in 1..8 /\ ~(m <= j \/ m >= k)
    BY SMT
  <2>2. \A m \in (j + 1)..(k - 1) : ~has(m)
    BY <1>8, <2>1
  <2>3. j \in 0..8 /\ j <= k - 1
    BY <1>8, SMT
  <2>4. c(j) = c(k - 1)
    BY <1>3, <1>4, <2>2, <2>3
  <2> QED BY <2>4
<1> HIDE DEF sh, c, total
<1> QED BY <1>2, <1>5, <1>6, <1>7, <1>8

-----------------------------------------------------------------------------
(***************************************************************************)
(* What the bar shows: the invariant has, beside the types, how far the    *)
(* reporter of a running task has come and what finished tasks have left.  *)
(***************************************************************************)

Typed(r) ==
    r \in [pc : {"waiting", "running", "ended", "failed", "canceled", "reported", "stopped"},
          stage : StageNames \cup {""}, last : -1..One,
          message : {"", "run", "done", "beat"}, heart : BOOLEAN, seen : BOOLEAN]

\* A running task has reported nothing beyond the band it is in, and its last message
\* is that of a finished stage only between the two stages of transcribe_align.
Reporting(t, r) ==
    r.pc = "running" =>
        /\ r.stage \in StageNames /\ r.last <= BandEnd(r.stage)
        /\ r.stage # LastBand(t) => t = "transcribe_align" /\ r.stage = "transcribe"
        /\ r.message = "done" =>
              t = "transcribe_align" /\ r.stage = "align" /\ r.last = BandEnd("transcribe")

HasFailed(pc) == pc \in {"failed", "canceled", "reported"}

\* What a finished task has left on the bar.
Shown(t, r, progress) ==
    r.pc = "ended" /\ r.seen => progress >= BandEnd(LastBand(t))

BarInv ==
    /\ ProgressTypeOK
    /\ \A t \in TaskNames : Reporting(t, task[t])
    /\ ~AnyFailed => \A t \in TaskNames : Shown(t, task[t], bar.progress)

LEMMA BarInit == ProgressInit => BarInv
<1> SUFFICES ASSUME ProgressInit PROVE BarInv
  OBVIOUS
<1>1. \A t \in TaskNames : task[t] = Idle("waiting")
  BY DEF ProgressInit
<1>2. One \in Nat
  BY OneIsNat
<1>3. Typed(Idle("waiting")) /\ Idle("waiting").pc = "waiting"
  BY <1>2, SMT DEF Typed, Idle
<1>4. ProgressTypeOK
  <2>1. bar \in [progress : 0..One, status : {"queued", "processing", "failed", "completed"},
                writer : TaskNames \cup {""}]
    <3>1. 0 \in 0..One
      BY <1>2
    <3> QED BY <3>1 DEF ProgressInit
  <2>2. reportFaults \in 0..MaxReportFaults /\ retired \in BOOLEAN /\ shape \in Shapes
    <3>1. MaxReportFaults \in 0..MaxReportFaults
      BY ProgressAssumption
    <3> QED BY <3>1 DEF ProgressInit
  <2> QED BY <1>1, <1>3, <2>1, <2>2 DEF ProgressInit, ProgressTypeOK, Typed
<1>5. \A t \in TaskNames : Reporting(t, task[t]) /\ Shown(t, task[t], bar.progress)
  BY <1>1, <1>3 DEF Reporting, Shown
<1> QED BY <1>4, <1>5 DEF BarInv

LEMMA StaysShown ==
    ASSUME NEW t, NEW r, NEW p \in 0..One, NEW q \in 0..One, BandEnd(LastBand(t)) \in 0..One,
           q >= p, Shown(t, r, p)
    PROVE  Shown(t, r, q)
<1> DEFINE end == BandEnd(LastBand(t))
<1>1. p \in Int /\ q \in Int /\ end \in Int
  BY OneIsNat
<1> HIDE DEF end
<1>2. p >= end => q >= end
  BY <1>1
<1> QED BY <1>2 DEF Shown, end

\* A step that moves one task, and with it perhaps the bar.
LEMMA TaskMoves ==
    ASSUME BarInv, NEW t \in TaskNames, NEW r, Typed(r), Reporting(t, r),
           task' = [task EXCEPT ![t] = r], shape' = shape,
           bar'.progress \in 0..One, bar' \in [progress : 0..One,
               status : {"queued", "processing", "failed", "completed"}, writer : TaskNames \cup {""}],
           retired' \in BOOLEAN, reportFaults' \in 0..MaxReportFaults,
           HasFailed(task[t].pc) => HasFailed(r.pc),
           ~AnyFailed' => Shown(t, r, bar'.progress) /\ bar'.progress >= bar.progress
    PROVE  BarInv'
<1>1. /\ task \in [TaskNames ->
            [pc : {"waiting", "running", "ended", "failed", "canceled", "reported", "stopped"},
             stage : StageNames \cup {""}, last : -1..One,
             message : {"", "run", "done", "beat"}, heart : BOOLEAN, seen : BOOLEAN]]
      /\ shape \in Shapes
  BY DEF BarInv, ProgressTypeOK
<1>2. \A u \in TaskNames : task'[u] = IF u = t THEN r ELSE task[u]
  BY <1>1
<1>3. ProgressTypeOK'
  BY <1>1, <1>2 DEF ProgressTypeOK, Typed
<1>4. \A u \in TaskNames : Reporting(u, task[u])'
  <2> SUFFICES ASSUME NEW u \in TaskNames PROVE Reporting(u, task[u])'
    OBVIOUS
  <2>1. BandEnd(task[u].stage)' = BandEnd(task'[u].stage) /\ BandEnd("transcribe")' = BandEnd("transcribe")
    BY DEF BandEnd
  <2>2. Reporting(u, task'[u])
    BY <1>2 DEF BarInv
  <2> QED BY <2>1, <2>2 DEF Reporting
<1>5. AnyFailed => AnyFailed'
  BY <1>2 DEF AnyFailed, HasFailed
<1>6. ASSUME ~AnyFailed' PROVE \A u \in TaskNames : Shown(u, task[u], bar.progress)'
  <2> SUFFICES ASSUME NEW u \in TaskNames PROVE Shown(u, task[u], bar.progress)'
    OBVIOUS
  <2>1. BandEnd(LastBand(u))' = BandEnd(LastBand(u)) /\ BandEnd(LastBand(u)) \in 0..One
    BY <1>1, StageNamesAre, BandBounds DEF BandEnd
  <2>2. Shown(u, task[u], bar.progress) /\ bar.progress \in 0..One
    BY <1>5, <1>6 DEF BarInv, ProgressTypeOK
  <2>3. One \in Nat
    BY OneIsNat
  <2>4. Shown(u, task'[u], bar'.progress)
    <3>1. CASE u = t
      BY <1>2, <1>6, <3>1
    <3>2. CASE u # t
      <4>1. task'[u] = task[u]
        BY <1>2, <3>2
      <4>2. bar'.progress >= bar.progress
        BY <1>6
      <4> QED BY <2>1, <2>2, <4>1, <4>2, StaysShown
    <3> QED BY <3>1, <3>2
  <2> QED BY <2>1, <2>4 DEF Shown
<1> QED BY <1>3, <1>4, <1>6 DEF BarInv

BarTyped(b) == b \in [progress : 0..One, status : {"queued", "processing", "failed", "completed"},
                      writer : TaskNames \cup {""}]

\* What a report leaves of the task that makes it: dropped or not, and accepted.
Passed(r, seen) == [r EXCEPT !.seen = seen]
Recorded(r, p, m, seen) == [r EXCEPT !.last = p, !.message = m, !.seen = seen]

LEMMA Written ==
    ASSUME NEW r, Typed(r), NEW p \in 0..One, NEW m \in {"run", "done", "beat"}, NEW seen \in BOOLEAN
    PROVE  /\ Typed(Passed(r, seen)) /\ Passed(r, seen).pc = r.pc /\ Passed(r, seen).stage = r.stage
           /\ Passed(r, seen).last = r.last /\ Passed(r, seen).message = r.message
           /\ Passed(r, seen).seen = seen
           /\ Typed(Recorded(r, p, m, seen)) /\ Recorded(r, p, m, seen).pc = r.pc
           /\ Recorded(r, p, m, seen).stage = r.stage /\ Recorded(r, p, m, seen).last = p
           /\ Recorded(r, p, m, seen).message = m
<1>1. p \in -1..One
  BY OneIsNat
<1> QED BY <1>1 DEF Typed, Passed, Recorded

LEMMA MaxWritten ==
    ASSUME NEW t \in TaskNames, NEW p \in 0..One, BarTyped(bar)
    PROVE  /\ BarTyped(MaxWrite(t, p))
           /\ MaxWrite(t, p).progress >= p /\ MaxWrite(t, p).progress >= bar.progress
<1>1. bar.progress \in 0..One
  BY DEF BarTyped
<1>2. p \in Int /\ bar.progress \in Int
  BY <1>1, OneIsNat
<1>3. MaxWrite(t, p).progress = IF p >= bar.progress THEN p ELSE bar.progress
  BY DEF MaxWrite
<1>4. BarTyped(MaxWrite(t, p))
  BY <1>1 DEF MaxWrite, BarTyped
<1> QED BY <1>2, <1>3, <1>4

LEMMA ReportMoves ==
    ASSUME BarInv, NEW t \in TaskNames, task[t].pc = "running",
           NEW r, Typed(r), r.pc \in {"running", "ended"}, Reporting(t, r),
           NEW p \in 0..One, NEW m \in {"run", "done", "beat"}, NEW elapsed,
           OnProgress(t, r, p, m, elapsed), UNCHANGED <<shape, retired>>,
           r.pc = "running" =>
              /\ p <= BandEnd(r.stage)
              /\ m = "done" => t = "transcribe_align" /\ r.stage = "align" /\ p = BandEnd("transcribe"),
           r.pc = "ended" =>
              /\ p >= BandEnd(LastBand(t))
              /\ ~Regresses(task[t], p) /\ ~Throttled(task[t], p, m, elapsed)
    PROVE  BarInv'
<1> DEFINE put(seen) == Passed(r, seen)
           record(seen) == Recorded(r, p, m, seen)
<1>1. /\ BarTyped(bar) /\ bar.progress \in 0..One /\ retired \in BOOLEAN /\ reportFaults \in 0..MaxReportFaults
      /\ task[t].seen \in BOOLEAN
  BY DEF BarInv, ProgressTypeOK, BarTyped
<1>2. \A seen \in BOOLEAN : Typed(put(seen)) /\ Typed(record(seen))
  BY Written
<1>3. ASSUME NEW seen \in BOOLEAN PROVE Reporting(t, put(seen))
  <2> DEFINE q == put(seen)
  <2>1. q.pc = r.pc /\ q.stage = r.stage /\ q.last = r.last /\ q.message = r.message
    BY Written
  <2> HIDE DEF q
  <2>2. Reporting(t, q)
    BY <2>1 DEF Reporting
  <2> QED BY <2>2 DEF q
<1>4. ASSUME NEW seen \in BOOLEAN, r.pc = "running" PROVE Reporting(t, record(seen))
  <2> DEFINE q == record(seen)
  <2>1. q.pc = r.pc /\ q.stage = r.stage /\ q.last = p /\ q.message = m
    BY Written
  <2> HIDE DEF q
  <2>2. Reporting(t, q)
    BY <1>4, <2>1 DEF Reporting
  <2> QED BY <2>2 DEF q
<1>5. \A seen \in BOOLEAN : /\ put(seen).pc = r.pc /\ put(seen).seen = seen
                            /\ record(seen).pc = r.pc
  BY Written
<1>6. \E seen \in BOOLEAN : \E q :
         /\ q = put(seen) \/ (r.pc = "running" /\ q = record(seen))
         /\ task' = [task EXCEPT ![t] = q]
         /\ bar' = bar \/ bar' = MaxWrite(t, p)
         /\ r.pc = "ended" /\ seen => bar' = MaxWrite(t, p)
         /\ reportFaults' \in 0..MaxReportFaults
  <2> DEFINE dropped == Regresses(task[t], p) \/ Throttled(task[t], p, m, elapsed)
             written(seen) == IF r.pc # "running" THEN put(seen) ELSE record(seen)
  <2>1. CASE dropped
    <3>1. r.pc # "ended"
      BY <2>1
    <3>2. /\ task' = [task EXCEPT ![t] = put(task[t].seen)]
          /\ UNCHANGED <<bar, reportFaults>>
      BY <2>1 DEF OnProgress, Passed
    <3> QED BY <1>1, <3>1, <3>2
  <2>2. CASE ~dropped /\ retired /\ task' = [task EXCEPT ![t] = put(FALSE)] /\ UNCHANGED <<bar, reportFaults>>
    BY <1>1, <2>2
  <2>3. CASE ~dropped /\ ~retired /\ task' = [task EXCEPT ![t] = written(TRUE)] /\ bar' = MaxWrite(t, p)
             /\ UNCHANGED reportFaults
    BY <1>1, <2>3
  <2>4. CASE /\ ~dropped /\ reportFaults > 0 /\ task' = [task EXCEPT ![t] = written(FALSE)]
             /\ reportFaults' = reportFaults - 1 /\ UNCHANGED bar
    <3>1. reportFaults' \in 0..MaxReportFaults
      BY <1>1, <2>4, ProgressAssumption
    <3>2. CASE r.pc = "running"
      BY <2>4, <3>1, <3>2
    <3>3. CASE r.pc # "running"
      BY <2>4, <3>1, <3>3
    <3> QED BY <3>2, <3>3
  <2> QED BY <2>1, <2>2, <2>3, <2>4 DEF OnProgress, Passed, Recorded
<1>7. PICK seen \in BOOLEAN : \E q :
         /\ q = put(seen) \/ (r.pc = "running" /\ q = record(seen))
         /\ task' = [task EXCEPT ![t] = q]
         /\ bar' = bar \/ bar' = MaxWrite(t, p)
         /\ r.pc = "ended" /\ seen => bar' = MaxWrite(t, p)
         /\ reportFaults' \in 0..MaxReportFaults
  BY <1>6
<1>8. PICK q :
         /\ q = put(seen) \/ (r.pc = "running" /\ q = record(seen))
         /\ task' = [task EXCEPT ![t] = q]
         /\ bar' = bar \/ bar' = MaxWrite(t, p)
         /\ r.pc = "ended" /\ seen => bar' = MaxWrite(t, p)
         /\ reportFaults' \in 0..MaxReportFaults
  BY <1>7
<1> HIDE DEF put, record
<1>9. Typed(q) /\ Reporting(t, q) /\ q.pc = r.pc
  BY <1>2, <1>3, <1>4, <1>5, <1>8
<1>10. /\ BarTyped(bar') /\ bar'.progress \in 0..One /\ bar'.progress >= bar.progress
       /\ bar' = MaxWrite(t, p) => bar'.progress >= p
  <2>1. BarTyped(bar') /\ bar'.progress >= bar.progress /\ (bar' = MaxWrite(t, p) => bar'.progress >= p)
    BY <1>1, <1>8, MaxWritten, OneIsNat
  <2> QED BY <2>1 DEF BarTyped
<1>11. Shown(t, q, bar'.progress)
  <2>1. CASE r.pc = "ended" /\ seen
    <3> DEFINE end == BandEnd(LastBand(t))
    <3>1. end \in 0..One
      BY StageNamesAre, BandBounds DEF BarInv, ProgressTypeOK, BandEnd
    <3>2. bar'.progress >= p /\ p >= end
      BY <1>8, <1>10, <2>1
    <3> HIDE DEF end
    <3>3. bar'.progress >= end
      BY <1>10, <3>1, <3>2, OneIsNat
    <3> QED BY <3>3 DEF Shown, end
  <2>2. CASE ~(r.pc = "ended" /\ seen)
    <3>1. ~(q.pc = "ended" /\ q.seen)
      BY <1>5, <1>8, <1>9, <2>2
    <3> QED BY <3>1 DEF Shown
  <2> QED BY <2>1, <2>2
<1>12. bar' \in [progress : 0..One, status : {"queued", "processing", "failed", "completed"},
                  writer : TaskNames \cup {""}]
  BY <1>10 DEF BarTyped
<1> QED BY <1>1, <1>8, <1>9, <1>10, <1>11, <1>12, TaskMoves DEF HasFailed

\* A local percentage lands in its band.
LEMMA BandedInBand ==
    ASSUME shape \in Shapes, NEW stage \in StageNames, NEW percent \in 0..100
    PROVE  /\ Banded(stage, percent) \in 0..One /\ Banded(stage, percent) <= BandEnd(stage)
           /\ Banded(stage, 100) = BandEnd(stage)
<1> DEFINE first == Bands[shape][stage][1]
           last == BandEnd(stage)
           width == last - first
           part == (percent * width) \div 100
<1>1. first \in 0..One /\ last \in 0..One /\ first <= last
  BY BandBounds DEF BandEnd
<1>2. first \in Nat /\ last \in Nat /\ last <= One
  BY <1>1, OneIsNat
<1>3. Banded(stage, percent) = first + part /\ Banded(stage, 100) = first + (100 * width) \div 100
  BY DEF Banded, BandEnd
<1> HIDE DEF first, last
<1>4. width \in Nat
  BY <1>1, <1>2
<1> HIDE DEF width
<1>5. percent \in Nat /\ percent <= 100
  OBVIOUS
<1>6. percent * width \in Nat /\ percent * width <= 100 * width
  BY <1>4, <1>5, SMT
<1>7. part \in Nat /\ 100 * part <= percent * width
  BY <1>6, SMT
<1>8. (100 * width) \div 100 = width
  BY <1>4, SMT
<1> HIDE DEF part
<1>9. part <= width
  <2> DEFINE product == percent * width
  <2>1. 100 * part <= product /\ product <= 100 * width /\ product \in Nat
    BY <1>6, <1>7
  <2> HIDE DEF product
  <2> QED BY <1>4, <1>7, <2>1
<1>10. first + width = last
  BY <1>1, <1>2 DEF width
<1>11. first + part \in 0..One /\ first + part <= last
  BY <1>2, <1>4, <1>7, <1>9, <1>10, OneIsNat
<1> QED BY <1>3, <1>8, <1>10, <1>11 DEF last

LEMMA IdleTyped ==
    ASSUME NEW pc \in {"waiting", "running", "ended", "failed", "canceled", "reported", "stopped"}
    PROVE  /\ Typed(Idle(pc)) /\ Idle(pc).pc = pc /\ Idle(pc).last = -1 /\ Idle(pc).message = ""
           /\ Idle(pc).seen = FALSE
<1>1. -1 \in -1..One
  BY OneIsNat
<1> QED BY <1>1 DEF Typed, Idle

\* Of a state, what the steps below use.
LEMMA BarFacts ==
    ASSUME BarInv
    PROVE  /\ shape \in Shapes /\ BarTyped(bar) /\ bar.progress \in 0..One
           /\ retired \in BOOLEAN /\ reportFaults \in 0..MaxReportFaults
           /\ \A t \in TaskNames : Typed(task[t]) /\ Reporting(t, task[t])
           /\ task = [t \in TaskNames |-> task[t]]
BY DEF BarInv, ProgressTypeOK, BarTyped, Typed

\* A step that moves a task and leaves the bar.
LEMMA BarStays ==
    ASSUME BarInv, NEW t \in TaskNames, NEW r, Typed(r), Reporting(t, r),
           task' = [task EXCEPT ![t] = r], UNCHANGED <<shape, bar, retired, reportFaults>>,
           HasFailed(task[t].pc) => HasFailed(r.pc),
           r.pc = "ended" => task[t].pc = "ended" /\ r.seen = task[t].seen
    PROVE  BarInv'
<1>1. bar'.progress \in 0..One /\ bar'.progress >= bar.progress
  BY BarFacts, OneIsNat
<1>2. bar' \in [progress : 0..One, status : {"queued", "processing", "failed", "completed"},
                writer : TaskNames \cup {""}]
  BY BarFacts DEF BarTyped
<1>3. \A u \in TaskNames : task'[u] = IF u = t THEN r ELSE task[u]
  BY BarFacts
<1>4. ~AnyFailed' => Shown(t, r, bar'.progress)
  <2> SUFFICES ASSUME ~AnyFailed', r.pc = "ended", r.seen PROVE Shown(t, r, bar'.progress)
    BY DEF Shown
  <2>1. ~AnyFailed
    BY <1>3 DEF AnyFailed, HasFailed
  <2>2. Shown(t, task[t], bar.progress)
    BY <2>1 DEF BarInv
  <2> QED BY <2>2 DEF Shown
<1> QED BY <1>1, <1>2, <1>4, BarFacts, TaskMoves

LEMMA StartMoves ==
    ASSUME BarInv, NEW t \in TaskNames, StartTask(t)
    PROVE  BarInv'
<1> DEFINE first == IF t = "transcribe_align" THEN "transcribe" ELSE t
           fresh == Idle("running")
           r == [fresh EXCEPT !.stage = first]
<1>1. Typed(fresh) /\ fresh.pc = "running" /\ fresh.last = -1 /\ fresh.message = ""
  BY IdleTyped
<1>2. /\ first \in StageNames
      /\ first # LastBand(t) => t = "transcribe_align" /\ first = "transcribe"
  BY StageNamesAre DEF StageNames, LastBand
<1>3. BandEnd(first) \in 0..One
  BY <1>2, BarFacts, BandBounds DEF BandEnd
<1>4. task' = [task EXCEPT ![t] = r] /\ UNCHANGED <<shape, bar, retired, reportFaults>> /\ task[t].pc = "waiting"
  BY DEF StartTask
<1> HIDE DEF first, fresh
<1>5. Typed(r) /\ r.pc = "running" /\ r.stage = first /\ r.last = -1 /\ r.message = ""
  BY <1>1, <1>2 DEF Typed
<1> HIDE DEF r
<1>6. -1 <= BandEnd(first)
  BY <1>3, OneIsNat
<1>7. Reporting(t, r)
  BY <1>2, <1>5, <1>6 DEF Reporting
<1> QED BY <1>4, <1>5, <1>7, BarStays DEF HasFailed

LEMMA EndMoves ==
    ASSUME BarInv, NEW t \in TaskNames, NEW pc \in {"failed", "stopped"}, task[t].pc = "running",
           task' = [task EXCEPT ![t] = Idle(pc)], UNCHANGED <<shape, bar, retired, reportFaults>>
    PROVE  BarInv'
<1> DEFINE r == Idle(pc)
<1>1. Typed(r) /\ r.pc = pc
  BY IdleTyped
<1>2. task' = [task EXCEPT ![t] = r]
  OBVIOUS
<1> HIDE DEF r
<1>3. Reporting(t, r)
  BY <1>1 DEF Reporting
<1> QED BY <1>1, <1>2, <1>3, BarStays DEF HasFailed

LEMMA ThreadMoves ==
    ASSUME BarInv, task["diarize"].pc = "running", NEW beats \in BOOLEAN,
           task' = [task EXCEPT !["diarize"] = [task["diarize"] EXCEPT !.heart = beats]],
           UNCHANGED <<shape, bar, retired, reportFaults>>
    PROVE  BarInv'
<1> DEFINE q == task["diarize"]
           r == [q EXCEPT !.heart = beats]
<1>1. Typed(q) /\ Reporting("diarize", q) /\ q.pc = "running"
  BY BarFacts, DiarizeIsATask
<1>2. task' = [task EXCEPT !["diarize"] = r]
  OBVIOUS
<1> HIDE DEF q
<1>3. Typed(r) /\ r.pc = q.pc /\ r.stage = q.stage /\ r.last = q.last /\ r.message = q.message
  BY <1>1 DEF Typed
<1> HIDE DEF r
<1>4. Reporting("diarize", r)
  BY <1>1, <1>3 DEF Reporting
<1>5. r.pc = "running" /\ task["diarize"].pc = "running"
  BY <1>1, <1>3
<1> QED BY <1>2, <1>3, <1>4, <1>5, DiarizeIsATask, BarStays

\* The reports of a stage that goes on, within its band ...
LEMMA GoesOn ==
    ASSUME BarInv, NEW t \in TaskNames, task[t].pc = "running",
           NEW percent \in 0..100, NEW m \in {"run", "beat"}, NEW elapsed,
           OnProgress(t, task[t], Banded(task[t].stage, percent), m, elapsed), UNCHANGED <<shape, retired>>
    PROVE  BarInv'
<1> DEFINE r == task[t]
           p == Banded(task[t].stage, percent)
<1>1. Typed(r) /\ Reporting(t, r) /\ r.pc = "running" /\ r.stage \in StageNames
  BY BarFacts DEF Reporting
<1>2. p \in 0..One /\ p <= BandEnd(r.stage)
  BY <1>1, BandedInBand, BarFacts
<1>3. OnProgress(t, r, p, m, elapsed)
  OBVIOUS
<1> HIDE DEF r, p
<1>4. /\ r.pc = "running" =>
              /\ p <= BandEnd(r.stage)
              /\ m = "done" => t = "transcribe_align" /\ r.stage = "align" /\ p = BandEnd("transcribe")
      /\ r.pc \in {"running", "ended"} /\ r.pc # "ended"
      /\ m \in {"run", "done", "beat"}
  BY <1>1, <1>2
<1> QED BY <1>1, <1>2, <1>3, <1>4, ReportMoves

\* ... of transcribe, behind which align goes on with the same reporter ...
LEMMA TranscribeMoves == BarInv /\ FinishTranscribe => BarInv'
<1> SUFFICES ASSUME BarInv, FinishTranscribe PROVE BarInv'
  OBVIOUS
<1> DEFINE t == "transcribe_align"
           q == task[t]
           r == [q EXCEPT !.stage = "align"]
           p == Banded("transcribe", 100)
<1>1. PICK elapsed \in BOOLEAN : OnProgress(t, r, p, "done", elapsed)
  BY DEF FinishTranscribe
<1>2. q.pc = "running" /\ q.stage = "transcribe" /\ UNCHANGED <<shape, retired>>
  BY DEF FinishTranscribe
<1>3. t \in TaskNames /\ Typed(q) /\ Reporting(t, q)
  BY BarFacts, DiarizeIsATask
<1>4. /\ p \in 0..One
      /\ p = BandEnd("transcribe")
      /\ BandEnd("transcribe") + MinDelta <= BandEnd("align")
      /\ BandEnd("transcribe") \in 0..One
      /\ BandEnd("align") \in 0..One
  <2>1. "transcribe" \in StageNames /\ "align" \in StageNames /\ 100 \in 0..100
    BY DEF StageNames
  <2>2. p \in 0..One /\ p = BandEnd("transcribe")
    BY <2>1, BandedInBand, BarFacts
  <2> QED BY <2>1, <2>2, BandBounds, BarFacts DEF BandEnd
<1>5. BandEnd("transcribe") <= BandEnd("align")
  BY <1>4, OneIsNat DEF MinDelta
<1>6. q.last \in -1..One /\ q.last <= BandEnd("transcribe")
  BY <1>2, <1>3 DEF Typed, Reporting
<1>7. q.last <= BandEnd("align")
  BY <1>4, <1>5, <1>6, OneIsNat
<1> HIDE DEF q, p
<1>8. /\ Typed(r) /\ r.pc = q.pc /\ r.stage = "align" /\ r.last = q.last
      /\ r.message = q.message
  BY <1>3 DEF Typed, StageNames
<1> HIDE DEF r
<1>9. q.message # "done"
  BY <1>2, <1>3 DEF Reporting
<1>10. Reporting(t, r)
  BY <1>2, <1>7, <1>8, <1>9 DEF Reporting, StageNames, LastBand
<1>11. /\ r.pc = "running" =>
              /\ p <= BandEnd(r.stage)
              /\ "done" = "done" => t = "transcribe_align" /\ r.stage = "align" /\ p = BandEnd("transcribe")
       /\ r.pc \in {"running", "ended"} /\ r.pc # "ended"
       /\ task[t].pc = "running"
  BY <1>2, <1>4, <1>5, <1>8 DEF q
<1> HIDE DEF t
<1> QED BY <1>1, <1>2, <1>3, <1>4, <1>8, <1>10, <1>11, ReportMoves

\* ... and of a task that returns, whose last report the throttle never drops.
LEMMA FinishMoves ==
    ASSUME BarInv, NEW t \in TaskNames, FinishTask(t)
    PROVE  BarInv'
<1> DEFINE q == task[t]
           r == Idle("ended")
           p == Banded(q.stage, 100)
<1>1. PICK elapsed \in BOOLEAN : OnProgress(t, r, p, "done", elapsed)
  BY DEF FinishTask
<1>2. q.pc = "running" /\ q.stage = LastBand(t) /\ UNCHANGED <<shape, retired>>
  BY DEF FinishTask
<1>3. Typed(q) /\ Reporting(t, q) /\ LastBand(t) \in StageNames
  BY BarFacts, StageNamesAre
<1>4. p \in 0..One /\ p = BandEnd(LastBand(t))
  <2>1. 100 \in 0..100
    OBVIOUS
  <2> QED BY <1>2, <1>3, <2>1, BandedInBand, BarFacts
<1>5. q.last \in -1..One /\ q.last <= p
  BY <1>2, <1>3, <1>4 DEF Typed, Reporting
<1>6. p \in Int /\ q.last \in Int
  BY <1>4, <1>5, OneIsNat
<1>7. Typed(r) /\ r.pc = "ended"
  BY IdleTyped
<1> HIDE DEF q, r, p
<1>8. ~Regresses(q, p)
  BY <1>5, <1>6 DEF Regresses
<1>9. ~Throttled(q, p, "done", elapsed)
  <2> SUFFICES ASSUME q.message = "done" PROVE ~(p - q.last < MinDelta)
    BY DEF Throttled
  <2>1. q.last = BandEnd("transcribe") /\ LastBand(t) = "align"
    BY <1>2, <1>3 DEF Reporting
  <2>2. BandEnd("transcribe") + MinDelta <= BandEnd("align")
    BY BandBounds, BarFacts DEF BandEnd
  <2>3. q.last + MinDelta <= p
    BY <1>4, <2>1, <2>2
  <2> QED BY <1>6, <2>3 DEF MinDelta
<1>10. Reporting(t, r)
  BY <1>7 DEF Reporting
<1>11. p >= BandEnd(LastBand(t))
  BY <1>4, <1>6
<1>12. /\ ~Regresses(task[t], p) /\ ~Throttled(task[t], p, "done", elapsed)
       /\ task[t].pc = "running" /\ r.pc # "running" /\ r.pc \in {"running", "ended"}
  BY <1>2, <1>7, <1>8, <1>9 DEF q
<1> QED BY <1>1, <1>2, <1>4, <1>7, <1>10, <1>11, <1>12, ReportMoves

\* finalize_failure: the job has failed, whatever becomes of its bar.
LEMMA FailureMoves ==
    ASSUME BarInv, NEW t \in TaskNames, NEW pc \in {"canceled", "reported"},
           task' = [task EXCEPT ![t] = [task[t] EXCEPT !.pc = pc]],
           BarTyped(bar'), UNCHANGED <<shape, retired, reportFaults>>
    PROVE  BarInv'
<1> DEFINE q == task[t]
           r == [q EXCEPT !.pc = pc]
<1>1. Typed(q)
  BY BarFacts
<1>2. task' = [task EXCEPT ![t] = r]
  OBVIOUS
<1> HIDE DEF q
<1>4. Typed(r) /\ r.pc = pc
  BY <1>1 DEF Typed
<1> HIDE DEF r
<1>5. Reporting(t, r) /\ HasFailed(r.pc)
  BY <1>4 DEF Reporting, HasFailed
<1>6. AnyFailed'
  <2>1. task'[t] = r
    BY <1>2, BarFacts
  <2> QED BY <1>5, <2>1 DEF AnyFailed, HasFailed
<1>7. /\ bar' \in [progress : 0..One, status : {"queued", "processing", "failed", "completed"},
                  writer : TaskNames \cup {""}]
      /\ bar'.progress \in 0..One /\ retired' \in BOOLEAN /\ reportFaults' \in 0..MaxReportFaults
  BY BarFacts DEF BarTyped
<1> QED BY <1>2, <1>4, <1>5, <1>6, <1>7, TaskMoves

LEMMA FailureBars ==
    /\ \A t \in TaskNames : BarTyped([progress |-> 0, status |-> "failed", writer |-> t])
    /\ BarTyped([progress |-> One, status |-> "completed", writer |-> ""])
BY OneIsNat DEF BarTyped

LEMMA FailureStepMoves ==
    ASSUME BarInv, (\E t \in TaskNames : CancelSiblings(t) \/ ReportFailure(t)) \/ SalvageTranscript
    PROVE  BarInv'
<1>1. \E t \in TaskNames, pc \in {"canceled", "reported"} :
        task' = [task EXCEPT ![t] = [task[t] EXCEPT !.pc = pc]]
  BY BarFacts, TailIsATask DEF CancelSiblings, ReportFailure, SalvageTranscript
<1>2. BarTyped(bar')
  BY BarFacts, FailureBars DEF CancelSiblings, ReportFailure, SalvageTranscript
<1>3. UNCHANGED <<shape, retired, reportFaults>>
  BY DEF CancelSiblings, ReportFailure, SalvageTranscript
<1> QED BY <1>1, <1>2, <1>3, FailureMoves

LEMMA AtMostOne == \A n \in 0..One : n >= n /\ One >= n
BY OneIsNat

\* What moves no task moves the bar forward or leaves it.
LEMMA TasksStay ==
    ASSUME BarInv, UNCHANGED <<shape, task, reportFaults>>, retired' \in BOOLEAN,
           bar' = bar \/ bar' = [progress |-> One, status |-> "completed", writer |-> ""]
    PROVE  BarInv'
<1> DEFINE t == "diarize"
           r == task[t]
<1>1. Typed(r) /\ Reporting(t, r) /\ t \in TaskNames
  BY BarFacts, DiarizeIsATask
<1>2. One \in 0..One
  BY OneIsNat
<1>3. BarTyped(bar') /\ bar'.progress \in 0..One /\ bar'.progress >= bar.progress
  <2> DEFINE full == [progress |-> One, status |-> "completed", writer |-> ""]
  <2>1. BarTyped(full) /\ full.progress = One
    BY <1>2 DEF BarTyped
  <2>2. BarTyped(bar) /\ bar.progress \in 0..One
    BY BarFacts
  <2> HIDE DEF full
  <2>3. bar' = bar \/ bar' = full
    BY DEF full
  <2>4. bar.progress >= bar.progress /\ One >= bar.progress
    BY <2>2, AtMostOne
  <2> QED BY <1>2, <2>1, <2>2, <2>3, <2>4
<1>5. AnyFailed' = AnyFailed
  BY DEF AnyFailed
<1>6. ~AnyFailed' => Shown(t, r, bar'.progress)
  <2> SUFFICES ASSUME ~AnyFailed PROVE Shown(t, r, bar'.progress)
    BY <1>5
  <2>1. Shown(t, r, bar.progress) /\ bar.progress \in 0..One
    BY <1>1, BarFacts DEF BarInv
  <2>2. BandEnd(LastBand(t)) \in 0..One
    BY <1>1, StageNamesAre, BandBounds, BarFacts DEF BandEnd
  <2> HIDE DEF t, r
  <2> QED BY <1>3, <2>1, <2>2, StaysShown
<1>7. task' = [task EXCEPT ![t] = r] /\ shape' = shape /\ reportFaults' \in 0..MaxReportFaults
  BY <1>1, BarFacts
<1>8. bar' \in [progress : 0..One, status : {"queued", "processing", "failed", "completed"},
                writer : TaskNames \cup {""}]
  BY <1>3 DEF BarTyped
<1>9. HasFailed(task[t].pc) => HasFailed(r.pc)
  OBVIOUS
<1> HIDE DEF t, r
<1> QED BY <1>1, <1>3, <1>6, <1>7, <1>8, <1>9, TaskMoves

LEMMA BarNext == SilentInv /\ BarInv /\ [ProgressStep]_progressVars => BarInv'
<1> SUFFICES ASSUME SilentInv, BarInv, [ProgressStep]_progressVars PROVE BarInv'
  OBVIOUS
<1>1. ASSUME NEW t \in TaskNames, ReportProgress(t) PROVE BarInv'
  BY <1>1, GoesOn, ProgressAssumption DEF ReportProgress
<1>2. ASSUME NEW t \in TaskNames, FailTask(t) \/ StopTask(t) PROVE BarInv'
  BY <1>2, EndMoves DEF FailTask, StopTask
<1>3. ASSUME NEW t \in TaskNames, RetireGeneration(t) PROVE BarInv'
  BY <1>3, TasksStay DEF RetireGeneration
<1>4. CASE StartHeartbeat
  <2>1. task' = [task EXCEPT !["diarize"] = [task["diarize"] EXCEPT !.heart = TRUE]]
    BY <1>4, DiarizeIsATask, BarFacts DEF StartHeartbeat
  <2> QED BY <1>4, <2>1, ThreadMoves DEF StartHeartbeat
<1>5. CASE Heartbeat
  <2>1. task["diarize"].pc = "running"
    BY <1>5, DiarizeIsATask DEF Heartbeat, SilentInv, Heartless
  <2>2. PICK percent \in {n \in Percentages : n < 95} :
           OnProgress("diarize", task["diarize"], Banded("diarize", percent), "beat", TRUE)
    BY <1>5 DEF Heartbeat
  <2>3. task["diarize"].stage = "diarize" /\ percent \in 0..100 /\ UNCHANGED <<shape, retired>>
    <3>1. Reporting("diarize", task["diarize"])
      BY BarFacts, DiarizeIsATask
    <3>2. task["diarize"].stage = "diarize"
      <4>1. LastBand("diarize") = "diarize" /\ "diarize" # "transcribe_align"
        BY DEF LastBand
      <4> QED BY <2>1, <3>1, <4>1 DEF Reporting
    <3>3. percent \in 0..100
      BY ProgressAssumption
    <3> QED BY <1>5, <3>2, <3>3 DEF Heartbeat
  <2> QED BY <2>1, <2>2, <2>3, GoesOn, DiarizeIsATask
<1>6. ASSUME NEW raises \in BOOLEAN, InferenceEnds(raises) PROVE BarInv'
  <2>1. CASE raises
    <3>1. task' = [task EXCEPT !["diarize"] = Idle("failed")]
      BY <1>6, <2>1 DEF InferenceEnds
    <3> QED BY <1>6, <3>1, DiarizeIsATask, EndMoves DEF InferenceEnds
  <2>2. CASE ~raises
    <3>1. task' = [task EXCEPT !["diarize"] = [task["diarize"] EXCEPT !.heart = FALSE]]
      BY <1>6, <2>2, DiarizeIsATask, BarFacts DEF InferenceEnds
    <3> QED BY <1>6, <3>1, ThreadMoves DEF InferenceEnds
  <2> QED BY <2>1, <2>2
<1>7. CASE ReportCompletion
  BY <1>7, BarFacts, TasksStay DEF ReportCompletion
<1>8. CASE UNCHANGED progressVars
  BY <1>8, BarFacts, TasksStay DEF progressVars
<1> QED BY <1>1, <1>2, <1>3, <1>4, <1>5, <1>6, <1>7, <1>8, StartMoves, TranscribeMoves, FinishMoves, FailureStepMoves
        DEF ProgressStep

\* Only MaxWrite turns a hash "processing".
LEMMA OnlyForward ==
    ASSUME BarInv, [ProgressStep]_progressVars, bar.status = "processing", bar'.status = "processing"
    PROVE  bar'.progress >= bar.progress
<1>1. BarTyped(bar) /\ bar.progress \in 0..One
  BY BarFacts
<1>2. bar' = bar => bar'.progress >= bar.progress
  BY <1>1, OneIsNat
<1>3. ASSUME NEW t \in TaskNames, NEW p \in 0..One, bar' = MaxWrite(t, p) PROVE bar'.progress >= bar.progress
  BY <1>1, <1>3, MaxWritten
<1>4. ASSUME NEW t \in TaskNames, NEW r, NEW p \in 0..One, NEW m, NEW elapsed, OnProgress(t, r, p, m, elapsed)
      PROVE  bar'.progress >= bar.progress
  BY <1>2, <1>3, <1>4 DEF OnProgress
<1>5. ASSUME NEW t \in TaskNames, ReportProgress(t) PROVE bar'.progress >= bar.progress
  <2>1. PICK percent \in Percentages, elapsed \in BOOLEAN :
           OnProgress(t, task[t], Banded(task[t].stage, percent), "run", elapsed)
    BY <1>5 DEF ReportProgress
  <2>2. percent \in 0..100 /\ task[t].stage \in StageNames /\ shape \in Shapes
    BY <1>5, BarFacts, ProgressAssumption DEF ReportProgress, Reporting
  <2>3. Banded(task[t].stage, percent) \in 0..One
    BY <2>2, BandedInBand
  <2> QED BY <1>4, <2>1, <2>3
<1>6. ASSUME NEW t \in TaskNames, FinishTask(t) PROVE bar'.progress >= bar.progress
  <2>1. PICK elapsed \in BOOLEAN : OnProgress(t, Idle("ended"), Banded(task[t].stage, 100), "done", elapsed)
    BY <1>6 DEF FinishTask
  <2>2. 100 \in 0..100 /\ task[t].stage \in StageNames /\ shape \in Shapes
    BY <1>6, BarFacts DEF FinishTask, Reporting
  <2>3. Banded(task[t].stage, 100) \in 0..One
    BY <2>2, BandedInBand
  <2> QED BY <1>4, <2>1, <2>3
<1>7. CASE FinishTranscribe
  <2>1. PICK elapsed \in BOOLEAN :
          OnProgress("transcribe_align", [task["transcribe_align"] EXCEPT !.stage = "align"],
                     Banded("transcribe", 100), "done", elapsed)
    BY <1>7 DEF FinishTranscribe
  <2>2. 100 \in 0..100 /\ "transcribe" \in StageNames /\ shape \in Shapes
    BY BarFacts DEF StageNames
  <2>3. Banded("transcribe", 100) \in 0..One
    BY <2>2, BandedInBand
  <2> QED BY <1>4, <2>1, <2>3, DiarizeIsATask
<1>8. CASE Heartbeat
  <2>1. PICK percent \in {n \in Percentages : n < 95} :
           OnProgress("diarize", task["diarize"], Banded("diarize", percent), "beat", TRUE)
    BY <1>8 DEF Heartbeat
  <2>2. percent \in 0..100 /\ "diarize" \in StageNames /\ shape \in Shapes
    BY BarFacts, ProgressAssumption, DiarizeIsATask DEF StageNames
  <2>3. Banded("diarize", percent) \in 0..One
    BY <2>2, BandedInBand
  <2> QED BY <1>4, <2>1, <2>3, DiarizeIsATask
<1>9. ASSUME NEW t \in TaskNames, ReportFailure(t) PROVE bar' = bar \/ bar'.status = "failed"
  BY <1>9 DEF ReportFailure
<1>10. ReportCompletion \/ SalvageTranscript => bar'.status = "completed"
  <2>1. ReportCompletion \/ SalvageTranscript => bar' = [progress |-> One, status |-> "completed", writer |-> ""]
    BY Zenon DEF ReportCompletion, SalvageTranscript
  <2>2. [progress |-> One, status |-> "completed", writer |-> ""].status = "completed"
    OBVIOUS
  <2> QED BY <2>1, <2>2, Zenon
<1>11. /\ StartHeartbeat \/ UNCHANGED progressVars => bar' = bar
       /\ \A t \in TaskNames : StartTask(t) \/ FailTask(t) \/ CancelSiblings(t)
                               \/ RetireGeneration(t) \/ StopTask(t) => bar' = bar
       /\ \A raises \in BOOLEAN : InferenceEnds(raises) => bar' = bar
  BY DEF StartHeartbeat, StartTask, FailTask, CancelSiblings, RetireGeneration, StopTask, InferenceEnds, progressVars
<1> QED BY <1>2, <1>5, <1>6, <1>7, <1>8, <1>9, <1>10, <1>11 DEF ProgressStep

-----------------------------------------------------------------------------
(* The theorems. *)

\* The bar, the reporters and the tasks keep their types.
THEOREM ProgressTypes == ProgressSpec => []ProgressTypeOK
<1>1. BarInv => ProgressTypeOK
  BY DEF BarInv
<1> QED BY <1>1, BarInit, BarNext, SilentInit, StepSilent, PTL DEF ProgressSpec

\* build_stage_weights: the bands of every shape partition the bar, and rounding to four
\* digits leaves none empty.
THEOREM BandsAlwaysPartition == ProgressSpec => []BandsPartition
<1>1. BarInv => BandsPartition
  <2> SUFFICES ASSUME BarInv PROVE BandsPartition
    OBVIOUS
  <2>1. shape \in Shapes
    BY BarFacts
  <2> QED BY <2>1, Partition DEF BandsPartition
<1> QED BY <1>1, BarInit, BarNext, SilentInit, StepSilent, PTL DEF ProgressSpec

\* A stage that has finished, and whose last report arrived, has filled its band.
THEOREM FinishedStageIsShown == ProgressSpec => []StageShowsItsEnd
<1>1. BarInv => StageShowsItsEnd
  BY DEF BarInv, Shown, BandEnd, StageShowsItsEnd
<1> QED BY <1>1, BarInit, BarNext, SilentInit, StepSilent, PTL DEF ProgressSpec

\* The bar of a job in progress never moves back, whichever branches report at once.
THEOREM BarNeverMovesBack == ProgressSpec => BarNeverRewinds
<1>1. BarInv /\ [ProgressStep]_progressVars =>
        [bar.status = "processing" /\ bar'.status = "processing" => bar'.progress >= bar.progress]_progressVars
  BY OnlyForward
<1> QED BY <1>1, BarInit, BarNext, SilentInit, StepSilent, PTL DEF ProgressSpec, BarNeverRewinds
=============================================================================
