------------------------------ MODULE Pipeline ------------------------------
(***************************************************************************)
(* One transcription job of Whisper-UI: the web thread that enqueues and   *)
(* retries it, the RQ workers that run its DAG of sub-jobs, the RQ         *)
(* callbacks that finalise it and the frontends' stale-job reapers.        *)
(*                                                                         *)
(* The actors share a SQLite row, four groups of Redis keys and two files  *)
(* and take no lock across two accesses, so one action here is one access  *)
(* to one shared store.  Every key and row carries the job id, hence jobs  *)
(* do not interact and one job is enough.                                  *)
(*                                                                         *)
(* A sub-job is identified by the generation it was enqueued under and its *)
(* stage.  The value of a context key, of result_path and of the saved     *)
(* transcript is abstracted to the generation that produced it, 0 when     *)
(* there is none.                                                          *)
(***************************************************************************)
EXTENDS Naturals, FiniteSets

CONSTANTS
    HasDownload,        \* the job has a source_url
    HasDiarize,         \* job.enable_diarization
    HasLlm,             \* is_llm_active(job, settings)
    ForkingWorker,      \* rq.Worker (a horse a stop command kills) or SimpleWorker
    PromptRetry,        \* may a retry request overlap an earlier attempt's callback?
    Reapers,            \* the frontends' stale-job checkers
    Workers,            \* how many worker processes serve the queues
    MaxGeneration,      \* bound on the generation counter
    MaxAttempts,        \* bound on the times the job is enqueued
    MaxFailures,        \* bound on the exceptions the stages raise
    MaxCrashes,         \* bound on worker deaths
    MaxEnqueueFaults,   \* bound on the times enqueue_pipeline raises or its process dies
    MaxStoreFaults      \* bound on store errors seen by stages and callbacks

ASSUME PipelineAssumption ==
    /\ {HasDownload, HasDiarize, HasLlm, ForkingWorker, PromptRetry} \subseteq BOOLEAN
    /\ Workers \in Nat \ {0}
    /\ MaxGeneration \in Nat \ {0}
    /\ MaxAttempts \in Nat \ {0}
    /\ {MaxFailures, MaxCrashes, MaxEnqueueFaults, MaxStoreFaults} \subseteq Nat

-----------------------------------------------------------------------------
(* The DAG *)

AllStages == {"download", "preprocess", "transcribe_align", "diarize",
              "assign_speakers", "postprocess", "llm_correction"}

Stages == {s \in AllStages : /\ s = "download" => HasDownload
                             /\ s = "diarize" => HasDiarize
                             /\ s = "llm_correction" => HasLlm}

\* Mutant: assign_speakers is not made to wait for the diarize branch.
DependsOn_NoJoin(s) ==
    Stages \cap (CASE s = "preprocess" -> {"download"}
                   [] s \in {"transcribe_align", "diarize"} -> {"preprocess"}
                   [] s = "assign_speakers" -> {"transcribe_align"}
                   [] s = "postprocess" -> {"assign_speakers"}
                   [] s = "llm_correction" -> {"postprocess"}
                   [] OTHER -> {})

\* The depends_on of each stage.
DependsOn(s) ==
    Stages \cap (CASE s = "preprocess" -> {"download"}
                   [] s \in {"transcribe_align", "diarize"} -> {"preprocess"}
                   [] s = "assign_speakers" -> {"transcribe_align", "diarize"}
                   [] s = "postprocess" -> {"assign_speakers"}
                   [] s = "llm_correction" -> {"postprocess"}
                   [] OTHER -> {})

\* The sub-job that carries on_success = finalize_success (is_final).
IsFinal(s) == s = IF HasLlm THEN "llm_correction" ELSE "postprocess"

\* Position of a stage in the sequence of _enqueue calls.
Rank(s) ==
    CASE s = "download" -> 1 [] s = "preprocess" -> 2 [] s = "transcribe_align" -> 3
      [] s = "diarize" -> 4 [] s = "assign_speakers" -> 5 [] s = "postprocess" -> 6
      [] s = "llm_correction" -> 7

\* The keys of the context hash; "language" stands for the settings that only
\* PipelineContextStore.initialize writes.
OutputKeys == {"audio_path", "aligned_result", "diarize_result", "final_result",
               "transcript_result"}
Keys == OutputKeys \cup {"language", "source_url", "input_path"}

OutputKey(s) ==
    CASE s = "download" -> "input_path" [] s = "preprocess" -> "audio_path"
      [] s = "transcribe_align" -> "aligned_result" [] s = "diarize" -> "diarize_result"
      [] s = "assign_speakers" -> "final_result"
      [] s \in {"postprocess", "llm_correction"} -> "transcript_result"

\* The keys a stage reads from the context it loaded.
InputKeys(s) ==
    CASE s = "download" -> {"source_url", "input_path"}
      [] s = "preprocess" -> {"input_path"}
      [] s \in {"transcribe_align", "diarize"} -> {"language", "audio_path"}
      [] s = "assign_speakers" ->
            {"aligned_result"} \cup (IF HasDiarize THEN {"diarize_result"} ELSE {})
      [] s = "postprocess" ->
            {"language", IF HasDiarize THEN "final_result" ELSE "aligned_result"}
      [] s = "llm_correction" -> {"transcript_result"}

Generations == 1..MaxGeneration
Source == 0..MaxGeneration
Contexts == [Keys -> Source]
NoContext == [k \in Keys |-> 0]

RowStatus == {"queued", "processing", "completed", "failed"}
Active == {"queued", "processing"}
SubStatus == {"none", "deferred", "queued", "started", "finished", "failed", "canceled"}
\* Mutant: only a running sub-job counts as live.
LiveStatus_StartedOnly == {"started"}

LiveStatus == {"deferred", "queued", "started"}

\* Where the process that serves a sub-job stands.
StagePcs == {"load_job", "mark_processing", "load_context", "seed", "run", "mirror",
             "degraded", "persist"}
SuccessPcs == {"fs_stale", "fs_job", "fs_context"}
MissingPcs == {"missing_row", "missing_progress", "missing_context", "missing_clear"}
CompletionPcs == {"save", "complete_row", "complete_progress", "fail_row", "fail_progress",
                  "completion_wav", "completion_context", "completion_clear"}
FailurePcs == {"ff_stale", "ff_job", "ff_context", "ff_load_ids", "ff_cancel", "ff_row",
               "ff_progress", "ff_bump", "ff_wav", "ff_delete", "ff_clear"}
CallbackPcs == SuccessPcs \cup MissingPcs \cup CompletionPcs \cup FailurePcs \cup {"ack"}
RunningPcs == StagePcs \cup CallbackPcs
Pcs == RunningPcs \cup {"idle", "dead", "done"}

Jobs == [status : RowStatus, result_path : Source]
Locals == [job : Jobs, context : Contexts, todo : SUBSET Stages,
           failing : BOOLEAN, raising : BOOLEAN]
FreshLocal == [job |-> [status |-> "queued", result_path |-> 0], context |-> NoContext,
               todo |-> {}, failing |-> FALSE, raising |-> FALSE]

-----------------------------------------------------------------------------
VARIABLES
    row,         \* the SQLite jobs row: status, result_path; stale = updated_at is old
    generation,  \* Redis whisper:pipeline:{id}:generation
    progress,    \* Redis job:{id}: status shown to the UI and its generation
    context,     \* Redis whisper:ctx:{id}
    tracked,     \* Redis whisper:pipeline:{id}:subjobs:{generation}
    subjob,      \* RQ status of each sub-job
    wav,         \* is the preprocessed 16 kHz WAV on disk?
    transcript,  \* the result file on disk
    pc,          \* program counter of the process serving each sub-job
    local,       \* its Python locals: Job snapshot, loaded context, ids to cancel
    enqueuer,    \* the web thread inside enqueue_pipeline
    reaper,      \* each frontend's recover_stale_pipeline_jobs
    budget       \* faults left to inject

redisVars == <<generation, progress, context, tracked>>
fileVars == <<wav, transcript>>
vars == <<row, generation, progress, context, tracked, subjob, wav, transcript, pc, local,
          enqueuer, reaper, budget>>

RowType == [status : RowStatus, result_path : Source, stale : BOOLEAN]
ProgressType == [generation : Source, status : RowStatus \cup {"none"}]
EnqueuerPcs == {"idle", "bump", "del_progress", "seed_progress", "del_context",
                "seed_context", "enqueue", "record", "failed"}
EnqueuerType == [pc : EnqueuerPcs, generation : Source, stage : Stages,
                 attempts : 0..MaxAttempts]
ReaperPcs == {"idle", "generation", "ids", "scan", "bump", "update"}
ReaperLocals == [pc : ReaperPcs, generation : Source, todo : SUBSET Stages]
BudgetType == [failure : 0..MaxFailures, crash : 0..MaxCrashes,
               enqueue : 0..MaxEnqueueFaults, store : 0..MaxStoreFaults]

\* A value of X for each sub-job.
PerSubjob(X) == [Generations -> [Stages -> X]]

TypeOK ==
    /\ row \in RowType
    /\ generation \in Source
    /\ progress \in ProgressType
    /\ context \in Contexts
    /\ tracked \in [Generations -> SUBSET Stages]
    /\ subjob \in PerSubjob(SubStatus)
    /\ wav \in BOOLEAN
    /\ transcript \in Source
    /\ pc \in PerSubjob(Pcs)
    /\ local \in PerSubjob(Locals)
    /\ enqueuer \in EnqueuerType
    /\ reaper \in [Reapers -> ReaperLocals]
    /\ budget \in BudgetType

\* The upload route has inserted the row as QUEUED and calls enqueue_pipeline.
Init ==
    /\ row = [status |-> "queued", result_path |-> 0, stale |-> FALSE]
    /\ generation = 0
    /\ progress = [generation |-> 0, status |-> "none"]
    /\ context = NoContext
    /\ tracked = [g \in Generations |-> {}]
    /\ subjob = [g \in Generations |-> [s \in Stages |-> "none"]]
    /\ wav = FALSE
    /\ transcript = 0
    /\ pc = [g \in Generations |-> [s \in Stages |-> "idle"]]
    /\ local = [g \in Generations |-> [s \in Stages |-> FreshLocal]]
    /\ enqueuer = [pc |-> "bump", generation |-> 0, stage |-> "preprocess", attempts |-> 1]
    /\ reaper = [r \in Reapers |-> [pc |-> "idle", generation |-> 0, todo |-> {}]]
    /\ budget = [failure |-> MaxFailures, crash |-> MaxCrashes, enqueue |-> MaxEnqueueFaults, store |-> MaxStoreFaults]

-----------------------------------------------------------------------------
(* Store operations *)

\* JobDatabase.update_job: every column is overwritten from the caller's Job
\* object and updated_at is refreshed.
UpdateJob(job) ==
    row' = [status |-> job.status, result_path |-> job.result_path, stale |-> FALSE]

\* _bump_generation.
BumpGeneration == generation < MaxGeneration /\ generation' = generation + 1

\* Mutants: the check compares with <=, or is missing.
IsStale_OrEqual(g) == g <= generation
IsStale_Never(g) == FALSE

\* is_stale_callback: a missing counter (0) makes nothing stale.
IsStale(g) == g < generation

\* Mutant: outputs are written with a plain HSET.
OwnsContext_Ungated(g) == TRUE

\* The generation gate of _GENERATION_GATED_HSET_LUA.
OwnsContext(g) == generation = 0 \/ generation = g

\* Mutants: no gate, or one that rejects its own generation.
OwnsProgress_Ungated(g) == TRUE
OwnsProgress_Strict(g) == g > generation /\ g >= progress.generation

\* The gates of the progress scripts: not behind the counter, not behind the
\* hash.  _PROGRESS_MAX_WRITE_LUA and _LUA_TERMINAL_GENERATION_GATE agree.
OwnsProgress(g) == g >= generation /\ g >= progress.generation

WriteProgress(g, status) ==
    progress' = IF OwnsProgress(g) THEN [generation |-> g, status |-> status] ELSE progress

Goto(g, s, label) == pc' = [pc EXCEPT ![g][s] = label]
Assign(g, s, l) == local' = [local EXCEPT ![g][s] = l]

-----------------------------------------------------------------------------
(* The web thread: retry route and enqueue_pipeline *)

EnqueuerAt(label) == enqueuer.pc = label
EnqueuerGoto(label) == enqueuer' = [enqueuer EXCEPT !.pc = label]

\* A request takes milliseconds from the claim to the bump, a callback little
\* more, and the user reacts to FAILED in seconds: only PromptRetry lets them meet.
MayOverlap ==
    PromptRetry \/ \A g \in Generations, s \in Stages : pc[g][s] \notin CallbackPcs

\* try_claim_retry and _reset_and_enqueue_retry: one conditional UPDATE.
ClaimRetry ==
    /\ EnqueuerAt("idle") /\ row.status = "failed"
    /\ enqueuer.attempts < MaxAttempts
    /\ MayOverlap
    /\ row' = [status |-> "queued", result_path |-> 0, stale |-> FALSE]
    /\ enqueuer' = [enqueuer EXCEPT !.pc = "bump", !.attempts = @ + 1]
    /\ UNCHANGED <<redisVars, fileVars, subjob, pc, local, reaper, budget>>

EnqueueBump ==
    /\ EnqueuerAt("bump") /\ BumpGeneration /\ MayOverlap
    /\ enqueuer' = [enqueuer EXCEPT !.pc = "del_progress", !.generation = generation + 1]
    /\ UNCHANGED <<row, progress, context, tracked, fileVars, subjob, pc, local, reaper, budget>>

DeleteProgress ==
    /\ EnqueuerAt("del_progress") /\ EnqueuerGoto("seed_progress")
    /\ progress' = [generation |-> 0, status |-> "none"]
    /\ UNCHANGED <<row, generation, context, tracked, fileVars, subjob, pc, local, reaper, budget>>

SeedProgress ==
    /\ EnqueuerAt("seed_progress") /\ EnqueuerGoto("del_context")
    /\ progress' = [generation |-> enqueuer.generation, status |-> "queued"]
    /\ UNCHANGED <<row, generation, context, tracked, fileVars, subjob, pc, local, reaper, budget>>

\* PipelineContextStore.initialize is a DEL followed by an HSET.
DeleteContext ==
    /\ EnqueuerAt("del_context") /\ EnqueuerGoto("seed_context")
    /\ context' = NoContext
    /\ UNCHANGED <<row, generation, progress, tracked, fileVars, subjob, pc, local, reaper, budget>>

SeedKeys == {"language"} \cup (IF HasDownload THEN {"source_url"} ELSE {"input_path"})

\* A URL job is seeded with an empty input_path, a file job with its upload.
SeedContext ==
    /\ EnqueuerAt("seed_context") /\ EnqueuerGoto("enqueue")
    /\ context' = [k \in Keys |-> IF k \in SeedKeys THEN enqueuer.generation
                                  ELSE IF k = "input_path" THEN 0 ELSE context[k]]
    /\ UNCHANGED <<row, generation, progress, tracked, fileVars, subjob, pc, local, reaper, budget>>

DependenciesMet(g, s) == \A d \in DependsOn(s) : subjob[g][d] = "finished"

\* Queue.enqueue of the next stage: queued, or deferred behind depends_on.
EnqueueStage(s) ==
    LET g == enqueuer.generation IN
    /\ EnqueuerAt("enqueue") /\ g \in Generations
    /\ subjob[g][s] = "none"
    /\ \A t \in Stages : Rank(t) < Rank(s) => subjob[g][t] # "none"
    /\ subjob' = [subjob EXCEPT ![g][s] = IF DependenciesMet(g, s) THEN "queued" ELSE "deferred"]
    /\ enqueuer' = [enqueuer EXCEPT !.pc = "record", !.stage = s]
    /\ UNCHANGED <<row, redisVars, fileVars, pc, local, reaper, budget>>

\* _record_subjob; after the last stage enqueue_pipeline returns.
RecordSubjob ==
    LET g == enqueuer.generation
        last == \A t \in Stages : subjob[g][t] # "none" IN
    /\ EnqueuerAt("record") /\ g \in Generations
    /\ EnqueuerGoto(IF last THEN "idle" ELSE "enqueue")
    /\ tracked' = [tracked EXCEPT ![g] = @ \cup {enqueuer.stage}]
    /\ UNCHANGED <<row, generation, progress, context, fileVars, subjob, pc, local, reaper, budget>>

\* Any Redis call of enqueue_pipeline may raise ...
EnqueueRaises ==
    /\ enqueuer.pc \notin {"idle", "failed"} /\ EnqueuerGoto("failed")
    /\ budget.enqueue > 0 /\ budget' = [budget EXCEPT !.enqueue = @ - 1]
    /\ UNCHANGED <<row, redisVars, fileVars, subjob, pc, local, reaper>>

\* ... and the route then calls mark_enqueue_failed with its own Job object.
MarkEnqueueFailed ==
    /\ EnqueuerAt("failed") /\ EnqueuerGoto("idle")
    /\ UpdateJob([status |-> "failed", result_path |-> 0])
    /\ UNCHANGED <<redisVars, fileVars, subjob, pc, local, reaper, budget>>

\* The frontend's process dies in the middle of it.
EnqueuerDies ==
    /\ ~EnqueuerAt("idle") /\ EnqueuerGoto("idle")
    /\ budget.enqueue > 0 /\ budget' = [budget EXCEPT !.enqueue = @ - 1]
    /\ UNCHANGED <<row, redisVars, fileVars, subjob, pc, local, reaper>>

Enqueuer ==
    \/ EnqueueBump \/ DeleteProgress \/ SeedProgress \/ DeleteContext \/ SeedContext
    \/ \E s \in Stages : EnqueueStage(s)
    \/ RecordSubjob \/ MarkEnqueueFailed

-----------------------------------------------------------------------------
(* The stage driver: _run_single_stage and run_transcribe_align *)

Serving == {sub \in Generations \X Stages : pc[sub[1]][sub[2]] \in RunningPcs}

\* A free worker takes a queued sub-job.
StartSubjob(g, s) ==
    /\ Cardinality(Serving) < Workers
    /\ subjob[g][s] = "queued" /\ pc[g][s] = "idle"
    /\ subjob' = [subjob EXCEPT ![g][s] = "started"]
    /\ Goto(g, s, "load_job")
    /\ UNCHANGED <<row, redisVars, fileVars, local, enqueuer, reaper, budget>>

LoadJob(g, s) ==
    /\ pc[g][s] = "load_job"
    /\ Assign(g, s, [local[g][s] EXCEPT
                       !.job = [status |-> row.status, result_path |-> row.result_path]])
    /\ Goto(g, s, IF row.status = "queued" THEN "mark_processing" ELSE "load_context")
    /\ UNCHANGED <<row, redisVars, fileVars, subjob, enqueuer, reaper, budget>>

\* _mark_processing_if_queued, decided on the snapshot of LoadJob.
MarkProcessing(g, s) ==
    LET job == [local[g][s].job EXCEPT !.status = "processing"] IN
    /\ pc[g][s] = "mark_processing" /\ Goto(g, s, "load_context")
    /\ UpdateJob(job)
    /\ Assign(g, s, [local[g][s] EXCEPT !.job = job])
    /\ UNCHANGED <<redisVars, fileVars, subjob, enqueuer, reaper, budget>>

\* Does pre_context_update write?  _seed_file_input only without an input_path.
Seeds(s) ==
    \/ s = "download"
    \/ s = "preprocess" /\ context["input_path"] = 0

\* What a local copy of the context keeps: the keys its holder reads.
Loaded(keys) == [k \in Keys |-> IF k \in keys THEN context[k] ELSE 0]

LoadContext(g, s) ==
    /\ pc[g][s] = "load_context"
    /\ Assign(g, s, [local[g][s] EXCEPT !.context = Loaded(InputKeys(s))])
    /\ Goto(g, s, IF Seeds(s) THEN "seed" ELSE "run")
    /\ UNCHANGED <<row, redisVars, fileVars, subjob, enqueuer, reaper, budget>>

\* _seed_download_context and _seed_file_input: updates no generation gates.
\* The first writes back the input_path it loaded; the second writes
\* job.filepath, which is the upload of a file job and, for a URL job, the
\* upload directory, no usable input (0).
SeedFromJob(g, s) ==
    LET loaded == local[g][s].context
        input == IF s = "download" THEN loaded["input_path"]
                 ELSE IF HasDownload THEN 0 ELSE g
        url == IF loaded["source_url"] = 0 THEN g ELSE loaded["source_url"]
        Seeded(c) == [c EXCEPT !["input_path"] = input,
                               !["source_url"] = IF s = "download" THEN url ELSE @] IN
    /\ pc[g][s] = "seed" /\ Goto(g, s, "run")
    /\ context' = Seeded(context)
    /\ Assign(g, s, [local[g][s] EXCEPT !.context = Seeded(loaded)])
    /\ UNCHANGED <<row, generation, progress, tracked, fileVars, subjob, enqueuer, reaper, budget>>

\* RedisProgressReporter.report of a running stage: REJECTED changes nothing.
Report(g, s) ==
    /\ pc[g][s] = "run" /\ OwnsProgress(g)
    /\ WriteProgress(g, "processing") /\ Goto(g, s, "mirror")
    /\ UNCHANGED <<row, generation, context, tracked, fileVars, subjob, local, enqueuer,
                   reaper, budget>>

\* report during a Redis outage (DEGRADED).
ReportDegraded(g, s) ==
    /\ pc[g][s] = "run" /\ Goto(g, s, "degraded")
    /\ budget.store > 0 /\ budget' = [budget EXCEPT !.store = @ - 1]
    /\ UNCHANGED <<row, redisVars, fileVars, subjob, local, enqueuer, reaper>>

\* The accepted report is mirrored by update_job from the stage's snapshot.
Mirror(g, s) ==
    /\ pc[g][s] = "mirror" /\ Goto(g, s, "run")
    /\ UpdateJob(local[g][s].job)
    /\ UNCHANGED <<redisVars, fileVars, subjob, local, enqueuer, reaper, budget>>

\* The degraded one by update_job_progress, which leaves status alone.
MirrorDegraded(g, s) ==
    /\ pc[g][s] = "degraded" /\ Goto(g, s, "run")
    /\ row' = [row EXCEPT !.stale = FALSE]
    /\ UNCHANGED <<redisVars, fileVars, subjob, local, enqueuer, reaper, budget>>

\* What stage.execute cannot do without.  The later stages read with .get and
\* accept an absent input.
Executable(g, s) ==
    /\ s = "preprocess" => local[g][s].context["input_path"] # 0
    /\ s \in {"transcribe_align", "diarize"} => local[g][s].context["audio_path"] # 0 /\ wav

StageReturns(g, s) ==
    /\ pc[g][s] = "run" /\ Executable(g, s) /\ Goto(g, s, "persist")
    /\ wav' = (wav \/ s = "preprocess")
    /\ UNCHANGED <<row, redisVars, transcript, subjob, local, enqueuer, reaper, budget>>

\* The stage cannot run, or an exception or the RQ death penalty strikes at any
\* point of the task.  Preprocess may have left its WAV by then.
StageRaises(g, s) ==
    /\ pc[g][s] \in StagePcs /\ Goto(g, s, "ff_stale")
    /\ \/ pc[g][s] = "run" /\ ~Executable(g, s) /\ UNCHANGED budget
       \/ budget.failure > 0 /\ budget' = [budget EXCEPT !.failure = @ - 1]
    /\ wav' \in IF s = "preprocess" /\ pc[g][s] = "run" THEN BOOLEAN ELSE {wav}
    /\ Assign(g, s, [FreshLocal EXCEPT !.failing = TRUE])
    /\ UNCHANGED <<row, redisVars, transcript, subjob, enqueuer, reaper>>

\* The stages that skip leave their declared output unset: assign_speakers
\* without both branches' results, llm_correction without a transcript.
Produces(g, s) ==
    LET loaded == local[g][s].context IN
    /\ s = "assign_speakers" => loaded["aligned_result"] # 0 /\ loaded["diarize_result"] # 0
    /\ s = "llm_correction" => loaded["transcript_result"] # 0

\* _persist_outputs through update_if_generation_matches.
PersistOutputs(g, s) ==
    /\ pc[g][s] = "persist"
    /\ Goto(g, s, IF IsFinal(s) THEN "fs_stale" ELSE "ack")
    /\ context' = IF OwnsContext(g) /\ Produces(g, s)
                  THEN [context EXCEPT ![OutputKey(s)] = g] ELSE context
    /\ Assign(g, s, FreshLocal)
    /\ UNCHANGED <<row, generation, progress, tracked, fileVars, subjob, enqueuer, reaper, budget>>

RunStage(g, s) ==
    \/ LoadJob(g, s) \/ MarkProcessing(g, s) \/ LoadContext(g, s) \/ SeedFromJob(g, s)
    \/ Mirror(g, s) \/ MirrorDegraded(g, s) \/ PersistOutputs(g, s)

-----------------------------------------------------------------------------
(* finalize_success *)

\* One step of a callback: at from, go to to.
Step(g, s, from, to) == pc[g][s] = from /\ Goto(g, s, to)

CheckSuccessStale(g, s) ==
    /\ Step(g, s, "fs_stale", IF IsStale(g) THEN "ack" ELSE "fs_job")
    /\ UNCHANGED <<row, redisVars, fileVars, subjob, local, enqueuer, reaper, budget>>

\* A job already terminal is left alone.
ReadJobOnSuccess(g, s) ==
    /\ Step(g, s, "fs_job", IF row.status \in Active THEN "fs_context" ELSE "ack")
    /\ Assign(g, s, [local[g][s] EXCEPT
                       !.job = [status |-> row.status, result_path |-> row.result_path]])
    /\ UNCHANGED <<row, redisVars, fileVars, subjob, enqueuer, reaper, budget>>

\* Mutant: the transcript is not checked for.
ReadContextOnSuccess_Unchecked(g, s) ==
    /\ Step(g, s, "fs_context", "save")
    /\ Assign(g, s, [local[g][s] EXCEPT !.context = Loaded({"audio_path", "transcript_result"})])
    /\ UNCHANGED <<row, redisVars, fileVars, subjob, enqueuer, reaper, budget>>

ReadContextOnSuccess(g, s) ==
    /\ Step(g, s, "fs_context", IF context["transcript_result"] # 0 THEN "save" ELSE "missing_row")
    /\ Assign(g, s, [local[g][s] EXCEPT !.context = Loaded({"audio_path", "transcript_result"})])
    /\ UNCHANGED <<row, redisVars, fileVars, subjob, enqueuer, reaper, budget>>

\* Mutant: the job takes the status that RQ gives its sub-job, which is still STARTED
\* while a callback runs.
MarkFailedRow_SubjobStatus(g, s) ==
    LET job == [local[g][s].job EXCEPT !.status = subjob[g][s]] IN
    /\ \/ Step(g, s, "missing_row", "missing_progress")
       \/ Step(g, s, "fail_row", "fail_progress")
       \/ Step(g, s, "ff_row", "ff_progress")
    /\ UpdateJob(job)
    /\ Assign(g, s, [local[g][s] EXCEPT !.job = job])
    /\ UNCHANGED <<redisVars, fileVars, subjob, enqueuer, reaper, budget>>

\* mark_failed in its two writes, shared by the paths that call it.
MarkFailedRow(g, s) ==
    LET job == [local[g][s].job EXCEPT !.status = "failed"] IN
    /\ \/ Step(g, s, "missing_row", "missing_progress")
       \/ Step(g, s, "fail_row", "fail_progress")
       \/ Step(g, s, "ff_row", "ff_progress")
    /\ UpdateJob(job)
    /\ Assign(g, s, [local[g][s] EXCEPT !.job = job])
    /\ UNCHANGED <<redisVars, fileVars, subjob, enqueuer, reaper, budget>>

MarkFailedProgress(g, s) ==
    /\ \/ Step(g, s, "missing_progress", "missing_context")
       \/ Step(g, s, "fail_progress", "completion_wav")
       \/ Step(g, s, "ff_progress", "ff_bump")
    /\ WriteProgress(g, "failed")
    /\ UNCHANGED <<row, generation, context, tracked, fileVars, subjob, local, enqueuer,
                   reaper, budget>>

\* _persist_completion: result file, row, progress hash.
SaveResult(g, s) ==
    /\ Step(g, s, "save", "complete_row")
    /\ transcript' = local[g][s].context["transcript_result"]
    /\ Assign(g, s, [local[g][s] EXCEPT
                       !.job = [status |-> "completed",
                                result_path |-> local[g][s].context["transcript_result"]]])
    /\ UNCHANGED <<row, redisVars, wav, subjob, enqueuer, reaper, budget>>

CompleteRow(g, s) ==
    /\ Step(g, s, "complete_row", "complete_progress")
    /\ UpdateJob(local[g][s].job)
    /\ UNCHANGED <<redisVars, fileVars, subjob, local, enqueuer, reaper, budget>>

CompleteProgress(g, s) ==
    /\ Step(g, s, "complete_progress", "completion_wav")
    /\ WriteProgress(g, "completed")
    /\ UNCHANGED <<row, generation, context, tracked, fileVars, subjob, local, enqueuer,
                   reaper, budget>>

-----------------------------------------------------------------------------
(* finalize_failure *)

CheckFailureStale(g, s) ==
    /\ Step(g, s, "ff_stale", IF IsStale(g) THEN "ack" ELSE "ff_job")
    /\ UNCHANGED <<row, redisVars, fileVars, subjob, local, enqueuer, reaper, budget>>

\* Only a FAILED job is skipped.
ReadJobOnFailure(g, s) ==
    /\ Step(g, s, "ff_job", IF row.status = "failed" THEN "ack" ELSE "ff_context")
    /\ Assign(g, s, [local[g][s] EXCEPT
                       !.job = [status |-> row.status, result_path |-> row.result_path]])
    /\ UNCHANGED <<row, redisVars, fileVars, subjob, enqueuer, reaper, budget>>

\* Mutant: the optional tail is not recognised.
Salvages_Never(s) == FALSE

\* A failed llm_correction with a transcript completes the job instead.
Salvages(s) == s = "llm_correction" /\ context["transcript_result"] # 0

ReadContextOnFailure(g, s) ==
    /\ Step(g, s, "ff_context", IF Salvages(s) THEN "save" ELSE "ff_load_ids")
    /\ Assign(g, s, [local[g][s] EXCEPT !.context = Loaded({"audio_path", "transcript_result"})])
    /\ UNCHANGED <<row, redisVars, fileVars, subjob, enqueuer, reaper, budget>>

LoadSubjobIds(g, s) ==
    /\ Step(g, s, "ff_load_ids", "ff_cancel")
    /\ Assign(g, s, [local[g][s] EXCEPT !.todo = tracked[g] \ {s}])
    /\ UNCHANGED <<row, redisVars, fileVars, subjob, enqueuer, reaper, budget>>

\* cancel_remaining_subjobs, one sibling at a time in the order SMEMBERS gave.
CancelSubjob(g, s) ==
    /\ pc[g][s] = "ff_cancel" /\ UNCHANGED pc
    /\ \E t \in local[g][s].todo :
          /\ subjob' = [subjob EXCEPT ![g][t] = "canceled"]
          /\ Assign(g, s, [local[g][s] EXCEPT !.todo = @ \ {t}])
    /\ UNCHANGED <<row, redisVars, fileVars, enqueuer, reaper, budget>>

CancelDone(g, s) ==
    /\ local[g][s].todo = {} /\ Step(g, s, "ff_cancel", "ff_row")
    /\ UNCHANGED <<row, redisVars, fileVars, subjob, local, enqueuer, reaper, budget>>

FenceGeneration(g, s) ==
    /\ Step(g, s, "ff_bump", "ff_wav") /\ BumpGeneration
    /\ UNCHANGED <<row, progress, context, tracked, fileVars, subjob, local, enqueuer,
                   reaper, budget>>

-----------------------------------------------------------------------------
(* The clean-up of both callbacks *)

CleanupWav(g, s) ==
    /\ \/ Step(g, s, "completion_wav", "completion_context")
       \/ Step(g, s, "ff_wav", "ff_delete")
    /\ wav' = (wav /\ local[g][s].context["audio_path"] = 0)
    /\ UNCHANGED <<row, redisVars, transcript, subjob, local, enqueuer, reaper, budget>>

CleanupContext(g, s) ==
    /\ \/ Step(g, s, "missing_context", "missing_clear")
       \/ Step(g, s, "completion_context", "completion_clear")
       \/ Step(g, s, "ff_delete", "ff_clear")
    /\ context' = NoContext
    /\ UNCHANGED <<row, generation, progress, tracked, fileVars, subjob, local, enqueuer,
                   reaper, budget>>

\* Where a callback goes once _persist_completion has cleaned up: a success
\* callback that re-raises is followed by the failure callback.
AfterCompletion(g, s) ==
    IF local[g][s].raising /\ ~local[g][s].failing THEN "ff_stale" ELSE "ack"

ClearSubjobSet(g, s) ==
    /\ \/ Step(g, s, "missing_clear", "ack")
       \/ Step(g, s, "completion_clear", AfterCompletion(g, s))
       \/ Step(g, s, "ff_clear", "ack")
    /\ tracked' = [tracked EXCEPT ![g] = {}]
    /\ Assign(g, s, [FreshLocal EXCEPT !.failing = local[g][s].failing \/ local[g][s].raising])
    /\ UNCHANGED <<row, generation, progress, context, fileVars, subjob, enqueuer, reaper, budget>>

\* Where an exception raised at a callback's step leads.
OnException(g, s) ==
    LET at == pc[g][s] IN
    CASE at \in SuccessPcs \cup (MissingPcs \ {"missing_progress"}) -> "ff_stale"
      [] at = "missing_progress" -> "missing_context"
      [] at \in {"save", "complete_row"} -> "fail_row"
      [] at \in {"complete_progress", "fail_row", "fail_progress"} -> "completion_wav"
      [] at \in {"completion_context", "completion_clear"} -> AfterCompletion(g, s)
      [] at = "ff_progress" -> "ff_bump"
      [] at \in {"ff_load_ids", "ff_row", "ff_bump"} -> "ff_wav"
      [] OTHER -> "ack"

\* SQLite locked, disk full or a Redis outage at one of those steps.
CallbackRaises(g, s) ==
    /\ pc[g][s] \in CallbackPcs \ {"completion_wav", "ff_wav", "ff_cancel", "ack"}
    /\ budget.store > 0 /\ budget' = [budget EXCEPT !.store = @ - 1]
    /\ Goto(g, s, OnException(g, s))
    /\ Assign(g, s, [local[g][s] EXCEPT
                       !.failing = @ \/ OnException(g, s) = "ff_stale",
                       !.raising = @ \/ pc[g][s] = "fail_row"])
    /\ UNCHANGED <<row, redisVars, fileVars, subjob, enqueuer, reaper>>

Callback(g, s) ==
    \/ CheckSuccessStale(g, s) \/ ReadJobOnSuccess(g, s) \/ ReadContextOnSuccess(g, s)
    \/ MarkFailedRow(g, s) \/ MarkFailedProgress(g, s)
    \/ SaveResult(g, s) \/ CompleteRow(g, s) \/ CompleteProgress(g, s)
    \/ CheckFailureStale(g, s) \/ ReadJobOnFailure(g, s) \/ ReadContextOnFailure(g, s)
    \/ LoadSubjobIds(g, s) \/ CancelSubjob(g, s) \/ CancelDone(g, s) \/ FenceGeneration(g, s)
    \/ CleanupWav(g, s) \/ CleanupContext(g, s) \/ ClearSubjobSet(g, s)

-----------------------------------------------------------------------------
(* RQ, outside the repository *)

\* Both callbacks run while the sub-job is still STARTED.  Then RQ records the
\* outcome and, on success, enqueues the dependents that are not canceled.
AcknowledgeSubjob(g, s) ==
    LET outcome == IF local[g][s].failing THEN "failed" ELSE "finished"
        After(t) == IF t = s THEN outcome ELSE subjob[g][t]
        released == {t \in Stages : /\ outcome = "finished" /\ s \in DependsOn(t)
                                    /\ subjob[g][t] = "deferred"
                                    /\ \A d \in DependsOn(t) : After(d) = "finished"} IN
    /\ Step(g, s, "ack", "done")
    /\ subjob' = [subjob EXCEPT ![g] = [t \in Stages |-> IF t \in released THEN "queued"
                                                        ELSE After(t)]]
    /\ Assign(g, s, FreshLocal)
    /\ UNCHANGED <<row, redisVars, fileVars, enqueuer, reaper, budget>>

\* The stop command of cancel_remaining_subjobs reaches a forking worker.
KillHorse(g, s) ==
    /\ ForkingWorker
    /\ subjob[g][s] = "canceled" /\ pc[g][s] \in RunningPcs
    /\ Goto(g, s, "done") /\ Assign(g, s, FreshLocal)
    /\ UNCHANGED <<row, redisVars, fileVars, subjob, enqueuer, reaper, budget>>

\* The worker or its host dies; the sub-job stays STARTED.
Crash(g, s) ==
    /\ pc[g][s] \in RunningPcs
    /\ budget.crash > 0 /\ budget' = [budget EXCEPT !.crash = @ - 1]
    /\ Goto(g, s, "dead") /\ Assign(g, s, FreshLocal)
    /\ UNCHANGED <<row, redisVars, fileVars, subjob, enqueuer, reaper>>

\* RQ maintenance finds the abandoned sub-job and runs its failure callback.
Abandon(g, s) ==
    /\ subjob[g][s] = "started" /\ pc[g][s] = "dead"
    /\ Goto(g, s, "ff_stale") /\ Assign(g, s, [FreshLocal EXCEPT !.failing = TRUE])
    /\ UNCHANGED <<row, redisVars, fileVars, subjob, enqueuer, reaper, budget>>

-----------------------------------------------------------------------------
(* The stale-job reaper: recover_stale_pipeline_jobs, is_pipeline_dead *)

\* updated_at falls behind the threshold.  The threshold is hours and a request
\* takes seconds, so this does not happen while the web thread enqueues.  Only a
\* reaper looks.
Age ==
    /\ row.status \in Active /\ ~row.stale /\ EnqueuerAt("idle") /\ Reapers # {}
    /\ row' = [row EXCEPT !.stale = TRUE]
    /\ UNCHANGED <<redisVars, fileVars, subjob, pc, local, enqueuer, reaper, budget>>

ReaperStep(r, from, to) ==
    reaper[r].pc = from /\ reaper' = [reaper EXCEPT ![r].pc = to]

\* Mutant: QUEUED jobs are not candidates.
ListStale_ProcessingOnly(r) ==
    /\ row.status = "processing" /\ row.stale
    /\ ReaperStep(r, "idle", "generation")
    /\ UNCHANGED <<row, redisVars, fileVars, subjob, pc, local, enqueuer, budget>>

\* list_stale_active_job_ids returns the job.
ListStale(r) ==
    /\ row.status \in Active /\ row.stale
    /\ ReaperStep(r, "idle", "generation")
    /\ UNCHANGED <<row, redisVars, fileVars, subjob, pc, local, enqueuer, budget>>

ReadGeneration(r) ==
    /\ reaper[r].pc = "generation"
    /\ reaper' = [reaper EXCEPT ![r] = [pc |-> IF generation = 0 THEN "bump" ELSE "ids",
                                        generation |-> generation, todo |-> {}]]
    /\ UNCHANGED <<row, redisVars, fileVars, subjob, pc, local, enqueuer, budget>>

ReadSubjobIds(r) ==
    LET ids == IF reaper[r].generation \in Generations THEN tracked[reaper[r].generation] ELSE {} IN
    /\ reaper[r].pc = "ids"
    /\ reaper' = [reaper EXCEPT ![r] = [@ EXCEPT !.pc = IF ids = {} THEN "bump" ELSE "scan",
                                                 !.todo = ids]]
    /\ UNCHANGED <<row, redisVars, fileVars, subjob, pc, local, enqueuer, budget>>

\* One status at a time: the first live one spares the job.
ScanSubjob(r) ==
    LET g == reaper[r].generation
        todo == reaper[r].todo IN
    /\ reaper[r].pc = "scan" /\ g \in Generations
    /\ \E t \in todo :
          reaper' = [reaper EXCEPT ![r] =
              IF subjob[g][t] \in LiveStatus
              THEN [pc |-> "idle", generation |-> 0, todo |-> {}]
              ELSE [@ EXCEPT !.todo = todo \ {t}, !.pc = IF todo = {t} THEN "bump" ELSE "scan"]]
    /\ UNCHANGED <<row, redisVars, fileVars, subjob, pc, local, enqueuer, budget>>

ReaperBump(r) ==
    /\ ReaperStep(r, "bump", "update") /\ BumpGeneration
    /\ UNCHANGED <<row, progress, context, tracked, fileVars, subjob, pc, local, enqueuer, budget>>

\* recover_stale_jobs re-checks status and updated_at in its UPDATE.
RecoverStale(r) ==
    /\ reaper[r].pc = "update"
    /\ reaper' = [reaper EXCEPT ![r] = [pc |-> "idle", generation |-> 0, todo |-> {}]]
    /\ row' = IF row.status \in Active /\ row.stale
              THEN [row EXCEPT !.status = "failed", !.stale = FALSE] ELSE row
    /\ UNCHANGED <<redisVars, fileVars, subjob, pc, local, enqueuer, budget>>

Reap(r) ==
    \/ ListStale(r) \/ ReadGeneration(r) \/ ReadSubjobIds(r) \/ ScanSubjob(r)
    \/ ReaperBump(r) \/ RecoverStale(r)

-----------------------------------------------------------------------------
Next ==
    \/ ClaimRetry \/ Enqueuer \/ EnqueueRaises \/ EnqueuerDies \/ Age
    \/ \E r \in Reapers : Reap(r)
    \/ \E g \in Generations, s \in Stages :
          \/ StartSubjob(g, s) \/ RunStage(g, s) \/ Report(g, s) \/ ReportDegraded(g, s)
          \/ StageReturns(g, s) \/ StageRaises(g, s)
          \/ Callback(g, s) \/ CallbackRaises(g, s)
          \/ AcknowledgeSubjob(g, s) \/ KillHorse(g, s) \/ Crash(g, s) \/ Abandon(g, s)

Spec == Init /\ [][Next]_vars

WorkerStep ==
    \E g \in Generations, s \in Stages :
        \/ StartSubjob(g, s) \/ RunStage(g, s) \/ Callback(g, s)
        \/ AcknowledgeSubjob(g, s) \/ Abandon(g, s)

StageEnds == \E g \in Generations, s \in Stages : StageReturns(g, s) \/ StageRaises(g, s)

\* The worker loops, RQ maintenance and the reapers' loops run forever, a stage
\* ends after finitely many reports, and time passes.  A job has finitely many
\* sub-jobs, so fairness to some worker step is fairness to each.  Nothing makes
\* the user retry or a fault happen.
Fairness ==
    /\ WF_vars(Enqueuer) /\ WF_vars(Age) /\ \A r \in Reapers : WF_vars(Reap(r))
    /\ WF_vars(WorkerStep) /\ SF_vars(StageEnds)

FairSpec == Spec /\ Fairness
=============================================================================
