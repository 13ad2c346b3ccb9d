---------------------------- MODULE SerialProofs ----------------------------
(***************************************************************************)
(* Theorems about the jobs of Pipeline whose stages run one at a time and  *)
(* meet no fault but their own failures: what comes to rest is settled     *)
(* (HashMatchesRow, NothingLeftBehind), a COMPLETED row has its transcript *)
(* (CompletedMeansSaved), llm_correction costs no transcript               *)
(* (OptionalStageNeverFailsJob), and Pipeline implements JobLifecycle.     *)
(***************************************************************************)
EXTENDS AttemptProofs

-----------------------------------------------------------------------------
(* A job whose stages run one at a time *)

\* No branch that diarizes, and neither faults nor reapers nor a retry that
\* overlaps a callback.  Stages may still fail, for any number of attempts.
Undisturbed ==
    /\ ~HasDiarize /\ ~PromptRetry /\ Reapers = {}
    /\ MaxCrashes = 0 /\ MaxEnqueueFaults = 0 /\ MaxStoreFaults = 0

FirstStage == IF HasDownload THEN "download" ELSE "preprocess"

\* A process serves the sub-job, or RQ will start one.
Live(g, s) == pc[g][s] \in RunningPcs \/ (subjob[g][s] = "queued" /\ pc[g][s] = "idle")

\* At most one sub-job is live, and it is one of the newest attempt.
OneLive ==
    \A g \in Generations, s \in Stages : Live(g, s) =>
        g = enqueuer.generation /\ \A t \in Stages : Live(g, t) => t = s

\* While enqueue_pipeline counts an attempt and resets its hashes, nothing is live.
Resetting ==
    /\ enqueuer.pc # "failed"
    /\ enqueuer.pc \in {"bump", "del_progress", "seed_progress", "del_context", "seed_context"} =>
           /\ row.status = "queued" /\ \A g \in Generations, s \in Stages : ~Live(g, s)
           /\ enqueuer.pc # "bump" => enqueuer.generation = generation

\* What stage s of attempt g finds, and what is so until its callback writes the row.
Ready(g, s) ==
    /\ generation = g /\ row.status \in Active
    /\ s # FirstStage => row.status = "processing"
    /\ s \notin {"download", "preprocess"} => context["audio_path"] = g
    /\ s = "llm_correction" => context["transcript_result"] = g

\* So does a stage that is enqueued after its dependency has finished, alone.
Starting ==
    LET n == enqueuer.generation IN
    \A s \in Stages :
        /\ enqueuer.pc \in {"enqueue", "record"} /\ n \in Generations
        /\ subjob[n][s] = "none" /\ DependenciesMet(n, s)
        => Ready(n, s) /\ \A t \in Stages : ~Live(n, t)

\* How the stores agree once the attempt is over.
Settled ==
    /\ progress.status = row.status /\ context = NoContext
    /\ row.status = "completed" => ~wav

\* What the stores hold at each label of the live process.
Phase(g, s) ==
    LET at == pc[g][s]
        l == local[g][s] IN
    /\ at \notin MissingPcs \cup {"fail_row", "fail_progress", "dead"}
    /\ at \in {"idle", "load_job", "mark_processing", "ff_stale", "ff_job", "ff_context",
               "ff_load_ids", "ff_cancel", "ff_row"} => Ready(g, s)
    /\ at \in {"load_context", "seed", "run", "mirror", "degraded", "persist"} =>
           Ready(g, s) /\ row.status = "processing" /\ l.job.status = "processing"
    /\ at \in SuccessPcs =>
           /\ Ready(g, s) /\ row.status = "processing"
           /\ context["transcript_result"] = g
    /\ at \in {"save", "complete_row"} => Ready(g, s) /\ row.status = "processing"
    /\ at \in {"save", "complete_row", "complete_progress", "completion_wav"} =>
           l.context["audio_path"] = g
    /\ at = "save" => l.context["transcript_result"] = g
    /\ at = "complete_row" => l.job = [status |-> "completed", result_path |-> g] /\ transcript = g
    /\ at \in {"complete_progress", "ff_progress"} => generation = g
    /\ at \in {"complete_progress", "completion_wav", "completion_context", "completion_clear"} =>
           row.status = "completed"
    /\ at \in {"completion_wav", "completion_context", "completion_clear"} =>
           progress.status = "completed"
    /\ at \in {"completion_context", "completion_clear"} => ~wav
    /\ at \in {"completion_clear", "ff_clear"} => context = NoContext
    /\ at \in {"ff_progress", "ff_bump", "ff_wav", "ff_delete", "ff_clear"} => row.status = "failed"
    /\ at \in {"ff_bump", "ff_wav", "ff_delete", "ff_clear"} => progress.status = "failed"
    /\ at \in {"ff_load_ids", "ff_cancel", "ff_row", "ff_progress", "ff_bump", "ff_wav",
               "ff_delete", "ff_clear"} => s # "llm_correction"
    /\ at = "ack" =>
           \/ /\ ~l.failing /\ s # FinalStage /\ row.status = "processing"
              /\ \A t \in Stages : s \in DependsOn(t) => Ready(g, t)
           \/ (l.failing \/ s = FinalStage) /\ row.status \in Terminal /\ Settled

Phases == \A g \in Generations, s \in Stages : Live(g, s) => Phase(g, s)

\* A terminal row without a live sub-job is settled.
Ended ==
    row.status \in Terminal /\ (\A g \in Generations, s \in Stages : ~Live(g, s)) => Settled

\* Where the transcript is from, and that the hash is not ahead.
Saved ==
    /\ transcript <= enqueuer.generation /\ progress.generation <= enqueuer.generation
    /\ CompletedMeansSaved

\* No running sub-job is canceled, and no process is killed or raises twice.
Unharmed ==
    \A g \in Generations, s \in Stages :
        /\ pc[g][s] # "dead" /\ ~local[g][s].raising
        /\ pc[g][s] \in RunningPcs => subjob[g][s] = "started"
        /\ pc[g][s] = "ff_cancel" => s \notin local[g][s].todo

SerialInv == OneLive /\ Resetting /\ Starting /\ Phases /\ Ended /\ Saved /\ Unharmed

LEMMA SerialInit == Init => SerialInv
BY PipelineAssumption
DEF Init, SerialInv, OneLive, Resetting, Starting, Phases, Ended, Saved, Unharmed, Live, RunningPcs,
    StagePcs, CallbackPcs, SuccessPcs, MissingPcs, CompletionPcs, FailurePcs, FreshLocal, Terminal,
    CompletedMeansSaved, Generations, PipelineAssumption

-----------------------------------------------------------------------------
(* One live sub-job *)

\* Without diarization every stage has one successor, if any.
LEMMA SerialDag ==
    ASSUME ~HasDiarize
    PROVE  /\ FirstStage \in Stages
           /\ \A s \in Stages : DependsOn(s) = {} <=> s = FirstStage
           /\ \A s, t1, t2 \in Stages : s \in DependsOn(t1) /\ s \in DependsOn(t2) => t1 = t2
           /\ \A s, t \in Stages : s \in DependsOn(t) => s # t /\ s # FinalStage /\ t # FirstStage
           /\ \A s, t \in Stages : s \in DependsOn(t) =>
                 /\ t = "llm_correction" <=> s = "postprocess"
                 /\ s \in {"download", "preprocess"} /\ t \notin {"download", "preprocess"} =>
                        s = "preprocess"
           /\ \A s \in Stages : Rank(s) >= Rank(FirstStage)
BY DEF FirstStage, FinalStage, Stages, AllStages, DependsOn, Rank

\* Only the live sub-job takes steps, and none of those that faults would add.
LEMMA LiveSteps ==
    ASSUME TypeOK, SerialInv, Undisturbed, NEW g \in Generations, NEW s \in Stages, ProcessStep(g, s)
    PROVE  /\ Live(g, s) /\ g = enqueuer.generation
           /\ \A h \in Generations, t \in Stages : Live(h, t) => h = g /\ t = s
           /\ enqueuer.pc \in {"idle", "enqueue", "record"}
           /\ ~CallbackRaises(g, s) /\ ~ReportDegraded(g, s)
           /\ ~KillHorse(g, s) /\ ~Crash(g, s) /\ ~Abandon(g, s)
           /\ Phase(g, s)
<1>1. ~CallbackRaises(g, s) /\ ~ReportDegraded(g, s) /\ ~Crash(g, s)
  BY DEF Undisturbed, CallbackRaises, ReportDegraded, Crash, TypeOK, BudgetType
<1>2. ~KillHorse(g, s) /\ ~Abandon(g, s)
  BY DEF SerialInv, Unharmed, KillHorse, Abandon
<1>3. Live(g, s)
  <2> USE DEF Live, RunningPcs, StagePcs, CallbackPcs, SuccessPcs, MissingPcs, CompletionPcs, FailurePcs
  <2>1. CASE StartSubjob(g, s) \/ RunStage(g, s) \/ Report(g, s) \/ StageReturns(g, s) \/ StageRaises(g, s)
    BY <2>1
    DEF StartSubjob, RunStage, LoadJob, MarkProcessing, LoadContext, SeedFromJob, Mirror,
        MirrorDegraded, PersistOutputs, Report, StageReturns, StageRaises
  <2>2. CASE Callback(g, s) \/ AcknowledgeSubjob(g, s)
    BY <2>2
    DEF Callback, Step, CheckSuccessStale, ReadJobOnSuccess, ReadContextOnSuccess, MarkFailedRow,
        MarkFailedProgress, SaveResult, CompleteRow, CompleteProgress, CheckFailureStale,
        ReadJobOnFailure, ReadContextOnFailure, LoadSubjobIds, CancelSubjob, CancelDone,
        FenceGeneration, CleanupWav, CleanupContext, ClearSubjobSet, AcknowledgeSubjob
  <2> QED BY <1>1, <1>2, <2>1, <2>2 DEF ProcessStep
<1>4. enqueuer.pc \in {"idle", "enqueue", "record"}
  BY <1>3 DEF SerialInv, Resetting, TypeOK, EnqueuerType, EnqueuerPcs
<1> QED
  BY <1>1, <1>2, <1>3, <1>4 DEF SerialInv, OneLive, Phases

\* After a step other than the last the same sub-job is live.
LEMMA StaysLive ==
    ASSUME TypeOK, ContextInv, InputsInv, SerialInv, Undisturbed,
           NEW g \in Generations, NEW s \in Stages, ProcessStep(g, s), ~AcknowledgeSubjob(g, s)
    PROVE  /\ pc'[g][s] \in RunningPcs
           /\ \A h \in Generations, t \in Stages : Live(h, t)' => h = g /\ t = s
<1>1. \A label : Goto(g, s, label) => pc'[g][s] = label
  BY DEF TypeOK, PerSubjob, Goto
<1>2. pc'[g][s] \in RunningPcs
  <2> USE DEF RunningPcs, StagePcs, CallbackPcs, SuccessPcs, MissingPcs, CompletionPcs, FailurePcs
  <2>1. CASE StartSubjob(g, s) \/ RunStage(g, s) \/ Report(g, s) \/ StageReturns(g, s) \/ StageRaises(g, s)
    BY <1>1, <2>1
    DEF StartSubjob, RunStage, LoadJob, MarkProcessing, LoadContext, SeedFromJob, Mirror,
        MirrorDegraded, PersistOutputs, Report, StageReturns, StageRaises
  <2>2. CASE Callback(g, s)
    BY <1>1, <2>2
    DEF Callback, Step, CheckSuccessStale, ReadJobOnSuccess, ReadContextOnSuccess, MarkFailedRow,
        MarkFailedProgress, SaveResult, CompleteRow, CompleteProgress, CheckFailureStale,
        ReadJobOnFailure, ReadContextOnFailure, LoadSubjobIds, CancelSubjob, CancelDone,
        FenceGeneration, CleanupWav, CleanupContext, ClearSubjobSet, AfterCompletion
  <2> QED BY <2>1, <2>2, LiveSteps DEF ProcessStep
<1>3. ASSUME NEW h \in Generations, NEW t \in Stages, Live(h, t)', <<h, t>> # <<g, s>> PROVE FALSE
  <2>1. pc'[h][t] = pc[h][t] /\ ~Live(h, t)
    BY <1>3, OneProcess, LiveSteps
  <2>2. subjob'[h][t] = "queued" => subjob[h][t] = "queued"
    BY <1>3, Statuses DEF InputsInv
  <2> QED BY <1>3, <2>1, <2>2 DEF Live
<1> QED
  BY <1>2, <1>3

-----------------------------------------------------------------------------
(* The stores under the live process *)

\* What a process may rely on when it takes a step.
LEMMA Grounds ==
    ASSUME TypeOK, ContextInv, InputsInv, SerialInv, Undisturbed,
           NEW g \in Generations, NEW s \in Stages, ProcessStep(g, s)
    PROVE  /\ g \in Nat \ {0} /\ g = enqueuer.generation /\ generation \in Nat
           /\ ~local[g][s].raising
           /\ pc[g][s] \in SuccessPcs \cup MissingPcs \cup CompletionPcs => s = FinalStage
           /\ pc[g][s] \in FailurePcs => local[g][s].failing
           /\ progress.generation \in Nat /\ progress.generation <= g
           /\ local[g][s] \in Locals
           /\ \A label : Goto(g, s, label) => pc'[g][s] = label
           /\ \A l : Assign(g, s, l) => local'[g][s] = l
<1>1. g = enqueuer.generation
  BY LiveSteps
<1>2. local[g][s] \in Locals
  BY LocalType
<1>3. ~local[g][s].raising /\ progress.generation <= g
  BY <1>1 DEF SerialInv, Unharmed, Saved
<1>4. /\ pc[g][s] \in SuccessPcs \cup MissingPcs \cup CompletionPcs => s = FinalStage
      /\ pc[g][s] \in FailurePcs => local[g][s].failing
  BY DEF InputsInv, CallbackShape
<1>5. g \in Nat \ {0} /\ generation \in Nat /\ progress.generation \in Nat
  BY PipelineAssumption DEF TypeOK, Source, ProgressType, Generations, PipelineAssumption
<1>6. \A label : Goto(g, s, label) => pc'[g][s] = label
  BY DEF TypeOK, PerSubjob, Goto
<1>7. \A l : Assign(g, s, l) => local'[g][s] = l
  BY DEF TypeOK, PerSubjob, Assign
<1> QED
  BY <1>1, <1>2, <1>3, <1>4, <1>5, <1>6, <1>7

\* The stage driver.
LEMMA PhaseStage ==
    ASSUME TypeOK, ContextInv, InputsInv, SerialInv, Undisturbed,
           NEW g \in Generations, NEW s \in Stages, ProcessStep(g, s),
           \/ StartSubjob(g, s) \/ RunStage(g, s) \/ Report(g, s) \/ StageReturns(g, s)
           \/ StageRaises(g, s)
    PROVE  Phase(g, s)'
<1>1. Phase(g, s)
  BY LiveSteps
<1>2. /\ local[g][s] \in Locals /\ g \in Nat \ {0}
      /\ \A label : Goto(g, s, label) => pc'[g][s] = label
      /\ \A l : Assign(g, s, l) => local'[g][s] = l
  BY Grounds
<1> USE DEF Phase, SuccessPcs, MissingPcs, StagePcs
<1>3. ASSUME Ready(g, s), UNCHANGED <<generation, row>>,
             \A k \in {"audio_path", "transcript_result"} : context'[k] = context[k]
      PROVE  Ready(g, s)'
  BY <1>3 DEF Ready
<1>4. CASE StartSubjob(g, s)
  <2>1. Ready(g, s)'
    BY <1>1, <1>3, <1>4 DEF StartSubjob, redisVars
  <2> QED BY <1>2, <1>4, <2>1 DEF StartSubjob
<1>5. CASE LoadJob(g, s)
  <2>1. Ready(g, s)
    BY <1>1, <1>5 DEF LoadJob
  <2>2. Ready(g, s)'
    BY <1>3, <1>5, <2>1 DEF LoadJob, redisVars
  <2>3. local'[g][s].job.status = row.status
    BY <1>2, <1>5 DEF LoadJob, Locals
  <2>4. row.status = "queued" \/ row.status = "processing"
    BY <2>1 DEF Ready, Active
  <2> QED BY <1>2, <1>5, <2>2, <2>3, <2>4 DEF LoadJob
<1>6. CASE MarkProcessing(g, s)
  <2>1. row'.status = "processing" /\ local'[g][s].job.status = "processing"
    BY <1>2, <1>6 DEF MarkProcessing, UpdateJob, Locals, Jobs
  <2>2. Ready(g, s)'
    BY <1>1, <1>6, <2>1 DEF MarkProcessing, Ready, Active, redisVars
  <2> QED BY <1>2, <1>6, <2>1, <2>2 DEF MarkProcessing
<1>7. CASE LoadContext(g, s)
  <2>1. Ready(g, s)' /\ row'.status = "processing"
    BY <1>1, <1>3, <1>7 DEF LoadContext, redisVars
  <2>2. local'[g][s].job.status = "processing"
    BY <1>1, <1>2, <1>7 DEF LoadContext, Locals
  <2> QED BY <1>2, <1>7, <2>1, <2>2 DEF LoadContext
<1>8. CASE SeedFromJob(g, s)
  <2>1. \A k \in {"audio_path", "transcript_result"} : context'[k] = context[k]
    BY <1>8 DEF SeedFromJob, TypeOK, Contexts, Keys, OutputKeys
  <2>2. Ready(g, s)' /\ row'.status = "processing"
    BY <1>1, <1>3, <1>8, <2>1 DEF SeedFromJob
  <2>3. local'[g][s].job.status = "processing"
    BY <1>1, <1>2, <1>8 DEF SeedFromJob, Locals
  <2> QED BY <1>2, <1>8, <2>2, <2>3 DEF SeedFromJob
<1>9. CASE Mirror(g, s)
  <2>1. row'.status = "processing" /\ local'[g][s].job.status = "processing"
    BY <1>1, <1>2, <1>9 DEF Mirror, UpdateJob
  <2>2. Ready(g, s)'
    BY <1>1, <1>9, <2>1 DEF Mirror, Ready, Active, redisVars
  <2> QED BY <1>2, <1>9, <2>1, <2>2 DEF Mirror
<1>10. CASE MirrorDegraded(g, s)
  <2>1. row'.status = row.status
    BY <1>10 DEF MirrorDegraded, TypeOK, RowType
  <2>2. Ready(g, s)'
    BY <1>1, <1>10, <2>1 DEF MirrorDegraded, Ready, redisVars
  <2> QED BY <1>1, <1>2, <1>10, <2>1, <2>2 DEF MirrorDegraded
<1>11. CASE Report(g, s) \/ StageReturns(g, s)
  <2>1. Ready(g, s)' /\ row'.status = "processing" /\ local'[g][s].job.status = "processing"
    BY <1>1, <1>3, <1>11 DEF Report, StageReturns, redisVars
  <2> QED BY <1>2, <1>11, <2>1 DEF Report, StageReturns
<1>12. CASE StageRaises(g, s)
  <2>1. Ready(g, s)'
    BY <1>1, <1>3, <1>12 DEF StageRaises, redisVars
  <2> QED BY <1>2, <1>12, <2>1 DEF StageRaises
<1>13. CASE PersistOutputs(g, s)
  <2>1. Ready(g, s) /\ row.status = "processing"
    BY <1>1, <1>13 DEF PersistOutputs
  <2>2. context' = IF Produces(g, s) THEN [context EXCEPT ![OutputKey(s)] = g] ELSE context
    BY <1>13, <2>1 DEF PersistOutputs, OwnsContext, Ready
  <2>3. UNCHANGED <<row, generation>> /\ local'[g][s] = FreshLocal
    BY <1>2, <1>13 DEF PersistOutputs
  <2>4. \A k \in Keys : context'[k] \in {context[k], g} /\ (Produces(g, s) => context'[OutputKey(s)] = g)
    BY <2>2, OutputKeysSafe DEF TypeOK, Contexts
  <2>5. CASE s = FinalStage
    <3>1. context'["transcript_result"] = g
      BY <2>1, <2>4, <2>5 DEF Ready, FinalStage, Produces, OutputKey, Keys, OutputKeys
    <3>2. Ready(g, s)'
      BY <2>1, <2>3, <2>4 DEF Ready, Keys, OutputKeys
    <3> QED BY <1>2, <1>13, <2>1, <2>3, <2>5, <3>1, <3>2, Dag DEF PersistOutputs
  <2>6. CASE s # FinalStage
    <3>1. ASSUME NEW t \in Stages, s \in DependsOn(t) PROVE Ready(g, t)'
      <4>1. t \notin {"download", "preprocess"} => context'["audio_path"] = g
        BY <2>1, <2>4, <3>1, SerialDag
        DEF Undisturbed, Ready, Produces, OutputKey, Keys, OutputKeys
      <4>2. t = "llm_correction" => context'["transcript_result"] = g
        BY <2>4, <3>1, SerialDag DEF Undisturbed, Produces, OutputKey, Keys, OutputKeys
      <4> QED BY <2>1, <2>3, <4>1, <4>2 DEF Ready
    <3> QED BY <1>2, <1>13, <2>1, <2>3, <2>6, <3>1, Dag DEF PersistOutputs, FreshLocal
  <2> QED BY <2>5, <2>6
<1> QED
  BY <1>4, <1>5, <1>6, <1>7, <1>8, <1>9, <1>10, <1>11, <1>12, <1>13 DEF RunStage

\* finalize_success.
LEMMA PhaseSuccess ==
    ASSUME TypeOK, ContextInv, InputsInv, SerialInv, Undisturbed,
           NEW g \in Generations, NEW s \in Stages, ProcessStep(g, s),
           \/ CheckSuccessStale(g, s) \/ ReadJobOnSuccess(g, s) \/ ReadContextOnSuccess(g, s)
           \/ SaveResult(g, s) \/ CompleteRow(g, s) \/ CompleteProgress(g, s)
    PROVE  Phase(g, s)'
<1>1. Phase(g, s)
  BY LiveSteps
<1>2. /\ local[g][s] \in Locals /\ g \in Nat \ {0} /\ generation \in Nat
      /\ progress.generation \in Nat /\ progress.generation <= g
      /\ pc[g][s] \in SuccessPcs \cup CompletionPcs => s = FinalStage
      /\ \A label : Goto(g, s, label) => pc'[g][s] = label
      /\ \A l : Assign(g, s, l) => local'[g][s] = l
  BY Grounds
<1> USE DEF Step, Phase, SuccessPcs, MissingPcs, CompletionPcs
<1>3. ASSUME Ready(g, s), UNCHANGED <<generation, row, context>> PROVE Ready(g, s)'
  BY <1>3 DEF Ready
<1>4. CASE CheckSuccessStale(g, s)
  <2>1. Ready(g, s)' /\ row'.status = "processing" /\ context'["transcript_result"] = g
    BY <1>1, <1>3, <1>4 DEF CheckSuccessStale, redisVars
  <2>2. ~IsStale(g)
    BY <1>1, <1>2, <1>4 DEF CheckSuccessStale, Ready, IsStale
  <2> QED BY <1>2, <1>4, <2>1, <2>2 DEF CheckSuccessStale
<1>5. CASE ReadJobOnSuccess(g, s)
  <2>1. Ready(g, s)' /\ row'.status = "processing" /\ context'["transcript_result"] = g
    BY <1>1, <1>3, <1>5 DEF ReadJobOnSuccess, redisVars
  <2>2. pc'[g][s] = "fs_context"
    BY <1>1, <1>2, <1>5 DEF ReadJobOnSuccess, Active
  <2> QED BY <2>1, <2>2
<1>6. CASE ReadContextOnSuccess(g, s)
  <2>1. /\ Ready(g, s)' /\ row'.status = "processing" /\ context["transcript_result"] = g
        /\ context["audio_path"] = g
    BY <1>1, <1>2, <1>3, <1>6 DEF ReadContextOnSuccess, Ready, FinalStage, redisVars
  <2>2. /\ local'[g][s].context["audio_path"] = g
        /\ local'[g][s].context["transcript_result"] = g
    BY <1>2, <1>6, <2>1 DEF ReadContextOnSuccess, Locals, Loaded, Keys, OutputKeys
  <2>3. pc'[g][s] = "save"
    BY <1>2, <1>6, <2>1 DEF ReadContextOnSuccess
  <2> QED BY <2>1, <2>2, <2>3
<1>7. CASE SaveResult(g, s)
  <2>1. Ready(g, s)' /\ row'.status = "processing"
    BY <1>1, <1>3, <1>7 DEF SaveResult, redisVars
  <2>2. /\ transcript' = g /\ local'[g][s].context["audio_path"] = g
        /\ local'[g][s].job = [status |-> "completed", result_path |-> g]
    BY <1>1, <1>2, <1>7 DEF SaveResult, Locals
  <2> QED BY <1>2, <1>7, <2>1, <2>2 DEF SaveResult
<1>8. CASE CompleteRow(g, s)
  <2>1. row'.status = "completed" /\ generation' = g /\ local'[g][s].context["audio_path"] = g
    BY <1>1, <1>8 DEF CompleteRow, UpdateJob, Ready, redisVars
  <2> QED BY <1>2, <1>8, <2>1 DEF CompleteRow
<1>9. CASE CompleteProgress(g, s)
  <2>1. progress'.status = "completed"
    BY <1>1, <1>2, <1>9 DEF CompleteProgress, WriteProgress, OwnsProgress
  <2>2. row'.status = "completed" /\ local'[g][s].context["audio_path"] = g
    BY <1>1, <1>9 DEF CompleteProgress
  <2> QED BY <1>2, <1>9, <2>1, <2>2 DEF CompleteProgress
<1> QED
  BY <1>4, <1>5, <1>6, <1>7, <1>8, <1>9

\* finalize_failure.
LEMMA PhaseFailure ==
    ASSUME TypeOK, ContextInv, InputsInv, SerialInv, Undisturbed,
           NEW g \in Generations, NEW s \in Stages, ProcessStep(g, s),
           \/ CheckFailureStale(g, s) \/ ReadJobOnFailure(g, s) \/ ReadContextOnFailure(g, s)
           \/ LoadSubjobIds(g, s) \/ CancelSubjob(g, s) \/ CancelDone(g, s)
           \/ MarkFailedRow(g, s) \/ MarkFailedProgress(g, s) \/ FenceGeneration(g, s)
    PROVE  Phase(g, s)'
<1>1. Phase(g, s)
  BY LiveSteps
<1>2. /\ local[g][s] \in Locals /\ g \in Nat \ {0} /\ generation \in Nat
      /\ progress.generation \in Nat /\ progress.generation <= g
      /\ \A label : Goto(g, s, label) => pc'[g][s] = label
      /\ \A l : Assign(g, s, l) => local'[g][s] = l
  BY Grounds
<1> USE DEF Step, Phase, SuccessPcs, MissingPcs
<1>3. ASSUME Ready(g, s), UNCHANGED <<generation, row, context>> PROVE Ready(g, s)'
  BY <1>3 DEF Ready
<1>4. CASE CheckFailureStale(g, s)
  <2>1. Ready(g, s)' /\ ~IsStale(g)
    BY <1>1, <1>2, <1>3, <1>4 DEF CheckFailureStale, Ready, IsStale, redisVars
  <2> QED BY <1>2, <1>4, <2>1 DEF CheckFailureStale
<1>5. CASE ReadJobOnFailure(g, s)
  <2>1. Ready(g, s)' /\ row.status # "failed"
    BY <1>1, <1>3, <1>5 DEF ReadJobOnFailure, Ready, Active, redisVars
  <2> QED BY <1>2, <1>5, <2>1 DEF ReadJobOnFailure
<1>6. CASE ReadContextOnFailure(g, s)
  <2>1. Ready(g, s) /\ Ready(g, s)'
    BY <1>1, <1>3, <1>6 DEF ReadContextOnFailure, redisVars
  <2>2. Salvages(s) <=> s = "llm_correction"
    BY <1>2, <2>1 DEF Salvages, Ready
  <2>3. CASE s = "llm_correction"
    <3>1. /\ row'.status = "processing" /\ context["audio_path"] = g
          /\ context["transcript_result"] = g
      BY <1>6, <2>1, <2>3 DEF ReadContextOnFailure, Ready, FirstStage
    <3>2. /\ local'[g][s].context["audio_path"] = g
          /\ local'[g][s].context["transcript_result"] = g
      BY <1>2, <1>6, <3>1 DEF ReadContextOnFailure, Locals, Loaded, Keys, OutputKeys
    <3>3. pc'[g][s] = "save"
      BY <1>2, <1>6, <2>2, <2>3 DEF ReadContextOnFailure
    <3> QED BY <2>1, <3>1, <3>2, <3>3
  <2>4. CASE s # "llm_correction"
    BY <1>2, <1>6, <2>1, <2>2, <2>4 DEF ReadContextOnFailure
  <2> QED BY <2>3, <2>4
<1>7. CASE LoadSubjobIds(g, s) \/ CancelSubjob(g, s) \/ CancelDone(g, s)
  <2>1. Ready(g, s)' /\ s # "llm_correction"
    BY <1>1, <1>3, <1>7 DEF LoadSubjobIds, CancelSubjob, CancelDone, redisVars
  <2>2. pc'[g][s] \in {"ff_cancel", "ff_row"}
    BY <1>2, <1>7 DEF LoadSubjobIds, CancelSubjob, CancelDone
  <2> QED BY <2>1, <2>2
<1>8. CASE MarkFailedRow(g, s)
  <2>1. pc[g][s] = "ff_row" /\ pc'[g][s] = "ff_progress"
    BY <1>1, <1>2, <1>8 DEF MarkFailedRow
  <2>2. row'.status = "failed" /\ generation' = g /\ s # "llm_correction"
    BY <1>1, <1>2, <1>8, <2>1 DEF MarkFailedRow, UpdateJob, Locals, Jobs, Ready, redisVars
  <2> QED BY <2>1, <2>2
<1>9. CASE MarkFailedProgress(g, s)
  <2>1. pc[g][s] = "ff_progress" /\ pc'[g][s] = "ff_bump"
    <3>1. pc[g][s] \notin {"missing_progress", "fail_progress"}
      BY <1>1
    <3> QED BY <1>2, <1>9, <3>1 DEF MarkFailedProgress
  <2>2. row'.status = "failed" /\ progress'.status = "failed" /\ s # "llm_correction"
    BY <1>1, <1>2, <1>9, <2>1 DEF MarkFailedProgress, WriteProgress, OwnsProgress
  <2> QED BY <2>1, <2>2
<1>10. CASE FenceGeneration(g, s)
  BY <1>1, <1>2, <1>10 DEF FenceGeneration
<1> QED
  BY <1>4, <1>5, <1>6, <1>7, <1>8, <1>9, <1>10

\* The clean-up of both.
LEMMA PhaseCleanup ==
    ASSUME TypeOK, ContextInv, InputsInv, SerialInv, Undisturbed,
           NEW g \in Generations, NEW s \in Stages, ProcessStep(g, s),
           CleanupWav(g, s) \/ CleanupContext(g, s) \/ ClearSubjobSet(g, s)
    PROVE  Phase(g, s)'
<1>1. Phase(g, s)
  BY LiveSteps
<1>2. /\ local[g][s] \in Locals /\ g \in Nat \ {0} /\ ~local[g][s].raising
      /\ pc[g][s] \in CompletionPcs => s = FinalStage
      /\ pc[g][s] \in FailurePcs => local[g][s].failing
      /\ \A label : Goto(g, s, label) => pc'[g][s] = label
      /\ \A l : Assign(g, s, l) => local'[g][s] = l
  BY Grounds
<1> USE DEF Step, Phase, SuccessPcs, MissingPcs, CompletionPcs, FailurePcs
<1>3. CASE CleanupWav(g, s) /\ pc[g][s] = "completion_wav"
  <2>1. pc'[g][s] = "completion_context" /\ row'.status = "completed" /\ progress'.status = "completed"
    BY <1>1, <1>2, <1>3 DEF CleanupWav, redisVars
  <2>2. ~wav'
    BY <1>1, <1>2, <1>3 DEF CleanupWav
  <2> QED BY <2>1, <2>2
<1>4. CASE CleanupWav(g, s) /\ pc[g][s] # "completion_wav"
  <2>1. /\ pc'[g][s] = "ff_delete" /\ row'.status = "failed" /\ progress'.status = "failed"
        /\ s # "llm_correction"
    BY <1>1, <1>2, <1>4 DEF CleanupWav, redisVars
  <2> QED BY <2>1
<1>5. CASE CleanupContext(g, s) /\ pc[g][s] = "completion_context"
  <2>1. /\ pc'[g][s] = "completion_clear" /\ row'.status = "completed"
        /\ progress'.status = "completed" /\ ~wav' /\ context' = NoContext
    BY <1>1, <1>2, <1>5 DEF CleanupContext, fileVars
  <2> QED BY <2>1
<1>6. CASE CleanupContext(g, s) /\ pc[g][s] # "completion_context"
  <2>1. /\ pc'[g][s] = "ff_clear" /\ row'.status = "failed" /\ progress'.status = "failed"
        /\ context' = NoContext /\ s # "llm_correction"
    BY <1>1, <1>2, <1>6 DEF CleanupContext, fileVars
  <2> QED BY <2>1
<1>7. CASE ClearSubjobSet(g, s)
  <2>1. pc[g][s] \in {"completion_clear", "ff_clear"} /\ pc'[g][s] = "ack"
    BY <1>1, <1>2, <1>7 DEF ClearSubjobSet, AfterCompletion
  <2>2. local'[g][s].failing <=> local[g][s].failing
    BY <1>2, <1>7 DEF ClearSubjobSet, FreshLocal, Locals
  <2>3. row'.status \in Terminal /\ Settled'
    BY <1>1, <1>7, <2>1 DEF ClearSubjobSet, Settled, Terminal, fileVars
  <2> QED BY <1>2, <2>1, <2>2, <2>3
<1> QED
  BY <1>3, <1>4, <1>5, <1>6, <1>7

\* RQ enqueues the successor of a stage that finished, or nothing.
LEMMA AckSerial ==
    ASSUME TypeOK, ContextInv, InputsInv, SerialInv, Undisturbed,
           NEW g \in Generations, NEW s \in Stages, AcknowledgeSubjob(g, s)
    PROVE  /\ \A h \in Generations, t \in Stages : Live(h, t)' =>
                 /\ h = g /\ s \in DependsOn(t) /\ ~local[g][s].failing
                 /\ pc'[h][t] = "idle" /\ Ready(h, t)'
           /\ row.status \in Terminal => Settled
           /\ pc'[g][s] = "done"
<1>0. ProcessStep(g, s)
  BY DEF ProcessStep
<1>1. /\ pc[g][s] = "ack" /\ pc'[g][s] = "done" /\ UNCHANGED <<row, generation, context, progress, wav>>
  BY DEF AcknowledgeSubjob, Step, Goto, TypeOK, PerSubjob, redisVars, fileVars
<1>2. /\ local[g][s].failing \/ s = FinalStage => row.status \in Terminal /\ Settled
      /\ ~(local[g][s].failing \/ s = FinalStage) =>
            row.status = "processing" /\ \A t \in Stages : s \in DependsOn(t) => Ready(g, t)
  BY <1>0, <1>1, LiveSteps DEF Phase
<1>3. ASSUME NEW h \in Generations, NEW t \in Stages, Live(h, t)'
      PROVE  /\ h = g /\ s \in DependsOn(t) /\ ~local[g][s].failing
             /\ pc'[h][t] = "idle" /\ Ready(h, t)'
  <2>1. <<h, t>> # <<g, s>>
    BY <1>1, <1>3 DEF Live, RunningPcs, StagePcs, CallbackPcs, SuccessPcs, MissingPcs,
                      CompletionPcs, FailurePcs
  <2>2. pc'[h][t] = pc[h][t] /\ ~Live(h, t)
    BY <1>0, <2>1, OneProcess, LiveSteps
  <2>3. subjob'[h][t] = "queued" /\ subjob[h][t] # "queued" /\ pc'[h][t] = "idle"
    BY <1>3, <2>2 DEF Live
  <2>4. h = g /\ ~local[g][s].failing
    BY <1>0, <2>1, <2>3, Statuses DEF InputsInv
  <2>5. s \in DependsOn(t)
    BY <2>1, <2>3, <2>4 DEF AcknowledgeSubjob, TypeOK, PerSubjob
  <2>6. s # FinalStage
    BY <2>5, SerialDag DEF Undisturbed
  <2>7. Ready(g, t)
    BY <1>2, <2>4, <2>5, <2>6
  <2> QED BY <1>1, <2>3, <2>4, <2>5, <2>7 DEF Ready
<1>4. row.status \in Terminal => Settled
  BY <1>2 DEF Terminal
<1> QED
  BY <1>1, <1>3, <1>4

LEMMA PhasesProcess ==
    ASSUME TypeOK, ContextInv, InputsInv, SerialInv, Undisturbed,
           NEW g \in Generations, NEW s \in Stages, ProcessStep(g, s)
    PROVE  OneLive' /\ Phases' /\ Ended'
<1>1. CASE AcknowledgeSubjob(g, s)
  <2>1. OneLive'
    BY <1>1, AckSerial, LiveSteps, OneProcess, SerialDag DEF ProcessStep, OneLive, Undisturbed
  <2>2. Phases'
    <3> SUFFICES ASSUME NEW h \in Generations, NEW t \in Stages, Live(h, t)' PROVE Phase(h, t)'
      BY DEF Phases
    <3>1. pc'[h][t] = "idle" /\ Ready(h, t)'
      BY <1>1, AckSerial
    <3> QED BY <3>1 DEF Phase, MissingPcs, SuccessPcs
  <2>3. row' = row /\ progress' = progress /\ context' = context /\ wav' = wav
    BY <1>1 DEF AcknowledgeSubjob, redisVars, fileVars
  <2>4. Ended'
    BY <1>1, <2>3, AckSerial DEF Ended, Settled
  <2> QED BY <2>1, <2>2, <2>4
<1>2. CASE ~AcknowledgeSubjob(g, s)
  <2>1. Live(g, s)' /\ \A h \in Generations, t \in Stages : Live(h, t)' => h = g /\ t = s
    BY <1>2, StaysLive DEF Live
  <2>2. Phase(g, s)'
    BY <1>2, LiveSteps, PhaseStage, PhaseSuccess, PhaseFailure, PhaseCleanup DEF ProcessStep, Callback
  <2>3. g = enqueuer'.generation
    BY LiveSteps, OneProcess
  <2> QED BY <2>1, <2>2, <2>3 DEF OneLive, Phases, Ended
<1> QED
  BY <1>1, <1>2

LEMMA StartingProcess ==
    ASSUME TypeOK, ContextInv, InputsInv, SerialInv, Undisturbed,
           NEW g \in Generations, NEW s \in Stages, ProcessStep(g, s)
    PROVE  Starting'
<1> SUFFICES ASSUME NEW t \in Stages, enqueuer.pc \in {"enqueue", "record"},
                    subjob'[g][t] = "none", DependenciesMet(g, t)'
             PROVE  Ready(g, t)' /\ \A u \in Stages : ~Live(g, u)'
  BY OneProcess, LiveSteps DEF Starting
<1>1. enqueuer.generation = g /\ Live(g, s)
  BY LiveSteps
<1>2. ASSUME NEW u \in Stages, subjob'[g][u] \in {"none", "finished"}
      PROVE  subjob[g][u] = subjob'[g][u] \/ (u = s /\ AcknowledgeSubjob(g, s))
  BY <1>2, Statuses DEF InputsInv, StartSubjob, TypeOK, PerSubjob
<1>3. DependsOn(t) \subseteq Stages /\ t \notin DependsOn(t)
  BY Dag
<1>4. ~DependenciesMet(g, t) \/ subjob[g][t] # "none"
  BY <1>1 DEF SerialInv, Starting
<1>5. subjob[g][t] = "none"
  <2>1. CASE t = s /\ AcknowledgeSubjob(g, s)
    BY <2>1 DEF AcknowledgeSubjob, TypeOK, PerSubjob
  <2> QED BY <1>2, <2>1
<1>6. AcknowledgeSubjob(g, s) /\ s \in DependsOn(t) /\ subjob'[g][s] = "finished"
  BY <1>2, <1>3, <1>4, <1>5 DEF DependenciesMet
<1>7. pc[g][s] = "ack" /\ ~local[g][s].failing /\ UNCHANGED <<row, generation, context>>
  BY <1>6 DEF AcknowledgeSubjob, Step, TypeOK, PerSubjob, redisVars
<1>8. Ready(g, t)
  BY <1>6, <1>7, LiveSteps, SerialDag DEF Phase, Undisturbed
<1>9. ASSUME NEW u \in Stages, Live(g, u)' PROVE FALSE
  <2>1. u = t /\ pc'[g][u] = "idle"
    BY <1>6, <1>9, AckSerial, SerialDag DEF Undisturbed
  <2> QED BY <1>9, <2>1 DEF Live, RunningPcs, StagePcs, CallbackPcs, SuccessPcs, MissingPcs,
                            CompletionPcs, FailurePcs
<1> QED
  BY <1>7, <1>8, <1>9 DEF Ready

LEMMA SavedProcess ==
    ASSUME TypeOK, ContextInv, InputsInv, SerialInv, Undisturbed,
           NEW g \in Generations, NEW s \in Stages, ProcessStep(g, s)
    PROVE  Saved'
<1>1. Phase(g, s) /\ ~CallbackRaises(g, s) /\ ~ReportDegraded(g, s) /\ ~Crash(g, s)
  BY LiveSteps
<1>2. g = enqueuer.generation /\ g \in Nat \ {0} /\ enqueuer' = enqueuer /\ local[g][s] \in Locals
  BY Grounds, OneProcess
<1>3. /\ transcript <= g /\ progress.generation <= g
      /\ row.status = "completed" => transcript = g /\ row.result_path = transcript /\ transcript # 0
  BY <1>2 DEF SerialInv, Saved, CompletedMeansSaved, Newest
<1>4. progress' = progress \/ \E status : WriteProgress(g, status)
  BY DEF ProcessStep, RunStage, LoadJob, MarkProcessing, LoadContext, SeedFromJob, Mirror,
         MirrorDegraded, PersistOutputs, StartSubjob, Report, ReportDegraded, StageReturns,
         StageRaises, Callback, CheckSuccessStale, ReadJobOnSuccess, ReadContextOnSuccess,
         MarkFailedRow, MarkFailedProgress, SaveResult, CompleteRow, CompleteProgress,
         CheckFailureStale, ReadJobOnFailure, ReadContextOnFailure, LoadSubjobIds, CancelSubjob,
         CancelDone, FenceGeneration, CleanupWav, CleanupContext, ClearSubjobSet, CallbackRaises,
         AcknowledgeSubjob, KillHorse, Crash, Abandon, redisVars
<1>5. progress'.generation <= g
  BY <1>2, <1>3, <1>4 DEF WriteProgress
<1>6. /\ transcript' <= g
      /\ row'.status = "completed" => transcript' = g /\ row'.result_path = transcript' /\ transcript' # 0
  <2>1. CASE SaveResult(g, s)
    <3>1. transcript' = g /\ row'.status = "processing"
      BY <1>1, <2>1 DEF SaveResult, Step, Phase
    <3> QED BY <1>2, <3>1
  <2>2. CASE CompleteRow(g, s)
    <3>1. transcript' = g /\ row'.result_path = g
      BY <1>1, <2>2 DEF CompleteRow, Step, Phase, UpdateJob, fileVars
    <3> QED BY <1>2, <3>1
  <2>3. CASE MarkProcessing(g, s) \/ Mirror(g, s) \/ MarkFailedRow(g, s)
    <3>1. transcript' = transcript
      BY <2>3 DEF MarkProcessing, Mirror, MarkFailedRow, fileVars
    <3>2. row'.status # "completed"
      <4>1. CASE MarkProcessing(g, s)
        BY <1>2, <4>1 DEF MarkProcessing, UpdateJob, Locals, Jobs
      <4>2. CASE Mirror(g, s)
        BY <1>1, <4>2 DEF Mirror, UpdateJob, Phase
      <4>3. CASE MarkFailedRow(g, s)
        BY <1>2, <4>3 DEF MarkFailedRow, UpdateJob, Locals, Jobs
      <4> QED BY <2>3, <4>1, <4>2, <4>3
    <3> QED BY <1>3, <3>1, <3>2
  <2>4. CASE MirrorDegraded(g, s)
    BY <1>3, <2>4 DEF MirrorDegraded, TypeOK, RowType, fileVars
  <2>5. CASE ~(\/ SaveResult(g, s) \/ CompleteRow(g, s) \/ MarkProcessing(g, s) \/ Mirror(g, s)
               \/ MarkFailedRow(g, s) \/ MirrorDegraded(g, s))
    <3>1. UNCHANGED <<row, transcript>>
      BY <2>5
      DEF ProcessStep, RunStage, LoadJob, LoadContext, SeedFromJob, PersistOutputs, StartSubjob,
          Report, ReportDegraded, StageReturns, StageRaises, Callback, CheckSuccessStale,
          ReadJobOnSuccess, ReadContextOnSuccess, MarkFailedProgress, CompleteProgress,
          CheckFailureStale, ReadJobOnFailure, ReadContextOnFailure, LoadSubjobIds, CancelSubjob,
          CancelDone, FenceGeneration, CleanupWav, CleanupContext, ClearSubjobSet, CallbackRaises,
          AcknowledgeSubjob, KillHorse, Crash, Abandon, fileVars
    <3> QED BY <1>3, <3>1
  <2> QED BY <2>1, <2>2, <2>3, <2>4, <2>5
<1> QED
  BY <1>2, <1>5, <1>6 DEF Saved, CompletedMeansSaved, Newest

LEMMA UnharmedProcess ==
    ASSUME TypeOK, ContextInv, InputsInv, SerialInv, Undisturbed,
           NEW g \in Generations, NEW s \in Stages, ProcessStep(g, s)
    PROVE  Unharmed'
<1> USE DEF RunningPcs, StagePcs, CallbackPcs, SuccessPcs, MissingPcs, CompletionPcs, FailurePcs
<1>1. /\ ~CallbackRaises(g, s) /\ ~ReportDegraded(g, s) /\ ~KillHorse(g, s) /\ ~Crash(g, s)
      /\ ~Abandon(g, s)
      /\ \A h \in Generations, t \in Stages : Live(h, t) => h = g /\ t = s
  BY LiveSteps
<1>2. /\ local[g][s] \in Locals /\ local[g][s].todo \subseteq Stages /\ ~local[g][s].raising
      /\ \A l : Assign(g, s, l) => local'[g][s] = l
      /\ \A label : Goto(g, s, label) => pc'[g][s] = label
      /\ pc[g][s] = "ff_cancel" => s \notin local[g][s].todo
  BY Grounds, LocalType DEF SerialInv, Unharmed
<1>3. ~local'[g][s].raising
  <2>1. CASE local' = local
    BY <1>2, <2>1
  <2>2. CASE \/ LoadJob(g, s) \/ MarkProcessing(g, s) \/ LoadContext(g, s) \/ SeedFromJob(g, s)
             \/ ReadJobOnSuccess(g, s) \/ ReadContextOnSuccess(g, s) \/ MarkFailedRow(g, s)
             \/ SaveResult(g, s) \/ ReadJobOnFailure(g, s) \/ ReadContextOnFailure(g, s)
             \/ LoadSubjobIds(g, s) \/ CancelSubjob(g, s)
    BY <1>2, <2>2
    DEF LoadJob, MarkProcessing, LoadContext, SeedFromJob, ReadJobOnSuccess, ReadContextOnSuccess,
        MarkFailedRow, SaveResult, ReadJobOnFailure, ReadContextOnFailure, LoadSubjobIds,
        CancelSubjob, Locals
  <2>3. CASE PersistOutputs(g, s) \/ StageRaises(g, s) \/ AcknowledgeSubjob(g, s) \/ ClearSubjobSet(g, s)
    BY <1>2, <2>3 DEF PersistOutputs, StageRaises, AcknowledgeSubjob, ClearSubjobSet, FreshLocal
  <2> QED
    BY <1>1, <2>1, <2>2, <2>3
    DEF ProcessStep, RunStage, Mirror, MirrorDegraded, StartSubjob, Report, StageReturns, Callback,
        CheckSuccessStale, MarkFailedProgress, CompleteRow, CompleteProgress, CheckFailureStale,
        CancelDone, FenceGeneration, CleanupWav, CleanupContext
<1>4. pc'[g][s] = "ff_cancel" => s \notin local'[g][s].todo
  <2>1. CASE LoadSubjobIds(g, s)
    BY <1>2, <2>1 DEF LoadSubjobIds, Locals
  <2>2. CASE CancelSubjob(g, s)
    BY <1>2, <2>2 DEF CancelSubjob, Locals
  <2>3. CASE ~LoadSubjobIds(g, s) /\ ~CancelSubjob(g, s)
    <3>1. pc'[g][s] # "ff_cancel"
      BY <1>1, <1>2, <2>3
      DEF ProcessStep, RunStage, LoadJob, MarkProcessing, LoadContext, SeedFromJob, Mirror,
          MirrorDegraded, PersistOutputs, StartSubjob, Report, StageReturns, StageRaises, Callback,
          Step, CheckSuccessStale, ReadJobOnSuccess, ReadContextOnSuccess, MarkFailedRow,
          MarkFailedProgress, SaveResult, CompleteRow, CompleteProgress, CheckFailureStale,
          ReadJobOnFailure, ReadContextOnFailure, CancelDone, FenceGeneration, CleanupWav,
          CleanupContext, ClearSubjobSet, AfterCompletion, AcknowledgeSubjob
    <3> QED BY <3>1
  <2> QED BY <2>1, <2>2, <2>3
<1>5. pc'[g][s] # "dead"
  BY <1>1, StaysLive, AckSerial
<1>6. pc'[g][s] \in RunningPcs => subjob'[g][s] = "started"
  <2>1. CASE StartSubjob(g, s)
    BY <2>1 DEF StartSubjob, TypeOK, PerSubjob
  <2>2. CASE AcknowledgeSubjob(g, s)
    BY <2>2, AckSerial
  <2>3. CASE ~StartSubjob(g, s) /\ ~AcknowledgeSubjob(g, s)
    <3>1. subjob[g][s] = "started"
      <4>1. pc[g][s] # "idle"
        BY <2>3, Moves DEF Undisturbed
      <4> QED BY <4>1, LiveSteps DEF Live, SerialInv, Unharmed
    <3>2. CASE CancelSubjob(g, s)
      <4>1. PICK t \in local[g][s].todo : subjob' = [subjob EXCEPT ![g][t] = "canceled"]
        BY <3>2 DEF CancelSubjob
      <4>2. t # s /\ t \in Stages
        BY <1>2, <3>2, <4>1 DEF CancelSubjob
      <4> QED BY <3>1, <4>1, <4>2 DEF TypeOK, PerSubjob
    <3>3. CASE ~CancelSubjob(g, s)
      <4>1. subjob' = subjob
        BY <1>1, <2>3, <3>3
        DEF ProcessStep, RunStage, LoadJob, MarkProcessing, LoadContext, SeedFromJob, Mirror,
            MirrorDegraded, PersistOutputs, Report, StageReturns, StageRaises, Callback,
            CheckSuccessStale, ReadJobOnSuccess, ReadContextOnSuccess, MarkFailedRow,
            MarkFailedProgress, SaveResult, CompleteRow, CompleteProgress, CheckFailureStale,
            ReadJobOnFailure, ReadContextOnFailure, LoadSubjobIds, CancelDone, FenceGeneration,
            CleanupWav, CleanupContext, ClearSubjobSet
      <4> QED BY <3>1, <4>1
    <3> QED BY <3>2, <3>3
  <2> QED BY <2>1, <2>2, <2>3
<1>7. ASSUME NEW h \in Generations, NEW t \in Stages, <<h, t>> # <<g, s>>
      PROVE  /\ pc'[h][t] # "dead" /\ ~local'[h][t].raising
             /\ pc'[h][t] \notin RunningPcs
  <2>1. pc'[h][t] = pc[h][t] /\ local'[h][t] = local[h][t]
    BY <1>7, OneProcess
  <2> QED BY <1>1, <1>7, <2>1 DEF Live, SerialInv, Unharmed
<1> QED
  BY <1>3, <1>4, <1>5, <1>6, <1>7 DEF Unharmed

LEMMA SerialProcess ==
    ASSUME TypeOK, ContextInv, InputsInv, SerialInv, Undisturbed,
           NEW g \in Generations, NEW s \in Stages, ProcessStep(g, s)
    PROVE  SerialInv'
<1>1. Resetting'
  BY LiveSteps, OneProcess DEF Resetting
<1> QED
  BY <1>1, PhasesProcess, StartingProcess, SavedProcess, UnharmedProcess DEF SerialInv

\* The enqueuer resets the hashes, or records a sub-job.
LEMMA SerialEnqueuer ==
    ASSUME TypeOK, ContextInv, InputsInv, SerialInv, Undisturbed,
           ClaimRetry \/ Enqueuer \/ EnqueueRaises \/ EnqueuerDies
    PROVE  SerialInv'
<1> DEFINE n == enqueuer.generation
<1>1. /\ generation \in Nat /\ n \in Nat /\ n <= generation /\ transcript \in Nat
      /\ progress.generation \in Nat
  BY PipelineAssumption
  DEF TypeOK, Source, EnqueuerType, ProgressType, PipelineAssumption, ContextInv, CounterAhead
<1>2. ~EnqueueRaises /\ ~EnqueuerDies /\ ~MarkEnqueueFailed
  BY DEF Undisturbed, EnqueueRaises, EnqueuerDies, MarkEnqueueFailed, EnqueuerAt, SerialInv,
         Resetting, TypeOK, BudgetType
<1>3. ASSUME UNCHANGED <<subjob, pc, local>> PROVE Unharmed' /\ \A h \in Generations, t \in Stages : Live(h, t)' <=> Live(h, t)
  BY <1>3 DEF SerialInv, Unharmed, Live
<1>4. ASSUME UNCHANGED <<subjob, pc, local>>, \A h \in Generations, t \in Stages : ~Live(h, t)
      PROVE  OneLive' /\ Phases'
  BY <1>3, <1>4 DEF OneLive, Phases
<1>5. CASE ClaimRetry
  <2>1. /\ row.status = "failed" /\ row'.status = "queued" /\ enqueuer'.pc = "bump"
        /\ enqueuer'.generation = n
        /\ UNCHANGED <<subjob, pc, local, transcript, progress>>
    BY <1>5 DEF ClaimRetry, TypeOK, EnqueuerType, redisVars, fileVars
  <2>2. ASSUME NEW g \in Generations, NEW s \in Stages, Live(g, s) PROVE FALSE
    <3>1. pc[g][s] \in {"idle"} \cup StagePcs
      BY <1>5, <2>2 DEF ClaimRetry, MayOverlap, Undisturbed, Live, RunningPcs
    <3>2. Ready(g, s)
      BY <2>2, <3>1 DEF SerialInv, Phases, Phase, StagePcs
    <3> QED BY <2>1, <3>2 DEF Ready, Active
  <2>3. Resetting' /\ Starting' /\ Ended' /\ Saved'
    BY <1>3, <2>1, <2>2
    DEF Resetting, Starting, Ended, Terminal, SerialInv, Saved, CompletedMeansSaved
  <2> QED BY <1>3, <1>4, <2>1, <2>2, <2>3 DEF SerialInv
<1>6. CASE EnqueueBump
  <2>1. /\ enqueuer.pc = "bump" /\ enqueuer'.pc = "del_progress" /\ row' = row
        /\ generation' = generation + 1 /\ enqueuer'.generation = generation'
        /\ UNCHANGED <<subjob, pc, local, transcript, progress>>
    BY <1>6 DEF EnqueueBump, BumpGeneration, EnqueuerAt, TypeOK, EnqueuerType, fileVars
  <2>2. row.status = "queued" /\ \A g \in Generations, s \in Stages : ~Live(g, s)
    BY <2>1 DEF SerialInv, Resetting
  <2>3. Resetting' /\ Starting' /\ Ended'
    BY <1>3, <2>1, <2>2 DEF Resetting, Starting, Ended, Terminal
  <2>4. Saved'
    BY <1>1, <2>1, <2>2 DEF SerialInv, Saved, CompletedMeansSaved
  <2> QED BY <1>3, <1>4, <2>1, <2>2, <2>3, <2>4 DEF SerialInv
<1>7. CASE DeleteProgress \/ SeedProgress \/ DeleteContext \/ SeedContext
  <2>1. /\ enqueuer.pc \in {"del_progress", "seed_progress", "del_context", "seed_context"}
        /\ enqueuer'.pc \in {"seed_progress", "del_context", "seed_context", "enqueue"}
        /\ row' = row /\ generation' = generation /\ enqueuer'.generation = n
        /\ progress'.generation \in {0, n, progress.generation}
        /\ UNCHANGED <<subjob, pc, local, transcript>>
    BY <1>7
    DEF DeleteProgress, SeedProgress, DeleteContext, SeedContext, EnqueuerAt, EnqueuerGoto, TypeOK,
        EnqueuerType, fileVars
  <2>2. /\ row.status = "queued" /\ generation = n
        /\ \A g \in Generations, s \in Stages : ~Live(g, s)
    BY <2>1 DEF SerialInv, Resetting
  <2>3. \A s \in Stages : n \in Generations => subjob[n][s] = "none"
    BY <1>1, <2>1 DEF InputsInv, LaunchedInOrder, Launched
  <2>4. Starting'
    <3> SUFFICES ASSUME NEW s \in Stages, n \in Generations, DependenciesMet(n, s)'
                 PROVE  Ready(n, s)'
      BY <1>3, <2>1, <2>2 DEF Starting
    <3>1. DependsOn(s) = {}
      BY <2>1, <2>3, Dag DEF DependenciesMet
    <3>2. s = FirstStage
      BY <3>1, SerialDag DEF Undisturbed
    <3> QED BY <2>1, <2>2, <3>2 DEF Ready, Active, FirstStage
  <2>5. Resetting' /\ Ended'
    BY <1>3, <2>1, <2>2 DEF Resetting, Ended, Terminal
  <2>6. Saved'
    BY <1>1, <2>1, <2>2 DEF SerialInv, Saved, CompletedMeansSaved
  <2> QED BY <1>3, <1>4, <2>1, <2>2, <2>4, <2>5, <2>6 DEF SerialInv
<1>8. CASE RecordSubjob
  <2>1. /\ enqueuer.pc = "record" /\ enqueuer'.pc \in {"idle", "enqueue"}
        /\ enqueuer'.generation = n
        /\ UNCHANGED <<row, generation, context, progress, subjob, pc, local, transcript, wav>>
    BY <1>8 DEF RecordSubjob, EnqueuerAt, EnqueuerGoto, TypeOK, EnqueuerType, fileVars
  <2>2. OneLive' /\ Resetting' /\ Starting'
    BY <1>3, <2>1 DEF SerialInv, OneLive, Resetting, Starting, Ready, DependenciesMet
  <2>3. Phases'
    <3> SUFFICES ASSUME NEW h \in Generations, NEW t \in Stages, Phase(h, t) PROVE Phase(h, t)'
      BY <1>3, <2>1 DEF SerialInv, Phases
    <3> QED BY <2>1 DEF Phase, Ready, Settled
  <2>4. Ended' /\ Saved'
    BY <1>3, <2>1 DEF SerialInv, Ended, Settled, Saved, CompletedMeansSaved, Newest
  <2> QED BY <1>3, <2>1, <2>2, <2>3, <2>4 DEF SerialInv
<1>9. ASSUME NEW s \in Stages, EnqueueStage(s) PROVE SerialInv'
  <2>1. /\ n \in Generations /\ enqueuer.pc = "enqueue" /\ enqueuer'.pc = "record"
        /\ enqueuer'.generation = n /\ subjob[n][s] = "none"
        /\ subjob' = [subjob EXCEPT ![n][s] = IF DependenciesMet(n, s) THEN "queued" ELSE "deferred"]
        /\ UNCHANGED <<row, generation, context, progress, pc, local, transcript, wav>>
        /\ \A t \in Stages : Rank(t) < Rank(s) => subjob[n][t] # "none"
    BY <1>9 DEF EnqueueStage, EnqueuerAt, TypeOK, EnqueuerType, redisVars, fileVars
  <2>2. pc[n][s] = "idle"
    BY <2>1 DEF ContextInv, RunningIsLaunched
  <2>3. /\ \A h \in Generations, t \in Stages : ~(h = n /\ t = s) =>
               subjob'[h][t] = subjob[h][t] /\ (Live(h, t)' <=> Live(h, t))
        /\ subjob'[n][s] \in {"queued", "deferred"}
        /\ Live(n, s)' <=> DependenciesMet(n, s)
    BY <2>1, <2>2
    DEF TypeOK, PerSubjob, Live, RunningPcs, StagePcs, CallbackPcs, SuccessPcs, MissingPcs,
        CompletionPcs, FailurePcs
  <2>4. ~Live(n, s)
    BY <2>1, <2>2
    DEF Live, RunningPcs, StagePcs, CallbackPcs, SuccessPcs, MissingPcs, CompletionPcs, FailurePcs
  <2>5. DependenciesMet(n, s) => Ready(n, s) /\ \A h \in Generations, t \in Stages : ~Live(h, t)
    BY <2>1 DEF SerialInv, Starting, OneLive
  <2>6. OneLive'
    BY <2>1, <2>3, <2>5 DEF SerialInv, OneLive
  <2>7. Resetting'
    BY <2>1 DEF Resetting
  <2>8. Starting'
    <3> SUFFICES ASSUME NEW t \in Stages, subjob'[n][t] = "none", DependenciesMet(n, t)'
                 PROVE  Ready(n, t)' /\ \A u \in Stages : ~Live(n, u)'
      BY <2>1 DEF Starting
    <3>1. t # s /\ subjob[n][t] = "none"
      BY <2>1, <2>3
    <3>2. DependenciesMet(n, t) /\ s \notin DependsOn(t)
      BY <2>1, <2>3, Dag DEF DependenciesMet
    <3>3. Ready(n, t) /\ \A u \in Stages : ~Live(n, u)
      BY <2>1, <3>1, <3>2 DEF SerialInv, Starting
    <3>4. Rank(s) < Rank(t)
      BY <2>1, <3>1 DEF Rank, Stages, AllStages
    <3>5. \A d \in DependsOn(t) : pc[n][d] = "done"
      BY <3>2, Dag, <2>1 DEF DependenciesMet, InputsInv, InOrder
    <3>6. pc[n][s] = "done"
      BY <2>1, <3>4, <3>5, EarlierAreOver DEF Undisturbed, InputsInv
    <3> QED BY <2>2, <3>6
  <2>9. Phases'
    <3>1. ASSUME NEW h \in Generations, NEW t \in Stages, Phase(h, t) PROVE Phase(h, t)'
      BY <2>1, <3>1 DEF Phase, Ready, Settled
    <3>2. Ready(n, s) => Phase(n, s)'
      BY <2>1, <2>2 DEF Phase, Ready, MissingPcs, SuccessPcs
    <3> QED BY <2>1, <2>3, <2>5, <3>1, <3>2 DEF SerialInv, Phases
  <2>10. Ended'
    BY <2>1, <2>3, <2>4 DEF SerialInv, Ended, Settled
  <2>11. Saved'
    BY <2>1 DEF SerialInv, Saved, CompletedMeansSaved, Newest
  <2>12. Unharmed'
    BY <2>1, <2>2, <2>3
    DEF SerialInv, Unharmed, RunningPcs, StagePcs, CallbackPcs, SuccessPcs, MissingPcs,
        CompletionPcs, FailurePcs
  <2> QED BY <2>6, <2>7, <2>8, <2>9, <2>10, <2>11, <2>12 DEF SerialInv
<1> QED
  BY <1>2, <1>5, <1>6, <1>7, <1>8, <1>9 DEF Enqueuer

\* The invariants of a job whose stages run one at a time, together.
SerialState == TypeOK /\ ContextInv /\ StaleAtCheck /\ InputsInv /\ SerialInv

LEMMA SerialNext == ASSUME Undisturbed PROVE SerialState /\ [Next]_vars => SerialState'
<1> SUFFICES ASSUME SerialState, [Next]_vars PROVE SerialState'
  OBVIOUS
<1>1. TypeOK /\ ContextInv /\ StaleAtCheck /\ InputsInv /\ SerialInv
  BY DEF SerialState
<1>2. TypeOK' /\ ContextInv' /\ StaleAtCheck' /\ InputsInv'
  BY <1>1, TypeNext, ContextNext, StaleNext, InputsNext DEF Undisturbed
<1>3. SerialInv'
  <2>1. CASE UNCHANGED vars
    <3>1. \A h \in Generations, t \in Stages : Phase(h, t) => Phase(h, t)'
      BY <2>1 DEF Phase, Ready, Settled, vars
    <3>2. \A h \in Generations, t \in Stages : Live(h, t)' <=> Live(h, t)
      BY <2>1 DEF Live, vars
    <3>3. Phases' /\ OneLive'
      BY <1>1, <2>1, <3>1, <3>2 DEF SerialInv, Phases, OneLive, vars
    <3>4. Resetting' /\ Ended' /\ Saved' /\ Unharmed'
      BY <1>1, <2>1, <3>2
      DEF SerialInv, Resetting, Ended, Settled, Saved, CompletedMeansSaved, Newest, Unharmed, vars
    <3>5. Starting'
      BY <1>1, <2>1, <3>2 DEF SerialInv, Starting, Ready, DependenciesMet, vars
    <3> QED BY <3>3, <3>4, <3>5 DEF SerialInv
  <2>2. ~Age /\ ~\E r \in Reapers : Reap(r)
    BY DEF Age, Undisturbed
  <2> QED BY <1>1, <2>1, <2>2, SerialProcess, SerialEnqueuer DEF Next, ProcessStep
<1> QED
  BY <1>2, <1>3 DEF SerialState

LEMMA SerialCorrect == Undisturbed => (Spec => []SerialState)
<1> SUFFICES ASSUME Undisturbed PROVE Spec => []SerialState
  OBVIOUS
<1>1. Init => SerialState
  BY TypeInit, ContextInit, StaleInit, InputsInit, SerialInit DEF SerialState
<1>2. SerialState /\ [Next]_vars => SerialState'
  BY SerialNext
<1> QED
  BY <1>1, <1>2, PTL DEF Spec

LEMMA AtRest == SerialState => HashMatchesRow /\ NothingLeftBehind /\ CompletedMeansSaved
<1> SUFFICES ASSUME SerialState PROVE HashMatchesRow /\ NothingLeftBehind /\ CompletedMeansSaved
  OBVIOUS
<1>1. Quiescent /\ row.status \in Terminal => Settled
  BY DEF SerialState, SerialInv, Ended, Quiescent, Live
<1> QED
  BY <1>1 DEF HashMatchesRow, NothingLeftBehind, Settled, SerialState, SerialInv, Saved

\* However often its stages fail and the user retries, a job whose stages run one
\* at a time comes to rest with the progress hash showing what the row says: no
\* finalizer stops between the two writes, and none is fenced off before both.
THEOREM RestsAgreed == Undisturbed => (Spec => []HashMatchesRow)
<1> SUFFICES ASSUME Undisturbed PROVE Spec => []HashMatchesRow
  OBVIOUS
<1> QED BY SerialCorrect, AtRest, PTL

\* Such a job leaves no context hash, and no WAV once it is COMPLETED: the
\* finalizers' clean-up is the last writer of both.
THEOREM RestsClean == Undisturbed => (Spec => []NothingLeftBehind)
<1> SUFFICES ASSUME Undisturbed PROVE Spec => []NothingLeftBehind
  OBVIOUS
<1> QED BY SerialCorrect, AtRest, PTL

\* Whenever the row of such a job is COMPLETED, the newest attempt's transcript
\* is on disk and result_path names it.
THEOREM CompletedIsSaved == Undisturbed => (Spec => []CompletedMeansSaved)
<1> SUFFICES ASSUME Undisturbed PROVE Spec => []CompletedMeansSaved
  OBVIOUS
<1> QED BY SerialCorrect, AtRest, PTL

-----------------------------------------------------------------------------
(* Optional stages and the owner's view *)

\* Who writes the status of the row and the transcript while a sub-job is live.
LEMMA RowWrites ==
    ASSUME SerialState, Undisturbed, NEW g \in Generations, NEW s \in Stages, ProcessStep(g, s)
    PROVE  \/ row'.status = row.status /\ transcript' = transcript
           \/ MarkProcessing(g, s) /\ row'.status = "processing" /\ row.status \in Active
              /\ transcript' = transcript
           \/ SaveResult(g, s) /\ row'.status = row.status /\ row.status = "processing" /\ transcript' = g
           \/ CompleteRow(g, s) /\ row'.status = "completed" /\ row.status = "processing"
              /\ transcript' = transcript /\ transcript = g
           \/ MarkFailedRow(g, s) /\ row'.status = "failed" /\ row.status \in Active
              /\ transcript' = transcript /\ s # "llm_correction"
<1> USE DEF SerialState
<1>1. Phase(g, s)
  BY LiveSteps
<1>2. local[g][s] \in Locals
  BY LocalType
<1>3. CASE MarkProcessing(g, s)
  BY <1>1, <1>2, <1>3 DEF MarkProcessing, UpdateJob, Phase, Ready, Locals, Jobs, fileVars
<1>4. CASE Mirror(g, s)
  BY <1>1, <1>4 DEF Mirror, UpdateJob, Phase, fileVars
<1>5. CASE MirrorDegraded(g, s)
  BY <1>5 DEF MirrorDegraded, TypeOK, RowType, fileVars
<1>6. CASE SaveResult(g, s)
  BY <1>1, <1>6 DEF SaveResult, Step, Phase
<1>7. CASE CompleteRow(g, s)
  BY <1>1, <1>7 DEF CompleteRow, Step, UpdateJob, Phase, fileVars
<1>8. CASE MarkFailedRow(g, s)
  <2>1. pc[g][s] = "ff_row"
    BY <1>1, <1>8 DEF MarkFailedRow, Step, Phase, MissingPcs
  <2> QED BY <1>1, <1>2, <1>8, <2>1 DEF MarkFailedRow, UpdateJob, Phase, Ready, Locals, Jobs, fileVars
<1>9. CASE ~(\/ MarkProcessing(g, s) \/ Mirror(g, s) \/ MirrorDegraded(g, s) \/ SaveResult(g, s)
             \/ CompleteRow(g, s) \/ MarkFailedRow(g, s))
  BY <1>9
  DEF ProcessStep, RunStage, LoadJob, LoadContext, SeedFromJob, PersistOutputs, StartSubjob,
      Report, ReportDegraded, StageReturns, StageRaises, Callback, CheckSuccessStale,
      ReadJobOnSuccess, ReadContextOnSuccess, MarkFailedProgress, CompleteProgress,
      CheckFailureStale, ReadJobOnFailure, ReadContextOnFailure, LoadSubjobIds, CancelSubjob,
      CancelDone, FenceGeneration, CleanupWav, CleanupContext, ClearSubjobSet, CallbackRaises,
      AcknowledgeSubjob, KillHorse, Crash, Abandon, fileVars
<1> QED
  BY <1>3, <1>4, <1>5, <1>6, <1>7, <1>8, <1>9

\* Once llm_correction has begun, no way of failing makes such a job FAILED: the
\* context it leaves to finalize_failure has the transcript of postprocess.
THEOREM OptionalStageIsHarmless == Undisturbed => (Spec => OptionalStageNeverFailsJob)
<1> SUFFICES ASSUME Undisturbed PROVE Spec => OptionalStageNeverFailsJob
  OBVIOUS
<1> DEFINE Spares ==
      \A g \in Generations :
          g = Newest /\ HasLlm /\ pc[g]["llm_correction"] \in RunningPcs
          /\ row.status # "failed" => row'.status # "failed"
<1>1. SerialState /\ [Next]_vars => Spares
  <2> SUFFICES ASSUME SerialState, [Next]_vars, NEW g \in Generations, HasLlm,
                      pc[g]["llm_correction"] \in RunningPcs, row.status # "failed"
               PROVE  row'.status # "failed"
    BY DEF Spares
  <2>1. "llm_correction" \in Stages /\ Live(g, "llm_correction")
    BY DEF Stages, AllStages, Live
  <2>2. ASSUME NEW h \in Generations, NEW s \in Stages, ProcessStep(h, s) PROVE row'.status # "failed"
    <3>1. s = "llm_correction"
      BY <2>1, <2>2, LiveSteps DEF SerialState
    <3> QED BY <2>2, <3>1, RowWrites
  <2>3. CASE ClaimRetry \/ Enqueuer \/ UNCHANGED vars
    BY <2>3
    DEF ClaimRetry, Enqueuer, EnqueueBump, DeleteProgress, SeedProgress, DeleteContext, SeedContext,
        EnqueueStage, RecordSubjob, MarkEnqueueFailed, EnqueuerAt, SerialState, SerialInv, Resetting,
        vars
  <2>4. ~EnqueueRaises /\ ~EnqueuerDies /\ ~Age /\ ~\E r \in Reapers : Reap(r)
    BY DEF EnqueueRaises, EnqueuerDies, Age, Undisturbed, SerialState, TypeOK, BudgetType
  <2> QED BY <2>2, <2>3, <2>4 DEF Next, ProcessStep
<1>2. SerialState /\ [Next]_vars => [Spares]_vars
  BY <1>1
<1> QED
  BY <1>2, SerialCorrect, PTL DEF Spec, OptionalStageNeverFailsJob

\* What the owner sees of the transcript.
Seen == IF transcript = 0 THEN "none"
        ELSE IF transcript = Newest /\ ~EnqueuerAt("bump") THEN "current" ELSE "stale"

LEMMA LifecycleInit == Init => Lifecycle!Init
BY DEF Init, Lifecycle!Init

\* Every step is one of the owner's view, or changes nothing there.
LEMMA LifecycleStep ==
    ASSUME SerialState, Undisturbed, [Next]_vars
    PROVE  [Lifecycle!Next]_<<row.status, Seen>>
<1> USE DEF SerialState
<1>1. /\ generation \in Nat /\ Newest \in Nat /\ Newest <= generation /\ transcript \in Nat
      /\ transcript <= Newest
  BY PipelineAssumption
  DEF TypeOK, Source, EnqueuerType, PipelineAssumption, ContextInv, CounterAhead, Newest, SerialInv, Saved
<1>2. ASSUME NEW g \in Generations, NEW s \in Stages, ProcessStep(g, s)
      PROVE  [Lifecycle!Next]_<<row.status, Seen>>
  <2>1. UNCHANGED enqueuer /\ ~EnqueuerAt("bump") /\ g = Newest /\ g # 0
    BY <1>2, OneProcess, LiveSteps, Grounds DEF EnqueuerAt, Newest
  <2>2. CASE row'.status = row.status /\ transcript' = transcript
    BY <2>1, <2>2 DEF Seen, Newest, EnqueuerAt
  <2>3. CASE row'.status = "processing" /\ row.status \in Active /\ transcript' = transcript
    BY <2>1, <2>3 DEF Seen, Newest, EnqueuerAt, Active, Lifecycle!Next, Lifecycle!Start
  <2>4. CASE row'.status = row.status /\ row.status = "processing" /\ transcript' = g
    BY <2>1, <2>4 DEF Seen, Newest, EnqueuerAt, Lifecycle!Next, Lifecycle!Save
  <2>5. CASE row'.status = "completed" /\ row.status = "processing" /\ transcript' = transcript /\ transcript = g
    BY <2>1, <2>5 DEF Seen, Newest, EnqueuerAt, Lifecycle!Next, Lifecycle!Complete
  <2>6. CASE row'.status = "failed" /\ row.status \in Active /\ transcript' = transcript
    BY <2>1, <2>6 DEF Seen, Newest, EnqueuerAt, Active, Lifecycle!Next, Lifecycle!Fail, Lifecycle!Active
  <2> QED BY <1>2, <2>2, <2>3, <2>4, <2>5, <2>6, RowWrites
<1>3. CASE ClaimRetry
  BY <1>3 DEF ClaimRetry, TypeOK, EnqueuerType, EnqueuerAt, fileVars, Seen, Newest, Lifecycle!Next, Lifecycle!Retry
<1>4. CASE EnqueueBump
  BY <1>1, <1>4 DEF EnqueueBump, BumpGeneration, TypeOK, EnqueuerType, EnqueuerAt, fileVars, Seen, Newest
<1>5. CASE DeleteProgress \/ SeedProgress \/ DeleteContext \/ SeedContext \/ RecordSubjob
  BY <1>5
  DEF DeleteProgress, SeedProgress, DeleteContext, SeedContext, RecordSubjob, TypeOK, EnqueuerType,
      EnqueuerAt, EnqueuerGoto, fileVars, Seen, Newest
<1>6. CASE \E s \in Stages : EnqueueStage(s)
  BY <1>6 DEF EnqueueStage, TypeOK, EnqueuerType, EnqueuerAt, fileVars, Seen, Newest
<1>7. CASE UNCHANGED vars
  BY <1>7 DEF vars, Seen, Newest, EnqueuerAt
<1>8. /\ ~EnqueueRaises /\ ~EnqueuerDies /\ ~MarkEnqueueFailed /\ ~Age
      /\ ~\E r \in Reapers : Reap(r)
  BY DEF EnqueueRaises, EnqueuerDies, MarkEnqueueFailed, EnqueuerAt, SerialInv, Resetting, Age,
         Undisturbed, TypeOK, BudgetType
<1> QED
  BY <1>2, <1>3, <1>4, <1>5, <1>6, <1>7, <1>8 DEF Next, Enqueuer, ProcessStep

\* Such a job implements JobLifecycle step by step: an attempt ends once, it is
\* declared complete only after its transcript is saved, and a terminal row
\* changes only by a retry.
THEOREM ImplementsLifecycle == Undisturbed => (Spec => LifecycleKept)
<1> SUFFICES ASSUME Undisturbed PROVE Spec => LifecycleKept
  OBVIOUS
<1>1. SerialState /\ [Next]_vars => [Lifecycle!Next]_<<row.status, Seen>>
  BY LifecycleStep
<1> QED
  BY <1>1, LifecycleInit, SerialCorrect, PTL DEF Spec, LifecycleKept, Lifecycle!Spec, Seen
=============================================================================
