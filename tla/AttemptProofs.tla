---------------------------- MODULE AttemptProofs ----------------------------
(***************************************************************************)
(* Theorems about the attempts of Pipeline: callbacks of a superseded one  *)
(* touch nothing (StaleCallbacksAreInert), the stages of the current one   *)
(* read inputs of their own (InputsOfOwnAttempt), the reaper gives up only *)
(* an attempt that is dead (RecoverOnlyDead), and a completed job has the  *)
(* newest attempt's transcript on disk (CompletedMeansSaved).              *)
(***************************************************************************)
EXTENDS PipelineProofs

-----------------------------------------------------------------------------
(* Callbacks of superseded attempts *)

\* A step of the process that serves a sub-job, or of RQ on its behalf.
ProcessStep(g, s) ==
    \/ StartSubjob(g, s) \/ RunStage(g, s) \/ Report(g, s) \/ ReportDegraded(g, s)
    \/ StageReturns(g, s) \/ StageRaises(g, s) \/ Callback(g, s) \/ CallbackRaises(g, s)
    \/ AcknowledgeSubjob(g, s) \/ KillHorse(g, s) \/ Crash(g, s) \/ Abandon(g, s)

\* No callback runs while the counter moves to a new attempt, so those of the
\* attempts before it have yet to compare themselves with the counter, or have.
StaleAtCheck ==
    ~PromptRetry =>
        \A g \in Generations, s \in Stages :
            g < enqueuer.generation /\ pc[g][s] \in CallbackPcs =>
                pc[g][s] \in {"fs_stale", "ff_stale", "ack"}

LEMMA StaleInit == Init => StaleAtCheck
BY DEF Init, StaleAtCheck, CallbackPcs, SuccessPcs, MissingPcs, CompletionPcs, FailurePcs

\* What a step of the process of one sub-job leaves alone.
LEMMA OneProcess ==
    ASSUME TypeOK, NEW g \in Generations, NEW s \in Stages,
           ProcessStep(g, s)
    PROVE  /\ \A h \in Generations, t \in Stages :
                  <<h, t>> # <<g, s>> => pc'[h][t] = pc[h][t] /\ local'[h][t] = local[h][t]
           /\ UNCHANGED <<enqueuer, reaper>>
<1> USE DEF TypeOK, PerSubjob, Goto, Assign, Step, redisVars
<1>1. CASE StartSubjob(g, s)
  BY <1>1 DEF StartSubjob
<1>2. CASE RunStage(g, s)
  BY <1>2 DEF RunStage, LoadJob, MarkProcessing, LoadContext, SeedFromJob, Mirror,
              MirrorDegraded, PersistOutputs
<1>3. CASE Report(g, s) \/ ReportDegraded(g, s) \/ StageReturns(g, s) \/ StageRaises(g, s)
  BY <1>3 DEF Report, ReportDegraded, StageReturns, StageRaises
<1>4. CASE \/ CheckSuccessStale(g, s) \/ ReadJobOnSuccess(g, s) \/ ReadContextOnSuccess(g, s)
           \/ MarkFailedRow(g, s) \/ MarkFailedProgress(g, s)
           \/ SaveResult(g, s) \/ CompleteRow(g, s) \/ CompleteProgress(g, s)
  BY <1>4 DEF CheckSuccessStale, ReadJobOnSuccess, ReadContextOnSuccess, MarkFailedRow,
              MarkFailedProgress, SaveResult, CompleteRow, CompleteProgress
<1>5. CASE \/ CheckFailureStale(g, s) \/ ReadJobOnFailure(g, s) \/ ReadContextOnFailure(g, s)
           \/ LoadSubjobIds(g, s) \/ CancelSubjob(g, s) \/ CancelDone(g, s)
  BY <1>5 DEF CheckFailureStale, ReadJobOnFailure, ReadContextOnFailure, LoadSubjobIds,
              CancelSubjob, CancelDone
<1>6. CASE FenceGeneration(g, s) \/ CleanupWav(g, s) \/ CleanupContext(g, s) \/ ClearSubjobSet(g, s)
  BY <1>6 DEF FenceGeneration, CleanupWav, CleanupContext, ClearSubjobSet
<1>7. CASE \/ CallbackRaises(g, s) \/ AcknowledgeSubjob(g, s) \/ KillHorse(g, s)
           \/ Crash(g, s) \/ Abandon(g, s)
  BY <1>7 DEF CallbackRaises, AcknowledgeSubjob, KillHorse, Crash, Abandon
<1> QED
  BY <1>1, <1>2, <1>3, <1>4, <1>5, <1>6, <1>7 DEF ProcessStep, Callback

\* A stage enters its callbacks at the first check, and a superseded one leaves there.
LEMMA StaleProcess ==
    ASSUME TypeOK, ContextInv, StaleAtCheck, NEW g \in Generations, NEW s \in Stages,
           ProcessStep(g, s)
    PROVE  StaleAtCheck'
<1> DEFINE Entry == {"fs_stale", "ff_stale", "ack"}
<1> SUFFICES ASSUME ~PromptRetry, g < enqueuer.generation, pc'[g][s] \in CallbackPcs
             PROVE  pc'[g][s] \in Entry
  BY OneProcess DEF StaleAtCheck
<1>1. IsStale(g)
  BY PipelineAssumption
  DEF ContextInv, CounterAhead, IsStale, TypeOK, EnqueuerType, Source, Generations, PipelineAssumption
<1>2. pc[g][s] \in CallbackPcs => pc[g][s] \in Entry
  BY DEF StaleAtCheck
<1>3. \A label : Goto(g, s, label) => pc'[g][s] = label
  BY DEF TypeOK, PerSubjob, Goto
<1> USE DEF CallbackPcs, SuccessPcs, MissingPcs, CompletionPcs, FailurePcs
<1>4. CASE \/ StartSubjob(g, s) \/ Report(g, s) \/ ReportDegraded(g, s) \/ StageReturns(g, s)
           \/ StageRaises(g, s)
  BY <1>3, <1>4 DEF StartSubjob, Report, ReportDegraded, StageReturns, StageRaises
<1>5. CASE RunStage(g, s)
  BY <1>3, <1>5 DEF RunStage, LoadJob, MarkProcessing, LoadContext, SeedFromJob, Mirror,
                    MirrorDegraded, PersistOutputs
<1>6. CASE Callback(g, s)
  BY <1>1, <1>2, <1>3, <1>6
  DEF Callback, Step, CheckSuccessStale, ReadJobOnSuccess, ReadContextOnSuccess, MarkFailedRow,
      MarkFailedProgress, SaveResult, CompleteRow, CompleteProgress, CheckFailureStale,
      ReadJobOnFailure, ReadContextOnFailure, LoadSubjobIds, CancelSubjob, CancelDone,
      FenceGeneration, CleanupWav, CleanupContext, ClearSubjobSet
<1>7. CASE CallbackRaises(g, s)
  BY <1>2, <1>3, <1>7 DEF CallbackRaises, OnException
<1>8. CASE AcknowledgeSubjob(g, s) \/ KillHorse(g, s) \/ Crash(g, s) \/ Abandon(g, s)
  BY <1>3, <1>8 DEF AcknowledgeSubjob, KillHorse, Crash, Abandon, Step
<1> QED
  BY <1>4, <1>5, <1>6, <1>7, <1>8 DEF ProcessStep

LEMMA StaleNext == TypeOK /\ ContextInv /\ StaleAtCheck /\ [Next]_vars => StaleAtCheck'
<1> SUFFICES ASSUME TypeOK, ContextInv, StaleAtCheck, [Next]_vars PROVE StaleAtCheck'
  OBVIOUS
<1>1. ASSUME UNCHANGED pc, enqueuer'.generation = enqueuer.generation PROVE StaleAtCheck'
  BY <1>1 DEF StaleAtCheck
<1>2. CASE EnqueueBump
  BY <1>2 DEF EnqueueBump, MayOverlap, StaleAtCheck
<1>3. CASE ClaimRetry \/ (Enqueuer /\ ~EnqueueBump) \/ EnqueueRaises \/ EnqueuerDies
  BY <1>1, <1>3
  DEF TypeOK, EnqueuerType, ClaimRetry, Enqueuer, DeleteProgress, SeedProgress, DeleteContext,
      SeedContext, EnqueueStage, RecordSubjob, MarkEnqueueFailed, EnqueueRaises, EnqueuerDies,
      EnqueuerGoto
<1>4. CASE Age \/ \E r \in Reapers : Reap(r)
  BY <1>1, <1>4
  DEF Age, Reap, ListStale, ReadGeneration, ReadSubjobIds, ScanSubjob, ReaperBump, RecoverStale
<1>5. CASE UNCHANGED vars
  BY <1>1, <1>5 DEF vars
<1> QED
  BY <1>2, <1>3, <1>4, <1>5, StaleProcess DEF Next, ProcessStep

\* Whatever stages of superseded attempts are still running, fail or are
\* abandoned, their callbacks change nothing a newer attempt uses, if a retry
\* request does not overlap a callback of the attempt before it.
THEOREM StaleCallbacksStayInert == ~PromptRetry => (Spec => StaleCallbacksAreInert)
<1> SUFFICES ASSUME ~PromptRetry PROVE Spec => StaleCallbacksAreInert
  OBVIOUS
<1> DEFINE Inert ==
      \A g \in Generations, s \in Stages :
          g < Newest /\ pc[g][s] \in CallbackPcs /\ Callback(g, s) =>
              UNCHANGED <<row, generation, progress, context, transcript, subjob>>
<1>1. TypeOK /\ ContextInv /\ StaleAtCheck => Inert
  <2> SUFFICES ASSUME TypeOK, ContextInv, StaleAtCheck, NEW g \in Generations, NEW s \in Stages,
                      g < Newest, pc[g][s] \in CallbackPcs, Callback(g, s)
               PROVE  UNCHANGED <<row, generation, progress, context, transcript, subjob>>
    BY DEF Inert
  <2>1. pc[g][s] \in {"fs_stale", "ff_stale", "ack"}
    BY DEF StaleAtCheck, Newest
  <2>2. CheckSuccessStale(g, s) \/ CheckFailureStale(g, s)
    BY <2>1
    DEF Callback, Step, CheckSuccessStale, ReadJobOnSuccess, ReadContextOnSuccess, MarkFailedRow,
        MarkFailedProgress, SaveResult, CompleteRow, CompleteProgress, CheckFailureStale,
        ReadJobOnFailure, ReadContextOnFailure, LoadSubjobIds, CancelSubjob, CancelDone,
        FenceGeneration, CleanupWav, CleanupContext, ClearSubjobSet
  <2> QED
    BY <2>2 DEF CheckSuccessStale, CheckFailureStale, redisVars, fileVars
<1>2. TypeOK /\ ContextInv /\ StaleAtCheck => [Inert]_vars
  BY <1>1
<1> QED
  BY <1>2, TypeInit, TypeNext, ContextInit, ContextNext, StaleInit, StaleNext, PTL
  DEF Spec, StaleCallbacksAreInert

-----------------------------------------------------------------------------
(* The inputs of the stages *)

FinalStage == IF HasLlm THEN "llm_correction" ELSE "postprocess"

\* What a stage reads that the stages before it or initialize provide; the
\* input_path of preprocess is left to the shape of the job.
OwnKeys(s) == IF s = "download" THEN {} ELSE InputKeys(s) \ {"input_path"}

\* What a finished stage vouches for.
Provided(s) ==
    IF s = "assign_speakers" THEN {IF HasDiarize THEN "final_result" ELSE "aligned_result"}
    ELSE {OutputKey(s)} \ {"input_path"}

\* No sub-job of the attempt that enqueue_pipeline last counted is there before
\* it has reset both hashes, and none of a later one ever.
LaunchedInOrder ==
    /\ \A g \in Generations : Launched(g) => g <= enqueuer.generation
    /\ enqueuer.pc \in {"del_progress", "seed_progress", "del_context", "seed_context"} =>
           \A g \in Generations : Launched(g) => g < enqueuer.generation

\* Only a stage whose dependencies are over is queued; RQ has run what it calls
\* finished, and not what it calls deferred.
InOrder ==
    \A g \in Generations, s \in Stages :
        /\ subjob[g][s] = "finished" => pc[g][s] = "done"
        /\ subjob[g][s] = "deferred" => pc[g][s] = "idle"
        /\ subjob[g][s] \in {"queued", "started", "finished"} \/ pc[g][s] # "idle" =>
               \A d \in DependsOn(s) : pc[g][d] = "done"

\* Only the last stage has a success callback, and a failure callback has
\* fenced its attempt off before it cleans up.
CallbackShape ==
    \A g \in Generations, s \in Stages :
        /\ pc[g][s] \in SuccessPcs \cup MissingPcs \cup CompletionPcs => s = FinalStage
        /\ pc[g][s] \in FailurePcs => local[g][s].failing
        /\ pc[g][s] \in {"ff_wav", "ff_delete", "ff_clear"} => g < generation

\* The last stage has not begun to finalise.
Unfinished(g) == pc[g][FinalStage] \in {"idle"} \cup StagePcs

\* The current attempt's context has what its stages that are to run read, and
\* what its finished ones wrote.
Provision ==
    LET n == enqueuer.generation IN
    n = generation /\ n \in Generations /\ Unfinished(n) =>
        /\ enqueuer.pc \in {"enqueue", "record"} \/ Launched(n) => context["language"] = n
        /\ \A s \in Stages :
              /\ subjob[n][s] = "finished" \/ (pc[n][s] = "ack" /\ ~local[n][s].failing) =>
                     \A k \in Provided(s) : context[k] = n
              /\ (subjob[n][s] = "queued" /\ pc[n][s] = "idle") \/ pc[n][s] \in StagePcs =>
                     \A k \in OwnKeys(s) : context[k] = n

\* A stage of the current attempt has loaded what that attempt provided.
LoadedOwn ==
    \A g \in Generations, s \in Stages :
        g = generation /\ pc[g][s] \in {"seed", "run", "mirror", "degraded", "persist"} =>
            \A k \in OwnKeys(s) : local[g][s].context[k] = g

InputsInv == LaunchedInOrder /\ InOrder /\ CallbackShape /\ Provision /\ LoadedOwn

LEMMA InputsInit == Init => InputsInv
BY DEF Init, InputsInv, LaunchedInOrder, InOrder, CallbackShape, Provision, LoadedOwn, Launched,
       StagePcs, SuccessPcs, MissingPcs, CompletionPcs, FailurePcs

\* Facts about the DAG.
LEMMA Dag ==
    /\ FinalStage \in Stages
    /\ \A s \in Stages : IsFinal(s) <=> s = FinalStage
    /\ \A s \in Stages : DependsOn(s) \subseteq Stages /\ s \notin DependsOn(s)
    /\ \A s \in Stages : Provided(s) \subseteq Keys
    /\ \A s \in Stages : OwnKeys(s) \subseteq Keys \ {"input_path", "source_url"}
    /\ \A s \in Stages : "input_path" \notin Provided(s) /\ "source_url" \notin Provided(s)
    /\ \A s \in Stages : \A k \in OwnKeys(s) :
           k = "language" \/ \E d \in DependsOn(s) : k \in Provided(d)
BY DEF FinalStage, Stages, AllStages, IsFinal, DependsOn, Provided, OwnKeys, InputKeys, OutputKey,
       Keys, OutputKeys

\* When the last stage has begun, the others are over.
LEMMA LastComesLast ==
    ASSUME InOrder, NEW g \in Generations, pc[g][FinalStage] # "idle",
           NEW t \in Stages, t # FinalStage
    PROVE  pc[g][t] = "done"
<1>1. \A s \in Stages : pc[g][s] # "idle" => \A d \in DependsOn(s) : pc[g][d] = "done"
  BY DEF InOrder
<1> DEFINE Over(s) == s \in Stages => pc[g][s] = "done"
<1>2. FinalStage # "postprocess" => Over("postprocess")
  BY <1>1, Dag DEF FinalStage, DependsOn, Stages, AllStages
<1>3. Over("assign_speakers")
  BY <1>1, <1>2, Dag DEF FinalStage, DependsOn, Stages, AllStages
<1>4. Over("transcribe_align") /\ Over("diarize")
  BY <1>1, <1>3 DEF DependsOn, Stages, AllStages
<1>5. Over("preprocess")
  BY <1>1, <1>4 DEF DependsOn, Stages, AllStages
<1>6. Over("download")
  BY <1>1, <1>5 DEF DependsOn, Stages, AllStages
<1> QED
  BY <1>2, <1>3, <1>4, <1>5, <1>6 DEF FinalStage, Stages, AllStages

\* When the dependencies of a stage are over, so are all stages before it.
LEMMA EarlierAreOver ==
    ASSUME ~HasDiarize, InOrder, NEW g \in Generations, NEW t \in Stages,
           \A d \in DependsOn(t) : pc[g][d] = "done",
           NEW s \in Stages, Rank(s) < Rank(t)
    PROVE  pc[g][s] = "done"
<1>1. \A u \in Stages : pc[g][u] = "done" => \A d \in DependsOn(u) : pc[g][d] = "done"
  BY DEF InOrder
<1> DEFINE Over(u) == u \in Stages /\ Rank(u) < Rank(t) => pc[g][u] = "done"
<1> USE DEF Stages, AllStages, DependsOn, Rank
<1>2. Over("llm_correction")
  OBVIOUS
<1>3. Over("postprocess")
  BY <1>1, <1>2
<1>4. Over("assign_speakers")
  BY <1>1, <1>3
<1>5. Over("transcribe_align") /\ Over("diarize")
  BY <1>1, <1>4
<1>6. Over("preprocess")
  BY <1>1, <1>5
<1>7. Over("download")
  BY <1>1, <1>6
<1> QED
  BY <1>2, <1>3, <1>4, <1>5, <1>6, <1>7

\* Any step of a process leads on; the first one is its start.
LEMMA Onward ==
    ASSUME TypeOK, NEW g \in Generations, NEW s \in Stages, ProcessStep(g, s)
    PROVE  /\ pc[g][s] # "done" /\ pc'[g][s] # "idle"
           /\ pc[g][s] = "idle" => StartSubjob(g, s)
           /\ pc'[g][s] \in RunningPcs =>
                  pc[g][s] \in RunningPcs \/ StartSubjob(g, s) \/ Abandon(g, s)
           /\ pc'[g][s] = "ff_cancel" =>
                  LoadSubjobIds(g, s) \/ (pc[g][s] = "ff_cancel" /\ local'[g][s].todo \subseteq local[g][s].todo)
<1> USE DEF StagePcs, SuccessPcs, MissingPcs, CompletionPcs, FailurePcs, CallbackPcs, RunningPcs, Step
<1>1. \A label : Goto(g, s, label) => pc'[g][s] = label
  BY DEF TypeOK, PerSubjob, Goto
<1>2. CASE StartSubjob(g, s) \/ LoadJob(g, s) \/ MarkProcessing(g, s) \/ LoadContext(g, s) \/ SeedFromJob(g, s)
  BY <1>1, <1>2 DEF StartSubjob, LoadJob, MarkProcessing, LoadContext, SeedFromJob, redisVars
<1>3. CASE \/ Mirror(g, s) \/ MirrorDegraded(g, s) \/ Report(g, s) \/ ReportDegraded(g, s)
           \/ StageReturns(g, s) \/ PersistOutputs(g, s)
  BY <1>1, <1>3 DEF Mirror, MirrorDegraded, Report, ReportDegraded, StageReturns, PersistOutputs, redisVars
<1>4. CASE StageRaises(g, s) \/ Abandon(g, s)
  BY <1>1, <1>4 DEF StageRaises, Abandon
<1>5. CASE \/ CheckSuccessStale(g, s) \/ ReadJobOnSuccess(g, s) \/ ReadContextOnSuccess(g, s)
           \/ SaveResult(g, s) \/ CompleteRow(g, s) \/ CompleteProgress(g, s)
           \/ MarkFailedRow(g, s) \/ MarkFailedProgress(g, s)
  BY <1>1, <1>5
  DEF CheckSuccessStale, ReadJobOnSuccess, ReadContextOnSuccess, SaveResult, CompleteRow,
      CompleteProgress, MarkFailedRow, MarkFailedProgress, redisVars
<1>6. CASE \/ CheckFailureStale(g, s) \/ ReadJobOnFailure(g, s) \/ ReadContextOnFailure(g, s)
           \/ LoadSubjobIds(g, s) \/ CancelDone(g, s)
  BY <1>1, <1>6
  DEF CheckFailureStale, ReadJobOnFailure, ReadContextOnFailure, LoadSubjobIds, CancelDone, redisVars
<1>7. CASE CancelSubjob(g, s)
  <2>1. PICK t \in local[g][s].todo : Assign(g, s, [local[g][s] EXCEPT !.todo = local[g][s].todo \ {t}])
    BY <1>7 DEF CancelSubjob
  <2>2. local'[g][s] = [local[g][s] EXCEPT !.todo = local[g][s].todo \ {t}]
    BY <2>1 DEF Assign, TypeOK, PerSubjob
  <2>3. local[g][s] \in Locals
    BY PerSubjobElement DEF TypeOK
  <2>4. local'[g][s].todo \subseteq local[g][s].todo
    BY <2>2, <2>3 DEF Locals
  <2> QED BY <1>7, <2>4 DEF CancelSubjob
<1>8. CASE FenceGeneration(g, s) \/ CleanupWav(g, s) \/ CleanupContext(g, s) \/ ClearSubjobSet(g, s)
  BY <1>1, <1>8 DEF FenceGeneration, CleanupWav, CleanupContext, ClearSubjobSet, AfterCompletion, redisVars
<1>9. CASE CallbackRaises(g, s)
  <2>1. pc[g][s] \in CallbackPcs /\ pc[g][s] \notin {"completion_wav", "ack"} /\ pc'[g][s] = OnException(g, s)
    BY <1>1, <1>9 DEF CallbackRaises
  <2>2. OnException(g, s) \in {"ff_stale", "missing_context", "fail_row", "completion_wav", "ff_bump", "ff_wav", "ack"}
    BY <2>1 DEF OnException, AfterCompletion
  <2> QED BY <2>1, <2>2
<1>10. CASE AcknowledgeSubjob(g, s) \/ KillHorse(g, s) \/ Crash(g, s)
  BY <1>1, <1>10 DEF AcknowledgeSubjob, KillHorse, Crash, redisVars
<1> QED
  BY <1>2, <1>3, <1>4, <1>5, <1>6, <1>7, <1>8, <1>9, <1>10 DEF ProcessStep, RunStage, Callback

\* Where a step may take a process; no store fails.
LEMMA Moves ==
    ASSUME TypeOK, InputsInv, MaxStoreFaults = 0, NEW g \in Generations, NEW s \in Stages,
           ProcessStep(g, s)
    PROVE  /\ pc[g][s] # "done" /\ pc'[g][s] # "idle"
           /\ pc[g][s] = "idle" => StartSubjob(g, s)
           /\ pc'[g][s] \in StagePcs => pc[g][s] \in StagePcs \cup {"idle"}
           /\ pc'[g][s] \in SuccessPcs \cup MissingPcs \cup CompletionPcs => s = FinalStage
           /\ pc'[g][s] \in FailurePcs => local'[g][s].failing
           /\ pc'[g][s] \in {"ff_wav", "ff_delete", "ff_clear"} =>
                  FenceGeneration(g, s) \/ g < generation
           /\ pc'[g][s] = "ack" => PersistOutputs(g, s) \/ s = FinalStage \/ local'[g][s].failing
           /\ generation' # generation => FenceGeneration(g, s)
<1> USE DEF StagePcs, SuccessPcs, MissingPcs, CompletionPcs, FailurePcs, CallbackPcs, RunningPcs, Step
<1>1. \A label : Goto(g, s, label) => pc'[g][s] = label
  BY DEF TypeOK, PerSubjob, Goto
<1>2. \A l : Assign(g, s, l) => local'[g][s] = l
  BY DEF TypeOK, PerSubjob, Assign
<1>3. /\ pc[g][s] \in SuccessPcs \cup MissingPcs \cup CompletionPcs => s = FinalStage
      /\ pc[g][s] \in FailurePcs => local[g][s].failing
      /\ pc[g][s] \in {"ff_wav", "ff_delete", "ff_clear"} => g < generation
  BY DEF InputsInv, CallbackShape
<1>4. IsFinal(s) <=> s = FinalStage
  BY Dag
<1>5. local[g][s] \in Locals /\ FreshLocal \in Locals
  BY FreshLocalType, PerSubjobElement DEF TypeOK
<1>6. ~CallbackRaises(g, s)
  BY DEF CallbackRaises, TypeOK, BudgetType
<1>7. CASE StartSubjob(g, s) \/ LoadJob(g, s) \/ MarkProcessing(g, s) \/ LoadContext(g, s) \/ SeedFromJob(g, s)
  BY <1>1, <1>7 DEF StartSubjob, LoadJob, MarkProcessing, LoadContext, SeedFromJob, redisVars
<1>8. CASE \/ Mirror(g, s) \/ MirrorDegraded(g, s) \/ Report(g, s) \/ ReportDegraded(g, s)
           \/ StageReturns(g, s)
  BY <1>1, <1>8 DEF Mirror, MirrorDegraded, Report, ReportDegraded, StageReturns, redisVars
<1>9. CASE PersistOutputs(g, s)
  BY <1>1, <1>4, <1>9 DEF PersistOutputs
<1>10. CASE StageRaises(g, s) \/ Abandon(g, s)
  BY <1>1, <1>2, <1>5, <1>10 DEF StageRaises, Abandon, Locals, redisVars
<1>11. CASE \/ CheckSuccessStale(g, s) \/ ReadJobOnSuccess(g, s) \/ ReadContextOnSuccess(g, s)
            \/ SaveResult(g, s) \/ CompleteRow(g, s) \/ CompleteProgress(g, s)
  BY <1>1, <1>3, <1>11
  DEF CheckSuccessStale, ReadJobOnSuccess, ReadContextOnSuccess, SaveResult, CompleteRow,
      CompleteProgress, redisVars
<1>12. CASE MarkFailedRow(g, s) \/ MarkFailedProgress(g, s)
  BY <1>1, <1>2, <1>3, <1>5, <1>12 DEF MarkFailedRow, MarkFailedProgress, redisVars, Locals
<1>13. CASE CheckFailureStale(g, s) \/ ReadJobOnFailure(g, s) \/ LoadSubjobIds(g, s) \/ CancelDone(g, s)
  BY <1>1, <1>2, <1>3, <1>5, <1>13
  DEF CheckFailureStale, ReadJobOnFailure, LoadSubjobIds, CancelDone, redisVars, Locals
<1>14. CASE ReadContextOnFailure(g, s)
  <2>1. Salvages(s) => s = FinalStage
    BY DEF Salvages, FinalStage, Stages
  <2> QED BY <1>1, <1>2, <1>3, <1>5, <1>14, <2>1 DEF ReadContextOnFailure, redisVars, Locals
<1>15. CASE CancelSubjob(g, s)
  BY <1>2, <1>3, <1>5, <1>15 DEF CancelSubjob, redisVars, Locals
<1>16. CASE FenceGeneration(g, s) \/ CleanupWav(g, s) \/ CleanupContext(g, s)
  BY <1>1, <1>3, <1>16 DEF FenceGeneration, CleanupWav, CleanupContext, redisVars
<1>17. CASE ClearSubjobSet(g, s)
  BY <1>1, <1>2, <1>3, <1>5, <1>17 DEF ClearSubjobSet, AfterCompletion, Locals
<1>18. CASE AcknowledgeSubjob(g, s) \/ KillHorse(g, s) \/ Crash(g, s)
  BY <1>1, <1>18 DEF AcknowledgeSubjob, KillHorse, Crash, redisVars
<1> QED
  BY <1>6, <1>7, <1>8, <1>9, <1>10, <1>11, <1>12, <1>13, <1>14, <1>15, <1>16, <1>17, <1>18
  DEF ProcessStep, RunStage, Callback

\* How a step changes the statuses of the sub-jobs.
LEMMA Statuses ==
    ASSUME TypeOK, ContextInv, InOrder, NEW g \in Generations, NEW s \in Stages, ProcessStep(g, s)
    PROVE  /\ \A h \in Generations : Launched(h)' => Launched(h)
           /\ \A h \in Generations, t \in Stages :
                 \/ subjob'[h][t] \in {subjob[h][t], "canceled"}
                 \/ h = g /\ t = s /\ StartSubjob(g, s)
                 \/ h = g /\ t = s /\ AcknowledgeSubjob(g, s)
                 \/ /\ AcknowledgeSubjob(g, s) /\ h = g /\ t # s /\ ~local[g][s].failing
                    /\ subjob'[h][t] = "queued" /\ subjob[h][t] = "deferred"
                    /\ \A d \in DependsOn(t) : d = s \/ subjob[g][d] = "finished"
<1> DEFINE Changes ==
      \A h \in Generations, t \in Stages :
         \/ subjob'[h][t] \in {subjob[h][t], "canceled"}
         \/ h = g /\ t = s /\ StartSubjob(g, s)
         \/ h = g /\ t = s /\ AcknowledgeSubjob(g, s)
         \/ /\ AcknowledgeSubjob(g, s) /\ h = g /\ t # s /\ ~local[g][s].failing
            /\ subjob'[h][t] = "queued" /\ subjob[h][t] = "deferred"
            /\ \A d \in DependsOn(t) : d = s \/ subjob[g][d] = "finished"
<1>1. CASE subjob' = subjob
  BY <1>1 DEF Launched
<1>2. CASE StartSubjob(g, s)
  BY <1>2 DEF TypeOK, PerSubjob, StartSubjob, Launched
<1>3. CASE CancelSubjob(g, s)
  <2>1. PICK t \in local[g][s].todo : subjob' = [subjob EXCEPT ![g][t] = "canceled"]
    BY <1>3 DEF CancelSubjob
  <2>2. t \in Stages
    BY LocalType
  <2>3. subjob[g][s] # "none"
    BY <1>3 DEF CancelSubjob, ContextInv, RunningIsLaunched
  <2> QED BY <2>1, <2>2, <2>3 DEF TypeOK, PerSubjob, Launched
<1>4. CASE AcknowledgeSubjob(g, s)
  <2>1. subjob[g][s] # "none"
    BY <1>4 DEF AcknowledgeSubjob, Step, ContextInv, RunningIsLaunched
  <2>2. \A h \in Generations, t \in Stages : h # g => subjob'[h][t] = subjob[h][t]
    BY <1>4 DEF TypeOK, PerSubjob, AcknowledgeSubjob
  <2>3. ASSUME NEW t \in Stages, t # s, subjob'[g][t] # subjob[g][t]
        PROVE  /\ ~local[g][s].failing /\ subjob'[g][t] = "queued" /\ subjob[g][t] = "deferred"
               /\ \A d \in DependsOn(t) : d = s \/ subjob[g][d] = "finished"
    BY <1>4, <2>3 DEF TypeOK, PerSubjob, AcknowledgeSubjob
  <2>4. Changes
    BY <1>4, <2>2, <2>3
  <2>5. \A h \in Generations : Launched(h)' => Launched(h)
    BY <2>1, <2>2 DEF Launched
  <2> QED BY <2>4, <2>5
<1>5. CASE ~(StartSubjob(g, s) \/ CancelSubjob(g, s) \/ AcknowledgeSubjob(g, s))
  BY <1>1, <1>5
  DEF ProcessStep, RunStage, LoadJob, MarkProcessing, LoadContext, SeedFromJob, Mirror,
      MirrorDegraded, PersistOutputs, Report, ReportDegraded, StageReturns, StageRaises, Callback,
      CheckSuccessStale, ReadJobOnSuccess, ReadContextOnSuccess, MarkFailedRow, MarkFailedProgress,
      SaveResult, CompleteRow, CompleteProgress, CheckFailureStale, ReadJobOnFailure,
      ReadContextOnFailure, LoadSubjobIds, CancelDone, FenceGeneration, CleanupWav, CleanupContext,
      ClearSubjobSet, CallbackRaises, KillHorse, Crash, Abandon
<1> QED
  BY <1>2, <1>3, <1>4, <1>5

LEMMA InOrderProcess ==
    ASSUME TypeOK, ContextInv, InOrder, NEW g \in Generations, NEW s \in Stages, ProcessStep(g, s)
    PROVE  InOrder'
<1> SUFFICES ASSUME NEW h \in Generations, NEW t \in Stages
             PROVE  /\ subjob'[h][t] = "finished" => pc'[h][t] = "done"
                    /\ subjob'[h][t] = "deferred" => pc'[h][t] = "idle"
                    /\ subjob'[h][t] \in {"queued", "started", "finished"} \/ pc'[h][t] # "idle" =>
                           \A d \in DependsOn(t) : pc'[h][d] = "done"
  BY DEF InOrder
<1>1. \A d \in Stages : pc[h][d] = "done" => pc'[h][d] = "done"
  BY OneProcess, Onward
<1>2. DependsOn(t) \subseteq Stages /\ t \notin DependsOn(t)
  BY Dag
<1>3. /\ subjob[h][t] = "finished" => pc[h][t] = "done"
      /\ subjob[h][t] = "deferred" => pc[h][t] = "idle"
      /\ subjob[h][t] \in {"queued", "started", "finished"} \/ pc[h][t] # "idle" =>
             \A d \in DependsOn(t) : pc[h][d] = "done"
      /\ \A d \in Stages : subjob[h][d] = "finished" => pc[h][d] = "done"
  BY DEF InOrder
<1>4. <<h, t>> # <<g, s>> => pc'[h][t] = pc[h][t]
  BY OneProcess
<1>5. CASE StartSubjob(g, s)
  <2>1. /\ subjob[g][s] = "queued" /\ subjob' = [subjob EXCEPT ![g][s] = "started"]
        /\ pc' = [pc EXCEPT ![g][s] = "load_job"]
    BY <1>5 DEF StartSubjob, Goto
  <2> QED BY <1>1, <1>2, <1>3, <2>1 DEF TypeOK, PerSubjob
<1>6. CASE AcknowledgeSubjob(g, s)
  <2>1. pc[g][s] = "ack" /\ pc'[g][s] = "done"
    BY <1>6 DEF AcknowledgeSubjob, Step, Goto, TypeOK, PerSubjob
  <2>2. CASE h = g /\ t = s
    BY <1>1, <1>2, <1>3, <1>6, <2>1, <2>2 DEF AcknowledgeSubjob, TypeOK, PerSubjob
  <2>3. CASE ~(h = g /\ t = s)
    <3>1. \/ subjob'[h][t] \in {subjob[h][t], "canceled"}
          \/ /\ h = g /\ subjob'[h][t] = "queued" /\ subjob[h][t] = "deferred"
             /\ \A d \in DependsOn(t) : d = s \/ subjob[g][d] = "finished"
      BY <1>6, <2>3, <2>1, Statuses DEF StartSubjob
    <3> QED BY <1>1, <1>2, <1>3, <1>4, <2>1, <2>3, <3>1
  <2> QED BY <2>2, <2>3
<1>7. CASE ~StartSubjob(g, s) /\ ~AcknowledgeSubjob(g, s)
  <2>1. subjob'[h][t] \in {subjob[h][t], "canceled"}
    BY <1>7, Statuses
  <2>2. h = g /\ t = s => pc[h][t] \notin {"idle", "done"} /\ pc'[h][t] # "idle"
    BY <1>7, Onward
  <2> QED BY <1>1, <1>2, <1>3, <1>4, <2>1, <2>2
<1> QED
  BY <1>5, <1>6, <1>7

LEMMA CallbackShapeProcess ==
    ASSUME TypeOK, ContextInv, InputsInv, MaxStoreFaults = 0, NEW g \in Generations,
           NEW s \in Stages, ProcessStep(g, s)
    PROVE  CallbackShape' /\ generation' >= generation
<1>1. generation \in Nat /\ g \in Nat
  BY PipelineAssumption DEF TypeOK, Source, Generations, PipelineAssumption
<1>2. FenceGeneration(g, s) => generation' = generation + 1 /\ g <= generation
  BY DEF FenceGeneration, Step, BumpGeneration, ContextInv, RunningIsLaunched, CounterAhead, Launched
<1>3. generation' >= generation
  BY <1>1, <1>2, Moves
<1>4. pc'[g][s] \in {"ff_wav", "ff_delete", "ff_clear"} => g < generation'
  BY <1>1, <1>2, <1>3, Moves
<1>5. ASSUME NEW h \in Generations, NEW t \in Stages
      PROVE  /\ pc'[h][t] \in SuccessPcs \cup MissingPcs \cup CompletionPcs => t = FinalStage
             /\ pc'[h][t] \in FailurePcs => local'[h][t].failing
             /\ pc'[h][t] \in {"ff_wav", "ff_delete", "ff_clear"} => h < generation'
  <2>1. CASE <<h, t>> = <<g, s>>
    BY <1>4, <2>1, Moves
  <2>2. CASE <<h, t>> # <<g, s>>
    <3>1. h \in Nat
      BY PipelineAssumption DEF Generations, PipelineAssumption
    <3>2. pc'[h][t] = pc[h][t] /\ local'[h][t] = local[h][t]
      BY <2>2, OneProcess
    <3>3. generation' \in Nat
      BY <1>1, <1>2, Moves
    <3> QED BY <1>1, <1>3, <3>1, <3>2, <3>3 DEF InputsInv, CallbackShape
  <2> QED BY <2>1, <2>2
<1>6. CallbackShape'
  BY <1>5 DEF CallbackShape
<1> QED
  BY <1>3, <1>6

\* What a step of the current attempt writes to the context under the keys its
\* stages read: nothing, or its own output.
LEMMA ContextWrites ==
    ASSUME TypeOK, ContextInv, StaleAtCheck, InputsInv, ~PromptRetry, MaxStoreFaults = 0,
           NEW g \in Generations, NEW s \in Stages, ProcessStep(g, s),
           enqueuer.generation = generation', enqueuer.generation \in Generations,
           Unfinished(enqueuer.generation)
    PROVE  /\ \A k \in Keys \ {"input_path", "source_url"} :
                  context'[k] \in {context[k], enqueuer.generation}
           /\ PersistOutputs(g, s) /\ g = enqueuer.generation /\ Produces(g, s) =>
                  context'[OutputKey(s)] = g
<1> DEFINE n == enqueuer.generation
<1>1. generation \in Nat /\ g \in Nat /\ n \in Nat \ {0}
  BY PipelineAssumption DEF TypeOK, Source, Generations, PipelineAssumption
<1>2. ~FenceGeneration(g, s) /\ generation = n
  BY <1>1, Moves DEF FenceGeneration, BumpGeneration, ContextInv, CounterAhead
<1>3. CASE PersistOutputs(g, s)
  <2>1. OwnsContext(g) <=> g = n
    BY <1>1, <1>2 DEF OwnsContext
  <2>2. context' = IF g = n /\ Produces(g, s) THEN [context EXCEPT ![OutputKey(s)] = g] ELSE context
    BY <1>3, <2>1 DEF PersistOutputs
  <2>3. OutputKey(s) \in Keys
    BY OutputKeysSafe
  <2> QED BY <2>2, <2>3 DEF TypeOK, Contexts
<1>4. CASE SeedFromJob(g, s)
  BY <1>4 DEF SeedFromJob, TypeOK, Contexts, PersistOutputs
<1>5. ~CleanupContext(g, s)
  <2> SUFFICES ASSUME CleanupContext(g, s) PROVE FALSE
    OBVIOUS
  <2>1. pc[g][s] \in {"missing_context", "completion_context", "ff_delete"}
    BY DEF CleanupContext, Step
  <2>2. g <= n
    BY <2>1 DEF ContextInv, RunningIsLaunched, Launched, InputsInv, LaunchedInOrder
  <2>3. ~(g < n)
    BY <2>1 DEF StaleAtCheck, CallbackPcs, MissingPcs, CompletionPcs, FailurePcs
  <2>4. g = n /\ s = FinalStage
    BY <1>1, <1>2, <2>1, <2>2, <2>3
    DEF InputsInv, CallbackShape, MissingPcs, CompletionPcs
  <2> QED BY <2>1, <2>4 DEF Unfinished, StagePcs
<1>6. CASE ~PersistOutputs(g, s) /\ ~SeedFromJob(g, s)
  <2>1. context' = context
    BY <1>2, <1>5, <1>6
    DEF ProcessStep, StartSubjob, RunStage, LoadJob, MarkProcessing, LoadContext, Mirror,
        MirrorDegraded, Report, ReportDegraded, StageReturns, StageRaises, Callback,
        CheckSuccessStale, ReadJobOnSuccess, ReadContextOnSuccess, MarkFailedRow,
        MarkFailedProgress, SaveResult, CompleteRow, CompleteProgress, CheckFailureStale,
        ReadJobOnFailure, ReadContextOnFailure, LoadSubjobIds, CancelSubjob, CancelDone, CleanupWav,
        ClearSubjobSet, CallbackRaises, AcknowledgeSubjob, KillHorse, Crash, Abandon, redisVars
  <2> QED BY <1>6, <2>1
<1> QED
  BY <1>3, <1>4, <1>6

\* A stage that has loaded its inputs leaves the output it vouches for.
LEMMA PersistProvides ==
    ASSUME TypeOK, ContextInv, StaleAtCheck, InputsInv, ~PromptRetry, MaxStoreFaults = 0,
           NEW s \in Stages, s # FinalStage,
           enqueuer.generation = generation', enqueuer.generation \in Generations,
           Unfinished(enqueuer.generation), PersistOutputs(enqueuer.generation, s)
    PROVE  \A k \in Provided(s) : context'[k] = enqueuer.generation
<1> DEFINE n == enqueuer.generation
<1>1. n \in Nat \ {0}
  BY PipelineAssumption DEF Generations, PipelineAssumption
<1>2. ProcessStep(n, s)
  BY DEF ProcessStep, RunStage
<1>3. pc[n][s] = "persist" /\ generation = n
  BY DEF PersistOutputs
<1>4. /\ \A k \in OwnKeys(s) : local[n][s].context[k] = n
      /\ \A k \in OwnKeys(s) : context[k] = n
  BY <1>3 DEF InputsInv, LoadedOwn, Provision, StagePcs
<1>5. \A k \in OwnKeys(s) : context'[k] = n
  BY <1>2, <1>4, ContextWrites, Dag
<1>6. CASE s = "assign_speakers" /\ ~HasDiarize
  BY <1>5, <1>6 DEF Provided, OwnKeys, InputKeys
<1>7. CASE s # "assign_speakers" \/ HasDiarize
  <2>1. Produces(n, s)
    BY <1>1, <1>4, <1>7 DEF Produces, OwnKeys, InputKeys, FinalStage, Stages
  <2>2. context'[OutputKey(s)] = n
    BY <1>2, <2>1, ContextWrites
  <2>3. Provided(s) \subseteq {OutputKey(s)}
    BY <1>7 DEF Provided, OutputKey
  <2> QED BY <2>2, <2>3
<1> QED
  BY <1>6, <1>7

LEMMA ProvisionProcess ==
    ASSUME TypeOK, ContextInv, StaleAtCheck, InputsInv, ~PromptRetry, MaxStoreFaults = 0,
           NEW g \in Generations, NEW s \in Stages, ProcessStep(g, s)
    PROVE  Provision'
<1> DEFINE n == enqueuer.generation
<1> SUFFICES ASSUME n = generation', n \in Generations, Unfinished(n)'
             PROVE  /\ enqueuer.pc \in {"enqueue", "record"} \/ Launched(n)' => context'["language"] = n
                    /\ \A t \in Stages :
                          /\ subjob'[n][t] = "finished" \/ (pc'[n][t] = "ack" /\ ~local'[n][t].failing) =>
                                 \A k \in Provided(t) : context'[k] = n
                          /\ (subjob'[n][t] = "queued" /\ pc'[n][t] = "idle") \/ pc'[n][t] \in StagePcs =>
                                 \A k \in OwnKeys(t) : context'[k] = n
  BY OneProcess DEF Provision
<1>1. generation = n /\ n \in Nat \ {0}
  <2>1. generation \in Nat /\ n \in Nat \ {0} /\ n <= generation
    BY PipelineAssumption
    DEF TypeOK, Source, Generations, PipelineAssumption, ContextInv, CounterAhead
  <2>2. ~FenceGeneration(g, s)
    BY <2>1 DEF FenceGeneration, BumpGeneration
  <2> QED BY <2>1, <2>2, Moves
<1>2. Unfinished(n)
  BY OneProcess, Moves, Dag DEF Unfinished
<1>3. /\ enqueuer.pc \in {"enqueue", "record"} \/ Launched(n) => context["language"] = n
      /\ \A t \in Stages :
            /\ subjob[n][t] = "finished" \/ (pc[n][t] = "ack" /\ ~local[n][t].failing) =>
                   \A k \in Provided(t) : context[k] = n
            /\ (subjob[n][t] = "queued" /\ pc[n][t] = "idle") \/ pc[n][t] \in StagePcs =>
                   \A k \in OwnKeys(t) : context[k] = n
  BY <1>1, <1>2 DEF InputsInv, Provision
<1>4. \A k \in Keys \ {"input_path", "source_url"} : context[k] = n => context'[k] = n
  BY <1>2, ContextWrites
<1>5. enqueuer.pc \in {"enqueue", "record"} \/ Launched(n)' => context'["language"] = n
  <2>1. Launched(n)' => Launched(n)
    BY OneProcess, Statuses DEF InputsInv
  <2> QED BY <1>3, <1>4, <2>1 DEF Keys
<1>6. \A t \in Stages : (\A k \in Provided(t) : context[k] = n) => \A k \in Provided(t) : context'[k] = n
  BY <1>4, Dag
<1>7. \A t \in Stages : (\A k \in OwnKeys(t) : context[k] = n) => \A k \in OwnKeys(t) : context'[k] = n
  BY <1>4, Dag
<1>8. ASSUME NEW t \in Stages,
             subjob'[n][t] = "finished" \/ (pc'[n][t] = "ack" /\ ~local'[n][t].failing)
      PROVE  \A k \in Provided(t) : context'[k] = n
  <2>1. CASE subjob[n][t] = "finished" \/ (pc[n][t] = "ack" /\ ~local[n][t].failing)
    BY <1>3, <1>6, <2>1
  <2>2. CASE n = g /\ t = s /\ AcknowledgeSubjob(g, s) /\ subjob'[n][t] = "finished"
    <3>1. pc[g][s] = "ack" /\ ~local[g][s].failing
      BY <2>2 DEF AcknowledgeSubjob, Step, TypeOK, PerSubjob
    <3> QED BY <1>3, <1>6, <2>2, <3>1
  <2>3. CASE pc'[n][t] = "ack" /\ ~local'[n][t].failing
    <3>1. CASE <<n, t>> = <<g, s>>
      <4>1. t # FinalStage
        BY <2>3, OneProcess DEF Unfinished, StagePcs
      <4>2. PersistOutputs(g, s)
        BY <2>3, <3>1, <4>1, Moves
      <4> QED BY <1>2, <3>1, <4>1, <4>2, PersistProvides
    <3>2. CASE <<n, t>> # <<g, s>>
      BY <2>1, <2>3, <3>2, OneProcess
    <3> QED BY <3>1, <3>2
  <2>4. CASE subjob'[n][t] = "finished" /\ subjob[n][t] # "finished"
    BY <2>2, <2>4, Statuses DEF InputsInv, StartSubjob, TypeOK, PerSubjob
  <2> QED BY <1>8, <2>1, <2>3, <2>4
<1>9. ASSUME NEW t \in Stages, subjob'[n][t] = "queued" /\ pc'[n][t] = "idle"
      PROVE  \A k \in OwnKeys(t) : context'[k] = n
  <2>1. CASE subjob[n][t] = "queued"
    BY <1>3, <1>7, <1>9, <2>1, OneProcess, Moves
  <2>2. CASE subjob[n][t] # "queued"
    <3>1. /\ AcknowledgeSubjob(g, s) /\ n = g /\ ~local[g][s].failing
          /\ \A d \in DependsOn(t) : d = s \/ subjob[g][d] = "finished"
      <4>1. StartSubjob(g, s) => subjob'[g][s] # "queued"
        BY DEF StartSubjob, TypeOK, PerSubjob
      <4>2. AcknowledgeSubjob(g, s) => subjob'[g][s] # "queued"
        BY Dag DEF AcknowledgeSubjob, TypeOK, PerSubjob
      <4> QED BY <1>9, <2>2, <4>1, <4>2, Statuses DEF InputsInv
    <3>2. pc[g][s] = "ack" /\ Launched(n)
      BY <3>1 DEF AcknowledgeSubjob, Step, Launched, ContextInv, RunningIsLaunched
    <3>3. \A d \in DependsOn(t) : \A k \in Provided(d) : context'[k] = n
      BY <1>3, <1>6, <3>1, <3>2, Dag
    <3>4. context'["language"] = n
      BY <1>3, <1>4, <3>2 DEF Keys
    <3> QED BY <3>3, <3>4, Dag
  <2> QED BY <2>1, <2>2
<1>10. ASSUME NEW t \in Stages, pc'[n][t] \in StagePcs
       PROVE  \A k \in OwnKeys(t) : context'[k] = n
  <2>1. pc[n][t] \in StagePcs \/ (subjob[n][t] = "queued" /\ pc[n][t] = "idle")
    <3>1. CASE <<n, t>> = <<g, s>>
      BY <1>10, <3>1, Moves DEF StartSubjob
    <3>2. CASE <<n, t>> # <<g, s>>
      BY <1>10, <3>2, OneProcess
    <3> QED BY <3>1, <3>2
  <2> QED BY <1>3, <1>7, <2>1
<1> QED
  BY <1>5, <1>8, <1>9, <1>10

LEMMA LoadedProcess ==
    ASSUME TypeOK, ContextInv, StaleAtCheck, InputsInv, ~PromptRetry, MaxStoreFaults = 0,
           NEW g \in Generations, NEW s \in Stages, ProcessStep(g, s)
    PROVE  LoadedOwn'
<1> DEFINE Computing == {"seed", "run", "mirror", "degraded", "persist"}
<1> SUFFICES ASSUME NEW h \in Generations, NEW t \in Stages, h = generation', pc'[h][t] \in Computing
             PROVE  \A k \in OwnKeys(t) : local'[h][t].context[k] = h
  BY DEF LoadedOwn
<1>1. generation \in Nat /\ enqueuer.generation \in Nat
  BY PipelineAssumption DEF TypeOK, Source, EnqueuerType, PipelineAssumption
<1>2. pc[h][t] # "idle"
  <2>1. pc[g][s] = "idle" => pc'[g][s] = "load_job"
    BY Moves DEF StartSubjob, Goto, TypeOK, PerSubjob
  <2> QED BY <2>1, OneProcess
<1>3. h <= enqueuer.generation /\ enqueuer.generation <= generation
  BY <1>2 DEF ContextInv, CounterAhead, RunningIsLaunched, Launched, InputsInv, LaunchedInOrder
<1>4. h = generation /\ h = enqueuer.generation
  BY <1>1, <1>3, Moves DEF FenceGeneration, BumpGeneration
<1>5. CASE <<h, t>> # <<g, s>>
  BY <1>4, <1>5, OneProcess DEF InputsInv, LoadedOwn
<1>6. CASE h = g /\ t = s /\ LoadContext(g, s)
  <2>1. pc[g][s] = "load_context" /\ local'[g][s].context = Loaded(InputKeys(s))
    BY <1>6 DEF LoadContext, Assign, TypeOK, PerSubjob, Locals
  <2>2. Unfinished(g)
    BY <2>1, LastComesLast DEF InputsInv, Unfinished, StagePcs
  <2>3. \A k \in OwnKeys(s) : context[k] = g
    BY <1>4, <1>6, <2>1, <2>2 DEF InputsInv, Provision, StagePcs
  <2>4. OwnKeys(s) \subseteq InputKeys(s) /\ OwnKeys(s) \subseteq Keys
    BY Dag DEF OwnKeys
  <2> QED BY <1>6, <2>1, <2>3, <2>4 DEF Loaded
<1>7. CASE h = g /\ t = s /\ SeedFromJob(g, s)
  <2>1. pc[g][s] = "seed"
    BY <1>7 DEF SeedFromJob
  <2>2. \A k \in OwnKeys(s) : local[g][s].context[k] = g
    BY <1>4, <1>7, <2>1 DEF InputsInv, LoadedOwn
  <2>3. \A k \in Keys \ {"input_path", "source_url"} : local'[g][s].context[k] = local[g][s].context[k]
    <3>1. local[g][s].context \in Contexts
      BY LocalType
    <3>2. local[g][s] \in Locals
      BY PerSubjobElement DEF TypeOK
    <3> QED BY <1>7, <3>1, <3>2 DEF SeedFromJob, Assign, TypeOK, PerSubjob, Locals, Contexts
  <2> QED BY <1>7, <2>2, <2>3, Dag
<1>8. CASE h = g /\ t = s /\ ~LoadContext(g, s) /\ ~SeedFromJob(g, s)
  <2>1. pc[g][s] \in Computing /\ local' = local
    <3>1. \A label : Goto(g, s, label) => pc'[g][s] = label
      BY DEF TypeOK, PerSubjob, Goto
    <3>2. pc[g][s] \in StagePcs
      BY <1>2, <1>8, Moves DEF StagePcs
    <3>3. \/ Mirror(g, s) \/ MirrorDegraded(g, s) \/ Report(g, s) \/ ReportDegraded(g, s)
          \/ StageReturns(g, s)
      <4>1. ~(LoadJob(g, s) \/ MarkProcessing(g, s) \/ PersistOutputs(g, s) \/ StartSubjob(g, s) \/ StageRaises(g, s))
        BY <1>8, <3>1 DEF LoadJob, MarkProcessing, PersistOutputs, StartSubjob, StageRaises
      <4>2. ~(AcknowledgeSubjob(g, s) \/ KillHorse(g, s) \/ Crash(g, s) \/ Abandon(g, s))
        BY <1>8, <3>1 DEF AcknowledgeSubjob, KillHorse, Crash, Abandon, Step
      <4>3. ~Callback(g, s)
        BY <3>2
        DEF Callback, Step, CheckSuccessStale, ReadJobOnSuccess, ReadContextOnSuccess, MarkFailedRow,
            MarkFailedProgress, SaveResult, CompleteRow, CompleteProgress, CheckFailureStale,
            ReadJobOnFailure, ReadContextOnFailure, LoadSubjobIds, CancelSubjob, CancelDone,
            FenceGeneration, CleanupWav, CleanupContext, ClearSubjobSet, StagePcs
      <4>4. ~CallbackRaises(g, s)
        BY DEF CallbackRaises, TypeOK, BudgetType
      <4> QED BY <1>8, <4>1, <4>2, <4>3, <4>4 DEF ProcessStep, RunStage
    <3> QED
      BY <3>3 DEF Mirror, MirrorDegraded, Report, ReportDegraded, StageReturns, redisVars
  <2> QED BY <1>4, <1>8, <2>1 DEF InputsInv, LoadedOwn
<1> QED
  BY <1>5, <1>6, <1>7, <1>8

\* A step that touches neither the processes nor what they read.
LEMMA InputsKept ==
    ASSUME TypeOK, InputsInv, UNCHANGED <<context, subjob, pc, local>>,
           enqueuer'.generation = enqueuer.generation,
           generation' \in Nat, generation' >= generation,
           enqueuer.generation <= generation,
           \A g \in Generations, s \in Stages : pc[g][s] # "idle" => g <= generation,
           enqueuer'.pc \in {"enqueue", "record"} => enqueuer.pc \in {"enqueue", "record"},
           enqueuer'.pc \in {"del_progress", "seed_progress", "del_context", "seed_context"} =>
               enqueuer.pc \in {"del_progress", "seed_progress", "del_context", "seed_context"}
    PROVE  InputsInv'
<1>1. generation \in Nat /\ enqueuer.generation \in Nat /\ \A g \in Generations : g \in Nat
  BY PipelineAssumption DEF TypeOK, Source, EnqueuerType, Generations, PipelineAssumption
<1>2. LaunchedInOrder'
  BY DEF InputsInv, LaunchedInOrder, Launched
<1>3. InOrder'
  BY DEF InputsInv, InOrder
<1>4. CallbackShape'
  BY <1>1 DEF InputsInv, CallbackShape
<1>5. Provision'
  BY <1>1 DEF InputsInv, Provision, Unfinished, Launched
<1>6. LoadedOwn'
  BY <1>1 DEF InputsInv, LoadedOwn
<1> QED
  BY <1>2, <1>3, <1>4, <1>5, <1>6 DEF InputsInv

LEMMA InputsEnqueuer ==
    ASSUME TypeOK, ContextInv, InputsInv, ClaimRetry \/ Enqueuer \/ EnqueueRaises \/ EnqueuerDies
    PROVE  InputsInv'
<1> DEFINE n == enqueuer.generation
<1>1. /\ generation \in Nat /\ n \in Nat /\ n <= generation
      /\ \A g \in Generations, s \in Stages : pc[g][s] # "idle" => g <= generation
      /\ \A g \in Generations : g \in Nat
  BY PipelineAssumption
  DEF TypeOK, Source, EnqueuerType, Generations, PipelineAssumption, ContextInv, CounterAhead,
      RunningIsLaunched, Launched
<1>2. generation >= generation
  BY <1>1
<1>3. CASE ClaimRetry \/ RecordSubjob \/ MarkEnqueueFailed \/ EnqueueRaises \/ EnqueuerDies
  BY <1>1, <1>2, <1>3, InputsKept
  DEF TypeOK, EnqueuerType, ClaimRetry, RecordSubjob, MarkEnqueueFailed, EnqueueRaises,
      EnqueuerDies, EnqueuerAt, EnqueuerGoto, redisVars
<1>4. CASE DeleteProgress \/ SeedProgress
  BY <1>1, <1>2, <1>4, InputsKept
  DEF TypeOK, EnqueuerType, DeleteProgress, SeedProgress, EnqueuerAt, EnqueuerGoto, fileVars
<1>5. ASSUME \A s \in Stages : subjob[n][s] = "none" /\ pc[n][s] = "idle",
             UNCHANGED <<generation, subjob, pc, local>>,
             enqueuer' = [enqueuer EXCEPT !.pc = enqueuer'.pc],
             n \in Generations,
             \/ context' = NoContext /\ enqueuer.pc = "del_context" /\ enqueuer'.pc = "seed_context"
             \/ context'["language"] = n /\ enqueuer'.pc = "enqueue"
      PROVE  InputsInv'
  <2>1. enqueuer'.generation = n
    BY <1>5 DEF TypeOK, EnqueuerType
  <2>2. LaunchedInOrder' /\ InOrder' /\ CallbackShape'
    BY <1>5, <2>1 DEF InputsInv, LaunchedInOrder, InOrder, CallbackShape, Launched
  <2>3. Provision'
    BY <1>5, <2>1 DEF Provision, Launched, StagePcs
  <2>4. LoadedOwn'
    BY <1>5 DEF InputsInv, LoadedOwn
  <2> QED BY <2>2, <2>3, <2>4 DEF InputsInv
<1>6. CASE DeleteContext \/ SeedContext
  <2>1. enqueuer.pc \in {"del_context", "seed_context"}
    BY <1>6 DEF DeleteContext, SeedContext, EnqueuerAt
  <2>2. CASE n \in Generations
    <3>1. ~Launched(n)
      BY <1>1, <2>1, <2>2 DEF InputsInv, LaunchedInOrder
    <3>2. \A s \in Stages : subjob[n][s] = "none" /\ pc[n][s] = "idle"
      BY <2>2, <3>1 DEF Launched, ContextInv, RunningIsLaunched
    <3>3. /\ UNCHANGED <<generation, subjob, pc, local>>
          /\ enqueuer' = [enqueuer EXCEPT !.pc = enqueuer'.pc]
          /\ \/ context' = NoContext /\ enqueuer.pc = "del_context" /\ enqueuer'.pc = "seed_context"
             \/ context'["language"] = n /\ enqueuer'.pc = "enqueue"
      BY <1>6
      DEF TypeOK, EnqueuerType, DeleteContext, SeedContext, EnqueuerAt, EnqueuerGoto, SeedKeys, Keys
    <3> QED BY <1>5, <2>2, <3>2, <3>3
  <2>3. CASE n \notin Generations
    <3>1. /\ enqueuer'.generation = n /\ UNCHANGED <<generation, subjob, pc, local>>
          /\ enqueuer'.pc \in {"seed_context", "enqueue"}
      BY <1>6 DEF TypeOK, EnqueuerType, DeleteContext, SeedContext, EnqueuerGoto
    <3>2. LaunchedInOrder' /\ InOrder' /\ CallbackShape' /\ LoadedOwn'
      BY <2>1, <3>1 DEF InputsInv, LaunchedInOrder, InOrder, CallbackShape, LoadedOwn, Launched
    <3>3. Provision'
      BY <2>3, <3>1 DEF Provision
    <3> QED BY <3>2, <3>3 DEF InputsInv
  <2> QED BY <2>2, <2>3
<1>7. CASE EnqueueBump
  <2>1. /\ generation' = generation + 1 /\ enqueuer'.generation = generation'
        /\ enqueuer'.pc = "del_progress" /\ UNCHANGED <<context, subjob, pc, local>>
    BY <1>7 DEF TypeOK, EnqueuerType, EnqueueBump, BumpGeneration
  <2>2. \A g \in Generations : Launched(g)' => g < generation'
    BY <1>1, <2>1 DEF ContextInv, CounterAhead, Launched
  <2>3. LaunchedInOrder'
    BY <1>1, <2>1, <2>2 DEF LaunchedInOrder
  <2>4. InOrder' /\ CallbackShape'
    BY <1>1, <2>1 DEF InputsInv, InOrder, CallbackShape
  <2>5. \A g \in Generations, s \in Stages : g = generation' => subjob'[g][s] = "none" /\ pc'[g][s] = "idle"
    BY <1>1, <2>1, <2>2 DEF Launched, ContextInv, RunningIsLaunched
  <2>6. Provision' /\ LoadedOwn'
    BY <1>1, <2>1, <2>2, <2>5 DEF Provision, LoadedOwn, StagePcs
  <2> QED BY <2>3, <2>4, <2>6 DEF InputsInv
<1>8. ASSUME NEW s \in Stages, EnqueueStage(s) PROVE InputsInv'
  <2>1. /\ n \in Generations /\ enqueuer.pc = "enqueue" /\ enqueuer'.pc = "record"
        /\ enqueuer'.generation = n /\ UNCHANGED <<generation, context, pc, local>>
        /\ subjob[n][s] = "none"
        /\ subjob' = [subjob EXCEPT ![n][s] = IF DependenciesMet(n, s) THEN "queued" ELSE "deferred"]
    BY <1>8 DEF TypeOK, EnqueuerType, EnqueueStage, EnqueuerAt, redisVars
  <2>2. pc[n][s] = "idle"
    BY <2>1 DEF ContextInv, RunningIsLaunched
  <2>3. \A h \in Generations, t \in Stages : ~(h = n /\ t = s) => subjob'[h][t] = subjob[h][t]
    BY <2>1 DEF TypeOK, PerSubjob
  <2>4. subjob'[n][s] \in {"queued", "deferred"} /\ (subjob'[n][s] = "queued" => DependenciesMet(n, s))
    BY <2>1 DEF TypeOK, PerSubjob
  <2>5. LaunchedInOrder'
    BY <1>1, <2>1, <2>3 DEF InputsInv, LaunchedInOrder, Launched
  <2>6. \A d \in DependsOn(s) : DependenciesMet(n, s) => subjob[n][d] = "finished" /\ pc[n][d] = "done"
    BY <2>1, Dag DEF DependenciesMet, InputsInv, InOrder
  <2>7. InOrder'
    BY <2>1, <2>2, <2>3, <2>4, <2>6 DEF InputsInv, InOrder
  <2>8. CallbackShape' /\ LoadedOwn'
    BY <2>1 DEF InputsInv, CallbackShape, LoadedOwn
  <2>9. Provision'
    <3> SUFFICES ASSUME n = generation, Unfinished(n) PROVE Provision'
      BY <2>1 DEF Provision, Unfinished
    <3>1. /\ context["language"] = n
          /\ \A t \in Stages :
                /\ subjob[n][t] = "finished" \/ (pc[n][t] = "ack" /\ ~local[n][t].failing) =>
                       \A k \in Provided(t) : context[k] = n
                /\ (subjob[n][t] = "queued" /\ pc[n][t] = "idle") \/ pc[n][t] \in StagePcs =>
                       \A k \in OwnKeys(t) : context[k] = n
      BY <2>1 DEF InputsInv, Provision
    <3>2. DependenciesMet(n, s) => \A k \in OwnKeys(s) : context[k] = n
      BY <2>6, <3>1, Dag
    <3> QED BY <2>1, <2>2, <2>3, <2>4, <3>1, <3>2 DEF Provision, StagePcs
  <2> QED BY <2>5, <2>7, <2>8, <2>9 DEF InputsInv
<1> QED
  BY <1>3, <1>4, <1>6, <1>7, <1>8 DEF Enqueuer

LEMMA InputsNext ==
    ASSUME ~PromptRetry, MaxStoreFaults = 0
    PROVE  TypeOK /\ ContextInv /\ StaleAtCheck /\ InputsInv /\ [Next]_vars => InputsInv'
<1> SUFFICES ASSUME TypeOK, ContextInv, StaleAtCheck, InputsInv, [Next]_vars PROVE InputsInv'
  OBVIOUS
<1>1. /\ generation \in Nat /\ enqueuer.generation <= generation
      /\ \A g \in Generations, s \in Stages : pc[g][s] # "idle" => g <= generation
  BY PipelineAssumption
  DEF TypeOK, Source, PipelineAssumption, ContextInv, CounterAhead, RunningIsLaunched, Launched
<1>2. ASSUME UNCHANGED <<context, subjob, pc, local, enqueuer>>,
             generation' \in {generation, generation + 1}
      PROVE  InputsInv'
  BY <1>1, <1>2, InputsKept
<1>3. CASE Age \/ UNCHANGED vars
  BY <1>2, <1>3 DEF Age, redisVars, vars
<1>4. ASSUME NEW r \in Reapers, Reap(r) PROVE InputsInv'
  BY <1>2, <1>4
  DEF Reap, ListStale, ReadGeneration, ReadSubjobIds, ScanSubjob, ReaperBump, RecoverStale,
      BumpGeneration, redisVars
<1>5. ASSUME NEW g \in Generations, NEW s \in Stages, ProcessStep(g, s) PROVE InputsInv'
  <2>1. LaunchedInOrder'
    BY <1>5, Statuses, OneProcess DEF InputsInv, LaunchedInOrder
  <2> QED
    BY <1>5, <2>1, InOrderProcess, CallbackShapeProcess, ProvisionProcess, LoadedProcess DEF InputsInv
<1> QED
  BY <1>3, <1>4, <1>5, InputsEnqueuer DEF Next, ProcessStep

\* In a job with an uploaded file every stage of the current attempt computes on
\* inputs of that attempt, whichever stages fail, hang on as zombies or are
\* enqueued only in part, if no store fails and no retry overlaps a callback.
THEOREM InputsStayOwn ==
    ~PromptRetry /\ MaxStoreFaults = 0 /\ ~HasDownload => (Spec => []InputsOfOwnAttempt)
<1> SUFFICES ASSUME ~PromptRetry, MaxStoreFaults = 0, ~HasDownload PROVE Spec => []InputsOfOwnAttempt
  OBVIOUS
<1>1. InputsInv => InputsOfOwnAttempt
  BY DEF InputsInv, LoadedOwn, InputsOfOwnAttempt, OwnKeys, UploadKeys
<1>2. TypeOK /\ ContextInv /\ StaleAtCheck /\ InputsInv /\ [Next]_vars => InputsInv'
  BY InputsNext
<1> QED
  BY <1>1, <1>2, TypeInit, TypeNext, ContextInit, ContextNext, StaleInit, StaleNext, InputsInit, PTL
  DEF Spec

-----------------------------------------------------------------------------
(* What the reaper sees of a job that is enqueued once *)

\* Only time makes a row stale, and only once enqueue_pipeline has returned: a
\* reaper never looks at a set of sub-jobs that still grows.
EnqueuerRests ==
    row.stale \/ (\E r \in Reapers : reaper[r].pc # "idle") => EnqueuerAt("idle")

\* RQ's record of a sub-job that a process serves says so: no failure callback
\* cancels it, nor does one cancel its own.
RunningIsStarted ==
    \A g \in Generations, s \in Stages :
        /\ pc[g][s] \in RunningPcs => subjob[g][s] = "started"
        /\ pc[g][s] = "ff_cancel" => s \notin local[g][s].todo

\* What a reaper has looked at is over, and stays so.
Scanned ==
    \A r \in Reapers :
        LET g == reaper[r].generation IN
        /\ reaper[r].pc \in {"bump", "update"} => reaper[r].todo = {}
        /\ reaper[r].pc \in {"scan", "bump", "update"} /\ g \in Generations =>
               \A s \in tracked[g] \ reaper[r].todo : subjob[g][s] \notin LiveStatus

ReaperSees == enqueuer.attempts = 1 /\ EnqueuerRests /\ RunningIsStarted /\ Scanned

LEMMA SeesInit == Init => ReaperSees
BY DEF Init, ReaperSees, EnqueuerRests, RunningIsStarted, Scanned, EnqueuerAt, RunningPcs, StagePcs,
       CallbackPcs, SuccessPcs, MissingPcs, CompletionPcs, FailurePcs

\* Without the diarize branch the stages of an attempt run one after the other.
LEMMA OneAtATime ==
    ASSUME ~HasDiarize, InOrder, NEW g \in Generations, NEW s \in Stages, NEW t \in Stages,
           pc[g][s] \in RunningPcs, pc[g][t] \in RunningPcs
    PROVE  s = t
<1>1. "idle" \notin RunningPcs /\ "done" \notin RunningPcs
  BY DEF RunningPcs, StagePcs, CallbackPcs, SuccessPcs, MissingPcs, CompletionPcs, FailurePcs
<1>2. \A u \in Stages : pc[g][u] # "idle" => \A d \in DependsOn(u) : pc[g][d] = "done"
  BY DEF InOrder
<1>3. ~(Rank(s) < Rank(t)) /\ ~(Rank(t) < Rank(s))
  BY <1>1, <1>2, EarlierAreOver
<1>4. \A u, v \in Stages : Rank(u) < Rank(v) \/ Rank(v) < Rank(u) \/ u = v
  BY DEF Rank, Stages, AllStages
<1> QED BY <1>3, <1>4

\* Nobody but Age makes a row stale; a process shrinks a set of sub-jobs, or leaves it.
LEMMA ProcessLeaves ==
    ASSUME TypeOK, NEW g \in Generations, NEW s \in Stages, ProcessStep(g, s)
    PROVE  /\ row'.stale => row.stale
           /\ \A h \in Generations : tracked'[h] \subseteq tracked[h]
<1>1. CASE StartSubjob(g, s) \/ Report(g, s) \/ ReportDegraded(g, s) \/ StageReturns(g, s) \/ StageRaises(g, s)
  BY <1>1 DEF StartSubjob, Report, ReportDegraded, StageReturns, StageRaises, redisVars
<1>2. CASE RunStage(g, s)
  BY <1>2
  DEF RunStage, LoadJob, MarkProcessing, LoadContext, SeedFromJob, Mirror, MirrorDegraded,
      PersistOutputs, UpdateJob, redisVars, TypeOK, RowType
<1>3. CASE \/ CheckSuccessStale(g, s) \/ ReadJobOnSuccess(g, s) \/ ReadContextOnSuccess(g, s)
           \/ MarkFailedRow(g, s) \/ MarkFailedProgress(g, s)
           \/ SaveResult(g, s) \/ CompleteRow(g, s) \/ CompleteProgress(g, s)
  BY <1>3
  DEF CheckSuccessStale, ReadJobOnSuccess, ReadContextOnSuccess, MarkFailedRow, MarkFailedProgress,
      SaveResult, CompleteRow, CompleteProgress, UpdateJob, redisVars
<1>4. CASE \/ CheckFailureStale(g, s) \/ ReadJobOnFailure(g, s) \/ ReadContextOnFailure(g, s)
           \/ LoadSubjobIds(g, s) \/ CancelSubjob(g, s) \/ CancelDone(g, s)
           \/ FenceGeneration(g, s) \/ CleanupWav(g, s) \/ CleanupContext(g, s)
  BY <1>4
  DEF CheckFailureStale, ReadJobOnFailure, ReadContextOnFailure, LoadSubjobIds, CancelSubjob,
      CancelDone, FenceGeneration, CleanupWav, CleanupContext, redisVars
<1>5. CASE ClearSubjobSet(g, s)
  BY <1>5 DEF ClearSubjobSet, TypeOK
<1>6. CASE \/ CallbackRaises(g, s) \/ AcknowledgeSubjob(g, s) \/ KillHorse(g, s)
           \/ Crash(g, s) \/ Abandon(g, s)
  BY <1>6 DEF CallbackRaises, AcknowledgeSubjob, KillHorse, Crash, Abandon, redisVars
<1> QED BY <1>1, <1>2, <1>3, <1>4, <1>5, <1>6 DEF ProcessStep, Callback

LEMMA RunningProcess ==
    ASSUME ~HasDiarize, TypeOK, ContextInv, InOrder, RunningIsStarted,
           NEW g \in Generations, NEW s \in Stages, ProcessStep(g, s)
    PROVE  RunningIsStarted'
<1> SUFFICES ASSUME NEW h \in Generations, NEW t \in Stages
             PROVE  /\ pc'[h][t] \in RunningPcs => subjob'[h][t] = "started"
                    /\ pc'[h][t] = "ff_cancel" => t \notin local'[h][t].todo
  BY DEF RunningIsStarted
<1>1. "idle" \notin RunningPcs /\ "done" \notin RunningPcs /\ "ff_cancel" \in RunningPcs
  BY DEF RunningPcs, StagePcs, CallbackPcs, SuccessPcs, MissingPcs, CompletionPcs, FailurePcs
<1>2. /\ pc[h][t] \in RunningPcs => subjob[h][t] = "started"
      /\ pc[h][t] = "ff_cancel" => t \notin local[h][t].todo
      /\ subjob[h][t] = "deferred" => pc[h][t] = "idle"
  BY DEF RunningIsStarted, InOrder
<1>3. CASE <<h, t>> # <<g, s>>
  <2>1. pc'[h][t] = pc[h][t] /\ local'[h][t] = local[h][t]
    BY <1>3, OneProcess
  <2>2. ASSUME pc[h][t] \in RunningPcs PROVE subjob'[h][t] = "started"
    <3>1. subjob[h][t] = "started"
      BY <1>2, <2>2
    <3>2. CASE CancelSubjob(g, s)
      <4>1. pc[g][s] = "ff_cancel" /\ h # g
        BY <1>1, <1>3, <2>2, <3>2, OneAtATime DEF CancelSubjob
      <4> QED BY <3>1, <3>2, <4>1 DEF CancelSubjob, TypeOK, PerSubjob
    <3>3. CASE ~CancelSubjob(g, s)
      <4>1. subjob' = subjob \/ StartSubjob(g, s) \/ AcknowledgeSubjob(g, s)
        BY <3>3
        DEF ProcessStep, RunStage, LoadJob, MarkProcessing, LoadContext, SeedFromJob, Mirror,
            MirrorDegraded, PersistOutputs, Report, ReportDegraded, StageReturns, StageRaises, Callback,
            CheckSuccessStale, ReadJobOnSuccess, ReadContextOnSuccess, MarkFailedRow, MarkFailedProgress,
            SaveResult, CompleteRow, CompleteProgress, CheckFailureStale, ReadJobOnFailure,
            ReadContextOnFailure, LoadSubjobIds, CancelDone, FenceGeneration, CleanupWav, CleanupContext,
            ClearSubjobSet, CallbackRaises, KillHorse, Crash, Abandon
      <4>2. CASE StartSubjob(g, s)
        BY <1>3, <3>1, <4>2 DEF StartSubjob, TypeOK, PerSubjob
      <4>3. CASE AcknowledgeSubjob(g, s)
        BY <1>3, <3>1, <4>3 DEF AcknowledgeSubjob, TypeOK, PerSubjob
      <4> QED BY <3>1, <4>1, <4>2, <4>3
    <3> QED BY <3>2, <3>3
  <2> QED BY <1>1, <1>2, <2>1, <2>2
<1>4. CASE h = g /\ t = s
  <2>1. ASSUME pc'[g][s] \in RunningPcs PROVE subjob'[g][s] = "started"
    <3>1. pc[g][s] \in RunningPcs \/ StartSubjob(g, s) \/ Abandon(g, s)
      BY <2>1, Onward
    <3>2. CASE StartSubjob(g, s)
      BY <3>2 DEF StartSubjob, TypeOK, PerSubjob
    <3>3. CASE Abandon(g, s)
      BY <3>3 DEF Abandon
    <3>4. CASE pc[g][s] \in RunningPcs /\ ~StartSubjob(g, s)
      <4>1. subjob[g][s] = "started"
        BY <1>2, <1>4, <3>4
      <4>2. CASE CancelSubjob(g, s)
        <5>1. pc[g][s] = "ff_cancel" /\ s \notin local[g][s].todo
          BY <1>2, <1>4, <4>2 DEF CancelSubjob
        <5> QED BY <4>1, <4>2, <5>1 DEF CancelSubjob, TypeOK, PerSubjob
      <4>3. CASE ~CancelSubjob(g, s)
        <5>1. ~AcknowledgeSubjob(g, s)
          BY <1>1, <2>1 DEF AcknowledgeSubjob, Step, Goto, TypeOK, PerSubjob
        <5>2. subjob' = subjob
          BY <3>4, <4>3, <5>1
          DEF ProcessStep, RunStage, LoadJob, MarkProcessing, LoadContext, SeedFromJob, Mirror,
              MirrorDegraded, PersistOutputs, Report, ReportDegraded, StageReturns, StageRaises, Callback,
              CheckSuccessStale, ReadJobOnSuccess, ReadContextOnSuccess, MarkFailedRow, MarkFailedProgress,
              SaveResult, CompleteRow, CompleteProgress, CheckFailureStale, ReadJobOnFailure,
              ReadContextOnFailure, LoadSubjobIds, CancelDone, FenceGeneration, CleanupWav, CleanupContext,
              ClearSubjobSet, CallbackRaises, KillHorse, Crash, Abandon
        <5> QED BY <4>1, <5>2
      <4> QED BY <4>2, <4>3
    <3> QED BY <3>1, <3>2, <3>3, <3>4
  <2>2. ASSUME pc'[g][s] = "ff_cancel" PROVE s \notin local'[g][s].todo
    <3>1. CASE LoadSubjobIds(g, s)
      <4>1. Assign(g, s, [local[g][s] EXCEPT !.todo = tracked[g] \ {s}])
        BY <3>1 DEF LoadSubjobIds
      <4>2. local[g][s] \in Locals
        BY PerSubjobElement DEF TypeOK
      <4>3. local'[g][s] = [local[g][s] EXCEPT !.todo = tracked[g] \ {s}]
        BY <4>1 DEF Assign, TypeOK, PerSubjob
      <4> QED BY <4>2, <4>3 DEF Locals
    <3>2. CASE pc[g][s] = "ff_cancel" /\ local'[g][s].todo \subseteq local[g][s].todo
      BY <1>2, <1>4, <3>2
    <3> QED BY <2>2, <3>1, <3>2, Onward
  <2> QED BY <1>4, <2>1, <2>2
<1> QED BY <1>3, <1>4

\* A sub-job that is over is not live again.
LEMMA ScannedProcess ==
    ASSUME TypeOK, ContextInv, InOrder, Scanned, NEW g \in Generations, NEW s \in Stages, ProcessStep(g, s)
    PROVE  Scanned'
<1>1. UNCHANGED reaper /\ \A h \in Generations : tracked'[h] \subseteq tracked[h]
  BY OneProcess, ProcessLeaves
<1>2. ASSUME NEW h \in Generations, NEW t \in Stages, subjob[h][t] \notin LiveStatus
      PROVE  subjob'[h][t] \notin LiveStatus
  <2>1. CASE StartSubjob(g, s) /\ h = g /\ t = s
    BY <1>2, <2>1 DEF StartSubjob, LiveStatus
  <2>2. CASE AcknowledgeSubjob(g, s) /\ h = g /\ t = s
    <3>1. subjob'[g][s] \in {"failed", "finished"}
      BY <2>2, Dag DEF AcknowledgeSubjob, TypeOK, PerSubjob
    <3> QED BY <2>2, <3>1 DEF LiveStatus
  <2>3. CASE subjob'[h][t] \in {subjob[h][t], "canceled"}
    BY <1>2, <2>3 DEF LiveStatus
  <2>4. subjob[h][t] # "deferred"
    BY <1>2 DEF LiveStatus
  <2> QED BY <2>1, <2>2, <2>3, <2>4, Statuses
<1>3. \A h \in Generations : tracked[h] \subseteq Stages
  BY DEF TypeOK
<1> QED BY <1>1, <1>2, <1>3 DEF Scanned

LEMMA SeesProcess ==
    ASSUME ~HasDiarize, TypeOK, ContextInv, InOrder, ReaperSees,
           NEW g \in Generations, NEW s \in Stages, ProcessStep(g, s)
    PROVE  ReaperSees'
<1>1. UNCHANGED <<enqueuer, reaper>> /\ (row'.stale => row.stale)
  BY OneProcess, ProcessLeaves
<1>2. EnqueuerRests'
  BY <1>1 DEF ReaperSees, EnqueuerRests, EnqueuerAt
<1> QED BY <1>1, <1>2, RunningProcess, ScannedProcess DEF ReaperSees

\* While enqueue_pipeline is at work, no reaper is.
LEMMA SeesEnqueuer ==
    ASSUME MaxAttempts = 1, TypeOK, ContextInv, ReaperSees, ClaimRetry \/ Enqueuer \/ EnqueueRaises \/ EnqueuerDies
    PROVE  ReaperSees'
<1>1. ~ClaimRetry
  BY DEF ClaimRetry, ReaperSees
<1>2. ~EnqueuerAt("idle")
  BY <1>1
  DEF Enqueuer, EnqueueBump, DeleteProgress, SeedProgress, DeleteContext, SeedContext, EnqueueStage,
      RecordSubjob, MarkEnqueueFailed, EnqueueRaises, EnqueuerDies, EnqueuerAt
<1>3. ~row.stale /\ \A r \in Reapers : reaper[r].pc = "idle"
  BY <1>2 DEF ReaperSees, EnqueuerRests
<1>4. UNCHANGED <<pc, local, reaper>>
  BY <1>1
  DEF Enqueuer, EnqueueBump, DeleteProgress, SeedProgress, DeleteContext, SeedContext, EnqueueStage,
      RecordSubjob, MarkEnqueueFailed, EnqueueRaises, EnqueuerDies
<1>5. enqueuer'.attempts = enqueuer.attempts /\ ~row'.stale
  <2>1. CASE MarkEnqueueFailed
    BY <2>1 DEF MarkEnqueueFailed, EnqueuerGoto, UpdateJob, TypeOK, EnqueuerType
  <2>2. ASSUME NEW t \in Stages, EnqueueStage(t) PROVE enqueuer'.attempts = enqueuer.attempts /\ ~row'.stale
    BY <1>3, <2>2 DEF EnqueueStage, TypeOK, EnqueuerType
  <2>3. CASE EnqueueBump \/ DeleteProgress \/ SeedProgress \/ DeleteContext \/ SeedContext \/ RecordSubjob
             \/ EnqueueRaises \/ EnqueuerDies
    BY <1>3, <2>3
    DEF EnqueueBump, DeleteProgress, SeedProgress, DeleteContext, SeedContext, RecordSubjob,
        EnqueueRaises, EnqueuerDies, EnqueuerGoto, TypeOK, EnqueuerType
  <2> QED BY <1>1, <2>1, <2>2, <2>3 DEF Enqueuer
<1>6. \A g \in Generations, t \in Stages : subjob[g][t] # "none" => subjob'[g][t] = subjob[g][t]
  <2>1. ASSUME NEW u \in Stages, EnqueueStage(u),
               NEW g \in Generations, NEW t \in Stages, subjob[g][t] # "none"
        PROVE  subjob'[g][t] = subjob[g][t]
    <3> DEFINE n == enqueuer.generation
               status == IF DependenciesMet(n, u) THEN "queued" ELSE "deferred"
    <3>1. n \in Generations /\ subjob[n][u] = "none" /\ subjob' = [subjob EXCEPT ![n][u] = status]
      BY <2>1 DEF EnqueueStage
    <3> HIDE DEF n, status
    <3> QED BY <2>1, <3>1 DEF TypeOK, PerSubjob
  <2>2. (\A u \in Stages : ~EnqueueStage(u)) => subjob' = subjob
    BY <1>1
    DEF Enqueuer, EnqueueBump, DeleteProgress, SeedProgress, DeleteContext, SeedContext,
        RecordSubjob, MarkEnqueueFailed, EnqueueRaises, EnqueuerDies
  <2> QED BY <2>1, <2>2
<1>7. RunningIsStarted'
  <2>1. "none" # "started"
    OBVIOUS
  <2> QED BY <1>4, <1>6, <2>1 DEF ReaperSees, RunningIsStarted
<1>8. EnqueuerRests' /\ Scanned'
  BY <1>3, <1>4, <1>5 DEF EnqueuerRests, Scanned
<1> QED BY <1>5, <1>7, <1>8 DEF ReaperSees

LEMMA SeesReaper ==
    ASSUME TypeOK, ReaperSees, Age \/ \E r \in Reapers : Reap(r)
    PROVE  ReaperSees'
<1>1. UNCHANGED <<enqueuer, pc, local, subjob, tracked>>
  BY DEF Age, Reap, ListStale, ReadGeneration, ReadSubjobIds, ScanSubjob, ReaperBump, RecoverStale,
      redisVars
<1>2. RunningIsStarted'
  BY <1>1 DEF ReaperSees, RunningIsStarted
<1>3. CASE Age
  BY <1>1, <1>2, <1>3 DEF Age, ReaperSees, EnqueuerRests, Scanned, EnqueuerAt
<1>4. ASSUME NEW r \in Reapers, Reap(r) PROVE ReaperSees'
  <2>1. reaper[r].pc # "idle" \/ row.stale
    BY <1>4 DEF Reap, ListStale, ReadGeneration, ReadSubjobIds, ScanSubjob, ReaperBump, RecoverStale, ReaperStep
  <2>2. EnqueuerRests'
    BY <1>1, <2>1 DEF ReaperSees, EnqueuerRests, EnqueuerAt
  <2>3. \A q \in Reapers : q # r => reaper'[q] = reaper[q]
    BY <1>4
    DEF TypeOK, Reap, ListStale, ReadGeneration, ReadSubjobIds, ScanSubjob, ReaperBump, RecoverStale, ReaperStep
  <2>4. reaper[r] \in ReaperLocals /\ reaper'[r] \in ReaperLocals
    BY <1>4, TypeNext DEF TypeOK, Next
  <2>5. LET g == reaper'[r].generation IN
        /\ reaper'[r].pc \in {"bump", "update"} => reaper'[r].todo = {}
        /\ reaper'[r].pc \in {"scan", "bump", "update"} /\ g \in Generations =>
               \A s \in tracked[g] \ reaper'[r].todo : subjob[g][s] \notin LiveStatus
    <3> DEFINE g == reaper[r].generation
               todo == reaper[r].todo
    <3>1. /\ reaper[r].pc \in {"bump", "update"} => todo = {}
          /\ reaper[r].pc \in {"scan", "bump", "update"} /\ g \in Generations =>
                 \A s \in tracked[g] \ todo : subjob[g][s] \notin LiveStatus
      BY DEF ReaperSees, Scanned
    <3>2. CASE ListStale(r)
      BY <3>2 DEF ListStale, ReaperStep, TypeOK, ReaperLocals
    <3>3. CASE ReadGeneration(r)
      <4>1. reaper'[r] = [pc |-> IF generation = 0 THEN "bump" ELSE "ids", generation |-> generation, todo |-> {}]
        BY <3>3 DEF ReadGeneration, TypeOK
      <4>2. 0 \notin Generations
        BY PipelineAssumption DEF Generations, PipelineAssumption
      <4> QED BY <4>1, <4>2
    <3>4. CASE ReadSubjobIds(r)
      <4> DEFINE ids == IF g \in Generations THEN tracked[g] ELSE {}
      <4>1. reaper'[r] = [reaper[r] EXCEPT !.pc = IF ids = {} THEN "bump" ELSE "scan", !.todo = ids]
        BY <3>4 DEF ReadSubjobIds, TypeOK
      <4>2. reaper'[r].generation = g /\ reaper'[r].todo = ids /\ (reaper'[r].pc = "bump" => ids = {})
            /\ reaper'[r].pc \in {"bump", "scan"}
        BY <2>4, <4>1 DEF ReaperLocals
      <4> QED BY <4>2
    <3>5. CASE ScanSubjob(r)
      <4>1. PICK t \in todo :
              reaper' = [reaper EXCEPT ![r] =
                  IF subjob[g][t] \in LiveStatus
                  THEN [pc |-> "idle", generation |-> 0, todo |-> {}]
                  ELSE [reaper[r] EXCEPT !.todo = todo \ {t}, !.pc = IF todo = {t} THEN "bump" ELSE "scan"]]
        BY <3>5 DEF ScanSubjob
      <4>2. CASE subjob[g][t] \in LiveStatus
        BY <4>1, <4>2 DEF TypeOK
      <4>3. CASE subjob[g][t] \notin LiveStatus
        <5>1. reaper'[r] = [reaper[r] EXCEPT !.todo = todo \ {t}, !.pc = IF todo = {t} THEN "bump" ELSE "scan"]
          BY <4>1, <4>3 DEF TypeOK
        <5>2. reaper'[r].generation = g /\ reaper'[r].todo = todo \ {t}
              /\ reaper'[r].pc = IF todo = {t} THEN "bump" ELSE "scan"
          BY <2>4, <5>1 DEF ReaperLocals
        <5>3. reaper[r].pc = "scan"
          BY <3>5 DEF ScanSubjob
        <5>4. reaper'[r].pc = "bump" => reaper'[r].todo = {}
          BY <5>2
        <5> QED BY <3>1, <4>3, <5>2, <5>3, <5>4
      <4> QED BY <4>2, <4>3
    <3>6. CASE ReaperBump(r)
      <4>1. reaper[r].pc = "bump" /\ reaper'[r] = [reaper[r] EXCEPT !.pc = "update"]
        BY <3>6 DEF ReaperBump, ReaperStep, TypeOK
      <4>2. reaper'[r].generation = g /\ reaper'[r].todo = todo
        BY <2>4, <4>1 DEF ReaperLocals
      <4> QED BY <3>1, <4>1, <4>2
    <3>7. CASE RecoverStale(r)
      BY <3>7 DEF RecoverStale, TypeOK
    <3> QED BY <1>4, <3>2, <3>3, <3>4, <3>5, <3>6, <3>7 DEF Reap
  <2>6. Scanned'
    BY <1>1, <2>3, <2>5 DEF ReaperSees, Scanned
  <2> QED BY <1>1, <1>2, <2>2, <2>6 DEF ReaperSees
<1> QED BY <1>3, <1>4

\* The stages of an attempt keep their order, whatever fails.
LEMMA InOrderNext == TypeOK /\ ContextInv /\ InOrder /\ [Next]_vars => InOrder'
<1> SUFFICES ASSUME TypeOK, ContextInv, InOrder, [Next]_vars PROVE InOrder'
  OBVIOUS
<1>1. ASSUME UNCHANGED <<subjob, pc>> PROVE InOrder'
  BY <1>1 DEF InOrder
<1>2. CASE \/ ClaimRetry \/ EnqueueRaises \/ EnqueuerDies \/ Age \/ \E r \in Reapers : Reap(r)
           \/ EnqueueBump \/ DeleteProgress \/ SeedProgress \/ DeleteContext \/ SeedContext
           \/ RecordSubjob \/ MarkEnqueueFailed \/ UNCHANGED vars
  BY <1>1, <1>2
  DEF ClaimRetry, EnqueueRaises, EnqueuerDies, Age, Reap, ListStale, ReadGeneration, ReadSubjobIds,
      ScanSubjob, ReaperBump, RecoverStale, EnqueueBump, DeleteProgress, SeedProgress, DeleteContext,
      SeedContext, RecordSubjob, MarkEnqueueFailed, vars
<1>3. ASSUME NEW s \in Stages, EnqueueStage(s) PROVE InOrder'
  <2> DEFINE n == enqueuer.generation
  <2>1. /\ n \in Generations /\ subjob[n][s] = "none" /\ pc' = pc
        /\ subjob' = [subjob EXCEPT ![n][s] = IF DependenciesMet(n, s) THEN "queued" ELSE "deferred"]
    BY <1>3 DEF EnqueueStage
  <2>2. pc[n][s] = "idle"
    BY <2>1 DEF ContextInv, RunningIsLaunched
  <2>3. \A h \in Generations, t \in Stages : ~(h = n /\ t = s) => subjob'[h][t] = subjob[h][t]
    BY <2>1 DEF TypeOK, PerSubjob
  <2>4. subjob'[n][s] \in {"queued", "deferred"} /\ (subjob'[n][s] = "queued" => DependenciesMet(n, s))
    BY <2>1 DEF TypeOK, PerSubjob
  <2>5. DependenciesMet(n, s) => \A d \in DependsOn(s) : pc[n][d] = "done"
    BY <2>1, Dag DEF DependenciesMet, InOrder
  <2> QED BY <2>1, <2>2, <2>3, <2>4, <2>5 DEF InOrder
<1> QED BY <1>2, <1>3, InOrderProcess DEF Next, ProcessStep, Enqueuer

\* The reapers fail a job that was enqueued once only when every sub-job its
\* attempt has recorded is over: for any number of frontends and workers, and
\* whatever stage, process, store or enqueueing fails, unless two stages of the job
\* run side by side.
THEOREM RecoversOnlyDead == ~HasDiarize /\ MaxAttempts = 1 => (Spec => RecoverOnlyDead)
<1> SUFFICES ASSUME ~HasDiarize, MaxAttempts = 1 PROVE Spec => RecoverOnlyDead
  OBVIOUS
<1> DEFINE Inv == TypeOK /\ ContextInv /\ InOrder /\ ReaperSees
           Spared ==
             \A r \in Reapers :
                 RecoverStale(r) /\ row.status \in Active /\ row'.status = "failed" =>
                     \A g \in Generations \cap {reaper[r].generation} : \A s \in tracked[g] :
                         pc[g][s] \notin StagePcs /\ subjob[g][s] # "queued"
<1>1. Init => Inv
  BY TypeInit, ContextInit, InputsInit, SeesInit DEF InputsInv
<1>2. Inv /\ [Next]_vars => Inv'
  <2> SUFFICES ASSUME Inv, [Next]_vars PROVE Inv'
    OBVIOUS
  <2>1. TypeOK' /\ ContextInv' /\ InOrder'
    BY TypeNext, ContextNext, InOrderNext
  <2>2. CASE UNCHANGED vars
    BY <2>1, <2>2 DEF vars, ReaperSees, EnqueuerRests, RunningIsStarted, Scanned, EnqueuerAt
  <2>3. CASE ClaimRetry \/ Enqueuer \/ EnqueueRaises \/ EnqueuerDies
    BY <2>1, <2>3, SeesEnqueuer
  <2>4. CASE Age \/ \E r \in Reapers : Reap(r)
    BY <2>1, <2>4, SeesReaper
  <2>5. ASSUME NEW g \in Generations, NEW s \in Stages, ProcessStep(g, s) PROVE Inv'
    BY <2>1, <2>5, SeesProcess
  <2> QED BY <2>2, <2>3, <2>4, <2>5 DEF Next, ProcessStep
<1>3. Inv => [Spared]_vars
  <2> SUFFICES ASSUME Inv, NEW r \in Reapers, RecoverStale(r), NEW g \in Generations,
                      g = reaper[r].generation, NEW s \in tracked[g]
               PROVE  pc[g][s] \notin StagePcs /\ subjob[g][s] # "queued"
    OBVIOUS
  <2>1. reaper[r].pc = "update" /\ s \in Stages
    BY DEF RecoverStale, TypeOK
  <2>2. subjob[g][s] \notin LiveStatus
    BY <2>1 DEF ReaperSees, Scanned
  <2>3. pc[g][s] \in StagePcs => subjob[g][s] = "started"
    BY <2>1 DEF ReaperSees, RunningIsStarted, RunningPcs
  <2> QED BY <2>2, <2>3 DEF LiveStatus
<1> QED BY <1>1, <1>2, <1>3, PTL DEF Spec, RecoverOnlyDead

-----------------------------------------------------------------------------
(* What a completed job has saved *)

\* The job is retried at most once, and neither enqueue_pipeline fails nor a reaper looks.
\* A worker that dies in the failure callback of llm_correction, after a store error there
\* has marked the row, has RQ run that callback again, which then completes a claimed retry
\* (TLC's counterexample): so with that stage either no worker dies or no store fails.
AtMostOneRetry ==
    /\ MaxAttempts <= 2 /\ MaxEnqueueFaults = 0 /\ Reapers = {}
    /\ HasLlm => MaxCrashes = 0 \/ MaxStoreFaults = 0

\* The attempt whose transcript the context hash holds.
Transcribed == context["transcript_result"]

\* The retry has been claimed and has not emptied the context hash yet.
RetryResets ==
    enqueuer.attempts = 2 /\ enqueuer.pc \in {"bump", "del_progress", "seed_progress", "del_context"}

\* A callback of the first attempt has found it failed.
FirstFailed ==
    /\ enqueuer.attempts = 1
    /\ \/ row.status = "failed"
       \/ \E g \in Generations, s \in Stages : local[g][s].job.status = "failed"

Lull == RetryResets \/ FirstFailed

\* The retry's sub-jobs come after the reset, and until then there is one attempt.
OneAttempt ==
    /\ enqueuer.attempts \in {1, 2} /\ enqueuer.pc # "failed"
    /\ \A g \in Generations : Launched(g) => g <= enqueuer.generation
    /\ enqueuer.attempts = 1 =>
           \A g \in Generations : Launched(g) =>
               g = enqueuer.generation /\ enqueuer.pc \in {"enqueue", "record", "idle"}
    /\ RetryResets => \A g, h \in Generations : Launched(g) /\ Launched(h) => g = h
    /\ FirstFailed => \E g \in Generations : Launched(g)

\* The hash holds a transcript of an attempt that ran; after the reset, the newest one's.
HashedOwn ==
    /\ Transcribed # 0 => Transcribed \in Generations /\ Launched(Transcribed)
    /\ ~RetryResets => Transcribed \in {0, enqueuer.generation}

NotBegun(g, s) == pc[g][s] = "idle" /\ subjob[g][s] \notin {"queued", "started", "finished"}

\* A stage that will not finish any more.
Stuck(g, s) ==
    /\ s # FinalStage /\ subjob[g][s] # "finished"
    /\ \/ pc[g][s] \in FailurePcs \cup {"dead", "done"}
       \/ pc[g][s] = "ack" /\ local[g][s].failing

\* The attempt never gets to its last stage ...
Blocked(g) ==
    \E s \in Stages : Stuck(g, s) /\ \A t \in Stages : s \in DependsOn(t) => NotBegun(g, t)

\* ... or is past it: its last stage will not save a transcript of its own any more.
Past(g) ==
    LET at == pc[g][FinalStage]
        l == local[g][FinalStage] IN
    /\ at \notin {"idle"} \cup StagePcs \cup SuccessPcs
    /\ at \in {"save", "complete_row", "fail_row"} => l.failing
    /\ at \in CompletionPcs => (l.raising => l.failing)
    /\ HasLlm /\ Transcribed = g =>
          MaxCrashes = 0 /\ at \notin {"dead", "ff_stale", "ff_job", "ff_context"}

Hopeless(g) == Blocked(g) \/ Past(g)

SupersededIsHopeless ==
    \A g \in Generations : Launched(g) /\ (g # enqueuer.generation \/ Lull) => Hopeless(g)

\* What the callbacks of the last stage know when they get somewhere.
FinalPath ==
    \A g \in Generations :
        LET at == pc[g][FinalStage]
            l == local[g][FinalStage] IN
        /\ at \in SuccessPcs => ~l.raising
        /\ at \in {"save", "complete_row", "fail_row", "fail_progress", "complete_progress"} =>
               (l.raising => l.failing)
        /\ MaxStoreFaults = 0 => at \notin {"fail_row", "fail_progress"}
        /\ HasLlm /\ at \in MissingPcs \cup (FailurePcs \ {"ff_stale", "ff_job", "ff_context"}) =>
               Transcribed # g

\* Only the last stage completes a job, and who is in a failure callback has failed.
CallbackKinds ==
    \A g \in Generations, s \in Stages :
        /\ pc[g][s] \in SuccessPcs \cup MissingPcs \cup CompletionPcs => s = FinalStage
        /\ pc[g][s] \in FailurePcs => local[g][s].failing

\* What is about to be saved, or has been, is the newest attempt's.
SavesNewest ==
    /\ \A g \in Generations, s \in Stages :
          /\ pc[g][s] = "save" =>
                local[g][s].context["transcript_result"] = Newest /\ Newest # 0
          /\ pc[g][s] = "complete_row" => local[g][s].job.status = "completed"
          /\ local[g][s].job.status = "completed" =>
                local[g][s].job.result_path = Newest /\ transcript = Newest /\ Newest # 0
    /\ CompletedMeansSaved

\* The first attempt completes the job in a callback of its last stage.
FirstCompletes ==
    enqueuer.attempts = 1 =>
        /\ \A g \in Generations, s \in Stages :
              local[g][s].job.status = "completed" => s = FinalStage /\ pc[g][s] \in CallbackPcs
        /\ row.status = "completed" =>
              \E g \in Generations : pc[g][FinalStage] \notin {"idle"} \cup StagePcs

\* Between the failure and the reset nothing completes the job.
LullIsQuiet ==
    Lull =>
        /\ row.status # "completed"
        /\ \A g \in Generations, s \in Stages :
              pc[g][s] \notin {"save", "complete_row"} /\ local[g][s].job.status # "completed"

CompletionInv ==
    /\ OneAttempt /\ HashedOwn /\ SupersededIsHopeless /\ FinalPath /\ CallbackKinds
    /\ SavesNewest /\ FirstCompletes /\ LullIsQuiet

LEMMA CompletionInit == Init => CompletionInv
<1> SUFFICES ASSUME Init PROVE CompletionInv
  OBVIOUS
<1>1. /\ \A g \in Generations, s \in Stages :
            pc[g][s] = "idle" /\ subjob[g][s] = "none" /\ local[g][s] = FreshLocal
      /\ row.status = "queued" /\ enqueuer.attempts = 1 /\ enqueuer.pc = "bump"
      /\ Transcribed = 0
  BY DEF Init, Transcribed, NoContext, Keys, OutputKeys
<1>2. \A g \in Generations : ~Launched(g) /\ g # 0
  BY <1>1, PipelineAssumption DEF Launched, Generations, PipelineAssumption
<1>3. FreshLocal.job.status = "queued" /\ FinalStage \in Stages
  BY Dag DEF FreshLocal
<1>4. ~RetryResets /\ ~FirstFailed
  BY <1>1, <1>3 DEF RetryResets, FirstFailed
<1>5. OneAttempt /\ HashedOwn /\ SupersededIsHopeless
  BY <1>1, <1>2, <1>4 DEF OneAttempt, HashedOwn, SupersededIsHopeless
<1>6. FinalPath /\ CallbackKinds
  BY <1>1, <1>3
  DEF FinalPath, CallbackKinds, SuccessPcs, MissingPcs, CompletionPcs, FailurePcs
<1>7. SavesNewest /\ FirstCompletes
  BY <1>1, <1>3 DEF SavesNewest, FirstCompletes, CompletedMeansSaved
<1>8. LullIsQuiet
  BY <1>4 DEF LullIsQuiet, Lull
<1> QED BY <1>5, <1>6, <1>7, <1>8 DEF CompletionInv

\* The shape of the DAG below the last stage.
LEMMA BelowTheLast ==
    /\ \A s \in Stages : s # FinalStage => \E t \in Stages : s \in DependsOn(t)
    /\ \A s \in Stages : OutputKey(s) = "transcript_result" <=> s \in {"postprocess", "llm_correction"}
    /\ "llm_correction" \in Stages <=> HasLlm
    /\ HasLlm <=> FinalStage = "llm_correction"
    /\ "postprocess" \in Stages
    /\ ~HasLlm => FinalStage = "postprocess"
BY PipelineAssumption DEF FinalStage, Stages, AllStages, DependsOn, OutputKey, PipelineAssumption

\* A blocked attempt has not begun its last stage.
LEMMA BlockedIdle ==
    ASSUME InOrder, NEW g \in Generations, Blocked(g)
    PROVE  pc[g][FinalStage] = "idle"
<1>1. PICK s \in Stages : Stuck(g, s) /\ \A t \in Stages : s \in DependsOn(t) => NotBegun(g, t)
  BY DEF Blocked
<1>2. PICK t \in Stages : s \in DependsOn(t)
  BY <1>1, BelowTheLast DEF Stuck
<1>3. pc[g][t] = "idle"
  BY <1>1, <1>2 DEF NotBegun
<1> QED BY <1>3, LastComesLast

\* Where a step takes a process, and what it knows there.
LEMMA Flow ==
    ASSUME TypeOK, CallbackKinds, NEW g \in Generations, NEW s \in Stages, ProcessStep(g, s)
    PROVE  /\ pc'[g][s] \in StagePcs => pc[g][s] \in StagePcs \cup {"idle"}
           /\ pc'[g][s] \in SuccessPcs \cup MissingPcs \cup CompletionPcs => s = FinalStage
           /\ pc'[g][s] \in FailurePcs => local'[g][s].failing
           /\ pc[g][s] \in CallbackPcs => pc'[g][s] \in CallbackPcs \cup {"dead", "done"}
           /\ s # FinalStage /\ (pc[g][s] \in FailurePcs \cup {"dead"} \/ (pc[g][s] = "ack" /\ local[g][s].failing)) =>
                  pc'[g][s] \in FailurePcs \cup {"dead", "done"} \/ (pc'[g][s] = "ack" /\ local'[g][s].failing)
<1> USE DEF StagePcs, SuccessPcs, MissingPcs, CompletionPcs, FailurePcs, CallbackPcs, RunningPcs, Step
<1>1. \A label : Goto(g, s, label) => pc'[g][s] = label
  BY DEF TypeOK, PerSubjob, Goto
<1>2. \A l : Assign(g, s, l) => local'[g][s] = l
  BY DEF TypeOK, PerSubjob, Assign
<1>3. /\ pc[g][s] \in SuccessPcs \cup MissingPcs \cup CompletionPcs => s = FinalStage
      /\ pc[g][s] \in FailurePcs => local[g][s].failing
  BY DEF CallbackKinds
<1>4. IsFinal(s) <=> s = FinalStage
  BY Dag
<1>5. local[g][s] \in Locals /\ FreshLocal \in Locals
  BY FreshLocalType, PerSubjobElement DEF TypeOK
<1>7. CASE StartSubjob(g, s) \/ LoadJob(g, s) \/ MarkProcessing(g, s) \/ LoadContext(g, s) \/ SeedFromJob(g, s)
  BY <1>1, <1>7 DEF StartSubjob, LoadJob, MarkProcessing, LoadContext, SeedFromJob, redisVars
<1>8. CASE \/ Mirror(g, s) \/ MirrorDegraded(g, s) \/ Report(g, s) \/ ReportDegraded(g, s)
           \/ StageReturns(g, s)
  BY <1>1, <1>8 DEF Mirror, MirrorDegraded, Report, ReportDegraded, StageReturns, redisVars
<1>9. CASE PersistOutputs(g, s)
  BY <1>1, <1>4, <1>9 DEF PersistOutputs
<1>10. CASE StageRaises(g, s) \/ Abandon(g, s)
  BY <1>1, <1>2, <1>5, <1>10 DEF StageRaises, Abandon, Locals, redisVars
<1>11. CASE \/ CheckSuccessStale(g, s) \/ ReadJobOnSuccess(g, s) \/ ReadContextOnSuccess(g, s)
            \/ SaveResult(g, s) \/ CompleteRow(g, s) \/ CompleteProgress(g, s)
  BY <1>1, <1>3, <1>11
  DEF CheckSuccessStale, ReadJobOnSuccess, ReadContextOnSuccess, SaveResult, CompleteRow,
      CompleteProgress, redisVars
<1>12. CASE MarkFailedRow(g, s) \/ MarkFailedProgress(g, s)
  BY <1>1, <1>2, <1>3, <1>5, <1>12 DEF MarkFailedRow, MarkFailedProgress, redisVars, Locals
<1>13. CASE CheckFailureStale(g, s) \/ ReadJobOnFailure(g, s) \/ LoadSubjobIds(g, s) \/ CancelDone(g, s)
  BY <1>1, <1>2, <1>3, <1>5, <1>13
  DEF CheckFailureStale, ReadJobOnFailure, LoadSubjobIds, CancelDone, redisVars, Locals
<1>14. CASE ReadContextOnFailure(g, s)
  <2>1. Salvages(s) => s = FinalStage
    BY DEF Salvages, FinalStage, Stages
  <2> QED BY <1>1, <1>2, <1>3, <1>5, <1>14, <2>1 DEF ReadContextOnFailure, redisVars, Locals
<1>15. CASE CancelSubjob(g, s)
  BY <1>2, <1>3, <1>5, <1>15 DEF CancelSubjob, redisVars, Locals
<1>16. CASE FenceGeneration(g, s) \/ CleanupWav(g, s) \/ CleanupContext(g, s)
  BY <1>1, <1>3, <1>16 DEF FenceGeneration, CleanupWav, CleanupContext, redisVars
<1>17. CASE ClearSubjobSet(g, s)
  BY <1>1, <1>2, <1>3, <1>5, <1>17 DEF ClearSubjobSet, AfterCompletion, Locals
<1>18. CASE CallbackRaises(g, s)
  <2>1. /\ pc'[g][s] = OnException(g, s)
        /\ pc[g][s] \in CallbackPcs \ {"completion_wav", "ff_wav", "ff_cancel", "ack"}
        /\ local'[g][s] = [local[g][s] EXCEPT
                             !.failing = local[g][s].failing \/ OnException(g, s) = "ff_stale",
                             !.raising = local[g][s].raising \/ pc[g][s] = "fail_row"]
    BY <1>1, <1>2, <1>18 DEF CallbackRaises
  <2>2. local'[g][s].failing = (local[g][s].failing \/ OnException(g, s) = "ff_stale")
    BY <1>5, <2>1 DEF Locals
  <2> QED BY <1>3, <2>1, <2>2 DEF OnException, AfterCompletion
<1>19. CASE AcknowledgeSubjob(g, s) \/ KillHorse(g, s) \/ Crash(g, s)
  BY <1>1, <1>19 DEF AcknowledgeSubjob, KillHorse, Crash, redisVars
<1> QED
  BY <1>7, <1>8, <1>9, <1>10, <1>11, <1>12, <1>13, <1>14, <1>15, <1>16, <1>17, <1>18, <1>19
  DEF ProcessStep, RunStage, Callback


\* What the step of a process does to the row ...
RowEffect(g, s) ==
    \/ row'.status = row.status /\ row'.result_path = row.result_path
    \/ row'.status = "processing"
    \/ /\ Mirror(g, s) \/ CompleteRow(g, s)
       /\ row'.status = local[g][s].job.status
       /\ row'.result_path = local[g][s].job.result_path
    \/ MarkFailedRow(g, s) /\ row'.status = "failed"

\* ... to its own snapshot of it ...
JobEffect(g, s) ==
    \/ local'[g][s].job = local[g][s].job
    \/ local'[g][s].job.status \in {"queued", "processing"}
    \/ /\ LoadJob(g, s) \/ ReadJobOnSuccess(g, s) \/ ReadJobOnFailure(g, s)
       /\ local'[g][s].job.status = row.status /\ local'[g][s].job.result_path = row.result_path
    \/ MarkFailedRow(g, s) /\ local'[g][s].job.status = "failed"
    \/ SaveResult(g, s)

\* ... to the transcript in the hash ...
HashEffect(g, s) ==
    \/ Transcribed' \in {Transcribed, 0}
    \/ /\ PersistOutputs(g, s) /\ s \in {"postprocess", "llm_correction"}
       /\ OwnsContext(g) /\ Transcribed' = g

\* ... and to the one on disk.
SaveEffect(g, s) ==
    /\ transcript' = transcript \/ SaveResult(g, s)
    /\ pc'[g][s] = "save" =>
          /\ ReadContextOnSuccess(g, s) \/ ReadContextOnFailure(g, s)
          /\ local'[g][s].context["transcript_result"] = Transcribed /\ Transcribed # 0
          /\ s = FinalStage
    /\ pc'[g][s] = "complete_row" => SaveResult(g, s)

LEMMA Effects ==
    ASSUME TypeOK, CallbackKinds, NEW g \in Generations, NEW s \in Stages, ProcessStep(g, s)
    PROVE  RowEffect(g, s) /\ JobEffect(g, s) /\ HashEffect(g, s) /\ SaveEffect(g, s)
<1> USE DEF RowEffect, JobEffect, HashEffect, SaveEffect
<1> USE DEF StagePcs, SuccessPcs, MissingPcs, CompletionPcs, FailurePcs, CallbackPcs, RunningPcs, Step, Transcribed
<1>1. \A label : Goto(g, s, label) => pc'[g][s] = label
  BY DEF TypeOK, PerSubjob, Goto
<1>2. \A l : Assign(g, s, l) => local'[g][s] = l
  BY DEF TypeOK, PerSubjob, Assign
<1>3. pc[g][s] \in SuccessPcs \cup MissingPcs \cup CompletionPcs => s = FinalStage
  BY DEF CallbackKinds
<1>4. /\ local[g][s] \in Locals /\ local[g][s].job \in Jobs /\ local[g][s].context \in Contexts
      /\ FreshLocal.job.status = "queued" /\ row \in RowType /\ context \in Contexts
      /\ context["transcript_result"] \in Source
  BY LocalType DEF FreshLocal, TypeOK, Contexts, Keys, OutputKeys
<1>5. \A k \in Keys : Loaded({"audio_path", "transcript_result"})[k] =
          IF k \in {"audio_path", "transcript_result"} THEN context[k] ELSE 0
  BY DEF Loaded
<1>6. "transcript_result" \in Keys
  BY DEF Keys, OutputKeys
<1>7. CASE StartSubjob(g, s) \/ Report(g, s) \/ ReportDegraded(g, s) \/ StageReturns(g, s)
  BY <1>1, <1>7 DEF StartSubjob, Report, ReportDegraded, StageReturns, redisVars, fileVars
<1>8. CASE LoadJob(g, s) \/ ReadJobOnSuccess(g, s) \/ ReadJobOnFailure(g, s)
  <2>1. local'[g][s] = [local[g][s] EXCEPT !.job = [status |-> row.status, result_path |-> row.result_path]]
    BY <1>2, <1>8 DEF LoadJob, ReadJobOnSuccess, ReadJobOnFailure
  <2>2. local'[g][s].job = [status |-> row.status, result_path |-> row.result_path]
    BY <1>4, <2>1 DEF Locals
  <2> QED BY <1>1, <1>8, <2>2 DEF LoadJob, ReadJobOnSuccess, ReadJobOnFailure, redisVars, fileVars
<1>9. CASE MarkProcessing(g, s)
  <2>1. /\ local'[g][s] = [local[g][s] EXCEPT !.job = [local[g][s].job EXCEPT !.status = "processing"]]
        /\ row' = [status |-> "processing", result_path |-> local[g][s].job.result_path, stale |-> FALSE]
    BY <1>2, <1>4, <1>9 DEF MarkProcessing, UpdateJob, Jobs
  <2>2. local'[g][s].job.status = "processing"
    BY <1>4, <2>1 DEF Locals, Jobs
  <2> QED BY <1>1, <1>9, <2>1, <2>2 DEF MarkProcessing, redisVars, fileVars
<1>10. CASE MarkFailedRow(g, s)
  <2>1. /\ local'[g][s] = [local[g][s] EXCEPT !.job = [local[g][s].job EXCEPT !.status = "failed"]]
        /\ row' = [status |-> "failed", result_path |-> local[g][s].job.result_path, stale |-> FALSE]
    BY <1>2, <1>4, <1>10 DEF MarkFailedRow, UpdateJob, Jobs
  <2>2. local'[g][s].job.status = "failed"
    BY <1>4, <2>1 DEF Locals, Jobs
  <2> QED BY <1>1, <1>10, <2>1, <2>2 DEF MarkFailedRow, redisVars, fileVars
<1>11. CASE LoadContext(g, s)
  <2>1. local'[g][s] = [local[g][s] EXCEPT !.context = Loaded(InputKeys(s))]
    BY <1>2, <1>11 DEF LoadContext
  <2>2. local'[g][s].job = local[g][s].job
    BY <1>4, <2>1 DEF Locals
  <2> QED BY <1>1, <1>11, <2>2 DEF LoadContext, redisVars, fileVars
<1>12. CASE SeedFromJob(g, s)
  <2>1. PICK c : Assign(g, s, [local[g][s] EXCEPT !.context = c])
    BY <1>12 DEF SeedFromJob
  <2>2. local'[g][s].job = local[g][s].job
    BY <1>2, <1>4, <2>1 DEF Locals
  <2>3. context'["transcript_result"] = context["transcript_result"]
    BY <1>4, <1>6, <1>12 DEF SeedFromJob, Contexts
  <2> QED BY <1>1, <1>12, <2>2, <2>3 DEF SeedFromJob, fileVars
<1>13. CASE Mirror(g, s) \/ CompleteRow(g, s)
  BY <1>1, <1>13 DEF Mirror, CompleteRow, UpdateJob, redisVars, fileVars
<1>14. CASE MirrorDegraded(g, s)
  BY <1>1, <1>4, <1>14 DEF MirrorDegraded, RowType, redisVars, fileVars
<1>15. CASE PersistOutputs(g, s)
  <2>1. local'[g][s] = FreshLocal
    BY <1>2, <1>15 DEF PersistOutputs
  <2>2. \/ context'["transcript_result"] = context["transcript_result"]
        \/ /\ s \in {"postprocess", "llm_correction"} /\ OwnsContext(g)
           /\ context'["transcript_result"] = g
    BY <1>4, <1>6, <1>15, BelowTheLast DEF PersistOutputs, Contexts
  <2> QED BY <1>1, <1>4, <1>15, <2>1, <2>2 DEF PersistOutputs, fileVars
<1>16. CASE StageRaises(g, s) \/ Crash(g, s) \/ Abandon(g, s) \/ KillHorse(g, s)
  <2>1. local'[g][s].job.status = "queued"
    BY <1>2, <1>4, <1>16 DEF StageRaises, Crash, Abandon, KillHorse, FreshLocal
  <2> QED BY <1>1, <1>16, <2>1 DEF StageRaises, Crash, Abandon, KillHorse, redisVars, fileVars
<1>17. CASE ReadContextOnSuccess(g, s) \/ ReadContextOnFailure(g, s)
  <2>1. local'[g][s] = [local[g][s] EXCEPT !.context = Loaded({"audio_path", "transcript_result"})]
    BY <1>2, <1>17 DEF ReadContextOnSuccess, ReadContextOnFailure
  <2>2. local'[g][s].job = local[g][s].job /\ local'[g][s].context = Loaded({"audio_path", "transcript_result"})
    BY <1>4, <2>1 DEF Locals
  <2>3. local'[g][s].context["transcript_result"] = context["transcript_result"]
    BY <1>5, <1>6, <2>2
  <2>4. pc'[g][s] = "save" => context["transcript_result"] # 0 /\ s = FinalStage
    BY <1>1, <1>3, <1>17, BelowTheLast DEF ReadContextOnSuccess, ReadContextOnFailure, Salvages
  <2>5. pc'[g][s] # "complete_row"
    BY <1>1, <1>17 DEF ReadContextOnSuccess, ReadContextOnFailure
  <2> QED BY <1>17, <2>2, <2>3, <2>4, <2>5 DEF ReadContextOnSuccess, ReadContextOnFailure, redisVars, fileVars
<1>18. CASE SaveResult(g, s)
  BY <1>1, <1>18 DEF SaveResult, redisVars
<1>19. CASE CancelSubjob(g, s)
  <2>1. PICK t \in Stages : Assign(g, s, [local[g][s] EXCEPT !.todo = local[g][s].todo \ {t}])
    BY <1>19, LocalType DEF CancelSubjob
  <2>2. local'[g][s].job = local[g][s].job
    BY <1>2, <1>4, <2>1 DEF Locals
  <2> QED BY <1>19, <2>2 DEF CancelSubjob, redisVars, fileVars
<1>20. CASE LoadSubjobIds(g, s)
  <2>1. local'[g][s] = [local[g][s] EXCEPT !.todo = tracked[g] \ {s}]
    BY <1>2, <1>20 DEF LoadSubjobIds
  <2>2. local'[g][s].job = local[g][s].job
    BY <1>4, <2>1 DEF Locals
  <2> QED BY <1>1, <1>20, <2>2 DEF LoadSubjobIds, redisVars, fileVars
<1>21. CASE \/ CheckSuccessStale(g, s) \/ MarkFailedProgress(g, s) \/ CompleteProgress(g, s)
            \/ CheckFailureStale(g, s) \/ CancelDone(g, s) \/ FenceGeneration(g, s) \/ CleanupWav(g, s)
  BY <1>1, <1>21
  DEF CheckSuccessStale, MarkFailedProgress, CompleteProgress, CheckFailureStale, CancelDone,
      FenceGeneration, CleanupWav, redisVars, fileVars
<1>22. CASE CleanupContext(g, s)
  BY <1>1, <1>6, <1>22 DEF CleanupContext, NoContext, fileVars
<1>23. CASE ClearSubjobSet(g, s)
  <2>1. local'[g][s] = [FreshLocal EXCEPT !.failing = local[g][s].failing \/ local[g][s].raising]
    BY <1>2, <1>23 DEF ClearSubjobSet
  <2>2. local'[g][s].job.status = "queued"
    BY <2>1 DEF FreshLocal
  <2>3. pc'[g][s] \in {"ack", "ff_stale"}
    BY <1>1, <1>23 DEF ClearSubjobSet, AfterCompletion
  <2> QED BY <1>23, <2>2, <2>3 DEF ClearSubjobSet, fileVars
<1>24. CASE CallbackRaises(g, s)
  <2>1. /\ pc'[g][s] = OnException(g, s)
        /\ local'[g][s] = [local[g][s] EXCEPT
                             !.failing = local[g][s].failing \/ OnException(g, s) = "ff_stale",
                             !.raising = local[g][s].raising \/ pc[g][s] = "fail_row"]
    BY <1>1, <1>2, <1>24 DEF CallbackRaises
  <2>2. local'[g][s].job = local[g][s].job
    BY <1>4, <2>1 DEF Locals
  <2>3. OnException(g, s) \notin {"save", "complete_row"}
    BY <1>24 DEF OnException, AfterCompletion, CallbackRaises
  <2> QED BY <1>24, <2>1, <2>2, <2>3 DEF CallbackRaises, redisVars, fileVars
<1>25. CASE AcknowledgeSubjob(g, s)
  BY <1>1, <1>2, <1>4, <1>25 DEF AcknowledgeSubjob, redisVars, fileVars
<1> QED
  BY <1>7, <1>8, <1>9, <1>10, <1>11, <1>12, <1>13, <1>14, <1>15, <1>16, <1>17, <1>18, <1>19, <1>20,
     <1>21, <1>22, <1>23, <1>24, <1>25
  DEF ProcessStep, RunStage, Callback

LEMMA KindsProcess ==
    ASSUME TypeOK, CallbackKinds, NEW g \in Generations, NEW s \in Stages, ProcessStep(g, s)
    PROVE  CallbackKinds'
<1> SUFFICES ASSUME NEW h \in Generations, NEW t \in Stages
             PROVE  /\ pc'[h][t] \in SuccessPcs \cup MissingPcs \cup CompletionPcs => t = FinalStage
                    /\ pc'[h][t] \in FailurePcs => local'[h][t].failing
  BY DEF CallbackKinds
<1>1. CASE <<h, t>> = <<g, s>>
  BY <1>1, Flow
<1>2. CASE <<h, t>> # <<g, s>>
  BY <1>2, OneProcess DEF CallbackKinds
<1> QED BY <1>1, <1>2

\* Once the last stage has run, its attempt writes no other transcript.
LEMMA LateWrites ==
    ASSUME TypeOK, InOrder, CallbackKinds, NEW g \in Generations, NEW s \in Stages, ProcessStep(g, s),
           NEW h \in Generations, pc[h][FinalStage] \notin {"idle"} \cup StagePcs, Transcribed # h
    PROVE  Transcribed' # h
<1>1. h # 0
  BY PipelineAssumption DEF Generations, PipelineAssumption
<1>2. CASE Transcribed' \in {Transcribed, 0}
  BY <1>1, <1>2
<1>3. CASE PersistOutputs(g, s) /\ Transcribed' = g
  <2>1. pc[g][s] = "persist" /\ "persist" \in StagePcs
    BY <1>3 DEF PersistOutputs, StagePcs
  <2>2. s # FinalStage => pc[h][s] = "done"
    BY LastComesLast
  <2> QED BY <1>3, <2>1, <2>2
<1> QED BY <1>2, <1>3, Effects DEF HashEffect

\* The callbacks of the last stage, step by step.
LEMMA PathStep ==
    ASSUME TypeOK, InOrder, CallbackKinds, FinalPath, NEW g \in Generations, ProcessStep(g, FinalStage)
    PROVE  LET at == pc'[g][FinalStage]
               l == local'[g][FinalStage] IN
           /\ at \in SuccessPcs => ~l.raising
           /\ at \in {"save", "complete_row", "fail_row", "fail_progress", "complete_progress"} =>
                  (l.raising => l.failing)
           /\ MaxStoreFaults = 0 => at \notin {"fail_row", "fail_progress"}
           /\ HasLlm /\ at \in MissingPcs \cup (FailurePcs \ {"ff_stale", "ff_job", "ff_context"}) =>
                  Transcribed' # g
<1> DEFINE s == FinalStage
           Entry == {"ff_stale", "ff_job", "ff_context"}
           Completing == {"save", "complete_row", "fail_row", "fail_progress", "complete_progress"}
           Late == MissingPcs \cup (FailurePcs \ Entry)
<1>1. \A label : Goto(g, s, label) => pc'[g][s] = label
  BY Dag DEF TypeOK, PerSubjob, Goto
<1>2. \A l : Assign(g, s, l) => local'[g][s] = l
  BY Dag DEF TypeOK, PerSubjob, Assign
<1>3. /\ pc[g][s] \in SuccessPcs => ~local[g][s].raising
      /\ pc[g][s] \in Completing => (local[g][s].raising => local[g][s].failing)
      /\ MaxStoreFaults = 0 => pc[g][s] \notin {"fail_row", "fail_progress"}
      /\ HasLlm /\ pc[g][s] \in Late => Transcribed # g
      /\ pc[g][s] \in FailurePcs => local[g][s].failing
  BY Dag DEF FinalPath, CallbackKinds
<1>4. local[g][s] \in Locals /\ FreshLocal \in Locals /\ s \in Stages /\ g # 0
  BY Dag, LocalType, FreshLocalType, PipelineAssumption DEF Generations, PipelineAssumption
<1>5. HasLlm /\ pc[g][s] \in Late => Transcribed' # g
  BY <1>3, <1>4, LateWrites DEF StagePcs, MissingPcs, FailurePcs
<1> USE DEF StagePcs, SuccessPcs, MissingPcs, CompletionPcs, FailurePcs, CallbackPcs, RunningPcs, Step
<1>6. CASE \/ StartSubjob(g, s) \/ Report(g, s) \/ ReportDegraded(g, s) \/ StageReturns(g, s)
           \/ LoadJob(g, s) \/ MarkProcessing(g, s) \/ LoadContext(g, s) \/ SeedFromJob(g, s)
           \/ Mirror(g, s) \/ MirrorDegraded(g, s)
  BY <1>1, <1>6
  DEF StartSubjob, Report, ReportDegraded, StageReturns, LoadJob, MarkProcessing, LoadContext,
      SeedFromJob, Mirror, MirrorDegraded
<1>7. CASE PersistOutputs(g, s)
  BY <1>1, <1>2, <1>7, Dag DEF PersistOutputs, FreshLocal
<1>8. CASE StageRaises(g, s) \/ Crash(g, s) \/ Abandon(g, s) \/ KillHorse(g, s) \/ AcknowledgeSubjob(g, s)
  BY <1>1, <1>8 DEF StageRaises, Crash, Abandon, KillHorse, AcknowledgeSubjob
<1>9. CASE \/ CheckSuccessStale(g, s) \/ CheckFailureStale(g, s) \/ MarkFailedProgress(g, s)
           \/ CompleteRow(g, s) \/ CompleteProgress(g, s) \/ CancelDone(g, s) \/ FenceGeneration(g, s)
           \/ CleanupWav(g, s) \/ CleanupContext(g, s)
  <2>1. UNCHANGED local
    BY <1>9
    DEF CheckSuccessStale, CheckFailureStale, MarkFailedProgress, CompleteRow, CompleteProgress,
        CancelDone, FenceGeneration, CleanupWav, CleanupContext
  <2> QED
    BY <1>1, <1>3, <1>5, <1>9, <2>1
    DEF CheckSuccessStale, CheckFailureStale, MarkFailedProgress, CompleteRow, CompleteProgress,
        CancelDone, FenceGeneration, CleanupWav, CleanupContext
<1>10. CASE ReadJobOnSuccess(g, s) \/ ReadJobOnFailure(g, s)
  <2>1. local'[g][s] = [local[g][s] EXCEPT !.job = [status |-> row.status, result_path |-> row.result_path]]
    BY <1>2, <1>10 DEF ReadJobOnSuccess, ReadJobOnFailure
  <2>2. local'[g][s].raising = local[g][s].raising
    BY <1>4, <2>1 DEF Locals
  <2> QED BY <1>1, <1>3, <1>10, <2>2 DEF ReadJobOnSuccess, ReadJobOnFailure
<1>11. CASE ReadContextOnSuccess(g, s) \/ ReadContextOnFailure(g, s)
  <2>1. local'[g][s] = [local[g][s] EXCEPT !.context = Loaded({"audio_path", "transcript_result"})]
    BY <1>2, <1>11 DEF ReadContextOnSuccess, ReadContextOnFailure
  <2>2. local'[g][s].raising = local[g][s].raising /\ local'[g][s].failing = local[g][s].failing
    BY <1>4, <2>1 DEF Locals
  <2>3. UNCHANGED context
    BY <1>11 DEF ReadContextOnSuccess, ReadContextOnFailure, redisVars
  <2>4. ReadContextOnSuccess(g, s) => pc'[g][s] = IF Transcribed # 0 THEN "save" ELSE "missing_row"
    BY <1>1 DEF ReadContextOnSuccess, Transcribed
  <2>5. ReadContextOnFailure(g, s) => pc'[g][s] = IF Salvages(s) THEN "save" ELSE "ff_load_ids"
    BY <1>1 DEF ReadContextOnFailure
  <2>6. HasLlm => (Salvages(s) <=> Transcribed # 0)
    BY DEF Salvages, Transcribed, FinalStage
  <2>7. ReadContextOnSuccess(g, s) => pc[g][s] = "fs_context"
    BY DEF ReadContextOnSuccess
  <2>8. ReadContextOnFailure(g, s) => pc[g][s] = "ff_context"
    BY DEF ReadContextOnFailure
  <2> QED BY <1>3, <1>4, <1>11, <2>2, <2>3, <2>4, <2>5, <2>6, <2>7, <2>8 DEF Transcribed
<1>12. CASE MarkFailedRow(g, s)
  <2>1. local'[g][s] = [local[g][s] EXCEPT !.job = [local[g][s].job EXCEPT !.status = "failed"]]
    BY <1>2, <1>12 DEF MarkFailedRow
  <2>2. local'[g][s].raising = local[g][s].raising /\ local'[g][s].failing = local[g][s].failing
    BY <1>4, <2>1 DEF Locals
  <2> QED BY <1>1, <1>3, <1>5, <1>12, <2>2 DEF MarkFailedRow
<1>13. CASE SaveResult(g, s)
  <2>1. PICK job : local'[g][s] = [local[g][s] EXCEPT !.job = job]
    BY <1>2, <1>13 DEF SaveResult
  <2>2. local'[g][s].raising = local[g][s].raising /\ local'[g][s].failing = local[g][s].failing
    BY <1>4, <2>1 DEF Locals
  <2> QED BY <1>1, <1>3, <1>13, <2>2 DEF SaveResult
<1>14. CASE LoadSubjobIds(g, s) \/ CancelSubjob(g, s)
  <2>1. pc'[g][s] = "ff_cancel" /\ pc[g][s] \in Late \cup {"ff_load_ids"}
    BY <1>1, <1>14 DEF LoadSubjobIds, CancelSubjob
  <2> QED BY <1>3, <1>5, <2>1
<1>15. CASE ClearSubjobSet(g, s)
  BY <1>1, <1>15 DEF ClearSubjobSet, AfterCompletion
<1>16. CASE CallbackRaises(g, s)
  <2>1. /\ pc'[g][s] = OnException(g, s)
        /\ local'[g][s] = [local[g][s] EXCEPT
                             !.failing = local[g][s].failing \/ OnException(g, s) = "ff_stale",
                             !.raising = local[g][s].raising \/ pc[g][s] = "fail_row"]
    BY <1>1, <1>2, <1>16 DEF CallbackRaises
  <2>2. /\ local'[g][s].failing = (local[g][s].failing \/ OnException(g, s) = "ff_stale")
        /\ local'[g][s].raising = (local[g][s].raising \/ pc[g][s] = "fail_row")
    BY <1>4, <2>1 DEF Locals
  <2>3. MaxStoreFaults # 0
    BY <1>16 DEF CallbackRaises, TypeOK, BudgetType
  <2>4. pc[g][s] \in CallbackPcs \ {"completion_wav", "ff_wav", "ff_cancel", "ack"}
    BY <1>16 DEF CallbackRaises
  <2>5. /\ OnException(g, s) \in {"ff_stale", "missing_context", "fail_row", "completion_wav", "ff_bump", "ff_wav", "ack"}
        /\ OnException(g, s) = "missing_context" => pc[g][s] = "missing_progress"
        /\ OnException(g, s) = "fail_row" => pc[g][s] \in {"save", "complete_row"}
        /\ OnException(g, s) \in {"ff_bump", "ff_wav"} => pc[g][s] \in {"ff_load_ids", "ff_row", "ff_progress", "ff_bump"}
    BY <2>4 DEF OnException, AfterCompletion
  <2> QED BY <1>3, <1>5, <2>1, <2>2, <2>3, <2>5
<1> QED
  BY <1>6, <1>7, <1>8, <1>9, <1>10, <1>11, <1>12, <1>13, <1>14, <1>15, <1>16
  DEF ProcessStep, RunStage, Callback

LEMMA PathProcess ==
    ASSUME TypeOK, InOrder, CallbackKinds, FinalPath, NEW g \in Generations, NEW s \in Stages,
           ProcessStep(g, s)
    PROVE  FinalPath'
<1> SUFFICES ASSUME NEW h \in Generations
             PROVE  LET at == pc'[h][FinalStage]
                        l == local'[h][FinalStage] IN
                    /\ at \in SuccessPcs => ~l.raising
                    /\ at \in {"save", "complete_row", "fail_row", "fail_progress", "complete_progress"} =>
                           (l.raising => l.failing)
                    /\ MaxStoreFaults = 0 => at \notin {"fail_row", "fail_progress"}
                    /\ HasLlm /\ at \in MissingPcs \cup (FailurePcs \ {"ff_stale", "ff_job", "ff_context"}) =>
                           Transcribed' # h
  BY DEF FinalPath
<1>1. CASE h = g /\ s = FinalStage
  BY <1>1, PathStep
<1>2. CASE ~(h = g /\ s = FinalStage)
  <2>1. UNCHANGED <<pc[h][FinalStage], local[h][FinalStage]>>
    BY <1>2, OneProcess, Dag
  <2>2. HasLlm /\ pc[h][FinalStage] \in MissingPcs \cup (FailurePcs \ {"ff_stale", "ff_job", "ff_context"}) =>
            Transcribed' # h
    BY LateWrites DEF FinalPath, StagePcs, MissingPcs, FailurePcs
  <2> QED BY <2>1, <2>2 DEF FinalPath
<1> QED BY <1>1, <1>2

\* An attempt that is past its last stage stays so.
LEMMA PastProcess ==
    ASSUME TypeOK, InOrder, CallbackKinds, FinalPath, NEW g \in Generations, NEW s \in Stages,
           ProcessStep(g, s), NEW h \in Generations, Past(h)
    PROVE  Past(h)'
<1>1. pc[h][FinalStage] \notin {"idle"} \cup StagePcs \cup SuccessPcs
  BY DEF Past
<1>2. Transcribed' = h => Transcribed = h
  BY <1>1, LateWrites
<1>3. CASE ~(h = g /\ s = FinalStage)
  <2>1. UNCHANGED <<pc[h][FinalStage], local[h][FinalStage]>>
    BY <1>3, OneProcess, Dag
  <2> QED BY <1>2, <2>1 DEF Past
<1>4. CASE h = g /\ s = FinalStage
  <2> DEFINE at == pc[g][s]
             l == local[g][s]
  <2>1. \A label : Goto(g, s, label) => pc'[g][s] = label
    BY DEF TypeOK, PerSubjob, Goto
  <2>2. \A m : Assign(g, s, m) => local'[g][s] = m
    BY DEF TypeOK, PerSubjob, Assign
  <2>3. /\ at \in {"save", "complete_row", "fail_row"} => l.failing
        /\ at \in CompletionPcs => (l.raising => l.failing)
        /\ at \in FailurePcs => l.failing
        /\ HasLlm /\ Transcribed = g =>
              MaxCrashes = 0 /\ at \notin {"dead", "ff_stale", "ff_job", "ff_context"} \cup MissingPcs
    BY <1>4 DEF Past, CallbackKinds, FinalPath
  <2>4. l \in Locals /\ FreshLocal \in Locals
    BY LocalType, FreshLocalType
  <2> DEFINE Goal ==
        /\ pc'[g][s] \notin {"idle"} \cup StagePcs \cup SuccessPcs
        /\ pc'[g][s] \in {"save", "complete_row", "fail_row"} => local'[g][s].failing
        /\ pc'[g][s] \in CompletionPcs => (local'[g][s].raising => local'[g][s].failing)
        /\ HasLlm /\ Transcribed = g =>
              MaxCrashes = 0 /\ pc'[g][s] \notin {"dead", "ff_stale", "ff_job", "ff_context"}
  <2> USE DEF StagePcs, SuccessPcs, MissingPcs, CompletionPcs, FailurePcs, CallbackPcs, RunningPcs, Step
  <2>5. CASE \/ StartSubjob(g, s) \/ Report(g, s) \/ ReportDegraded(g, s) \/ StageReturns(g, s)
             \/ LoadJob(g, s) \/ MarkProcessing(g, s) \/ LoadContext(g, s) \/ SeedFromJob(g, s)
             \/ Mirror(g, s) \/ MirrorDegraded(g, s) \/ PersistOutputs(g, s) \/ StageRaises(g, s)
             \/ CheckSuccessStale(g, s) \/ ReadJobOnSuccess(g, s) \/ ReadContextOnSuccess(g, s)
    BY <1>1, <1>4, <2>5
    DEF StartSubjob, Report, ReportDegraded, StageReturns, LoadJob, MarkProcessing, LoadContext,
        SeedFromJob, Mirror, MirrorDegraded, PersistOutputs, StageRaises, CheckSuccessStale,
        ReadJobOnSuccess, ReadContextOnSuccess
  <2>6. CASE KillHorse(g, s) \/ AcknowledgeSubjob(g, s)
    <3>1. pc'[g][s] = "done"
      BY <2>1, <2>6 DEF KillHorse, AcknowledgeSubjob
    <3>2. Goal
      BY <2>3, <3>1
    <3> QED BY <1>2, <1>4, <3>2 DEF Past
  <2>7. CASE Crash(g, s)
    <3>1. pc'[g][s] = "dead" /\ MaxCrashes # 0
      BY <2>1, <2>7 DEF Crash, TypeOK, BudgetType
    <3>2. Goal
      BY <2>3, <3>1
    <3> QED BY <1>2, <1>4, <3>2 DEF Past
  <2>8. CASE Abandon(g, s)
    <3>1. pc'[g][s] = "ff_stale" /\ pc[g][s] = "dead"
      BY <2>1, <2>8 DEF Abandon
    <3>2. Goal
      BY <2>3, <3>1
    <3> QED BY <1>2, <1>4, <3>2 DEF Past
  <2>9. CASE \/ CheckFailureStale(g, s) \/ MarkFailedProgress(g, s)
             \/ CompleteRow(g, s) \/ CompleteProgress(g, s) \/ CancelDone(g, s) \/ FenceGeneration(g, s)
             \/ CleanupWav(g, s) \/ CleanupContext(g, s)
    <3>1. UNCHANGED local
      BY <2>9
      DEF CheckFailureStale, MarkFailedProgress, CompleteRow, CompleteProgress, CancelDone,
          FenceGeneration, CleanupWav, CleanupContext
    <3>2. Goal
      BY <2>1, <2>3, <2>9, <3>1
      DEF CheckFailureStale, MarkFailedProgress, CompleteRow, CompleteProgress, CancelDone,
          FenceGeneration, CleanupWav, CleanupContext
    <3> QED BY <1>2, <1>4, <3>2 DEF Past
  <2>10. CASE ReadJobOnFailure(g, s) \/ LoadSubjobIds(g, s)
    <3>1. Goal
      BY <2>1, <2>3, <2>10 DEF ReadJobOnFailure, LoadSubjobIds
    <3> QED BY <1>2, <1>4, <3>1 DEF Past
  <2>11. CASE ReadContextOnFailure(g, s)
    <3>1. local'[g][s] = [local[g][s] EXCEPT !.context = Loaded({"audio_path", "transcript_result"})]
      BY <2>2, <2>11 DEF ReadContextOnFailure
    <3>2. local'[g][s].failing = l.failing
      BY <2>4, <3>1 DEF Locals
    <3>3. Goal
      BY <2>1, <2>3, <2>11, <3>2 DEF ReadContextOnFailure
    <3> QED BY <1>2, <1>4, <3>3 DEF Past
  <2>12. CASE MarkFailedRow(g, s) \/ SaveResult(g, s)
    <3>1. PICK job : local'[g][s] = [local[g][s] EXCEPT !.job = job]
      BY <2>2, <2>12 DEF MarkFailedRow, SaveResult
    <3>2. local'[g][s].failing = l.failing /\ local'[g][s].raising = l.raising
      BY <2>4, <3>1 DEF Locals
    <3>3. Goal
      BY <2>1, <2>3, <2>12, <3>2 DEF MarkFailedRow, SaveResult
    <3> QED BY <1>2, <1>4, <3>3 DEF Past
  <2>13. CASE CancelSubjob(g, s)
    <3>1. Goal
      BY <2>3, <2>13 DEF CancelSubjob
    <3> QED BY <1>2, <1>4, <3>1 DEF Past
  <2>14. CASE ClearSubjobSet(g, s)
    <3>1. Goal
      BY <2>1, <2>3, <2>14 DEF ClearSubjobSet, AfterCompletion
    <3> QED BY <1>2, <1>4, <3>1 DEF Past
  <2>15. CASE CallbackRaises(g, s)
    <3>1. /\ pc'[g][s] = OnException(g, s)
          /\ local'[g][s] = [local[g][s] EXCEPT
                               !.failing = local[g][s].failing \/ OnException(g, s) = "ff_stale",
                               !.raising = local[g][s].raising \/ pc[g][s] = "fail_row"]
      BY <2>1, <2>2, <2>15 DEF CallbackRaises
    <3>2. /\ local'[g][s].failing = (l.failing \/ OnException(g, s) = "ff_stale")
          /\ local'[g][s].raising = (l.raising \/ at = "fail_row")
      BY <2>4, <3>1 DEF Locals
    <3>3. at \in CallbackPcs \ ({"completion_wav", "ff_wav", "ff_cancel", "ack"} \cup SuccessPcs)
      BY <1>1, <1>4, <2>15 DEF CallbackRaises
    <3>4. /\ OnException(g, s) \in {"ff_stale", "missing_context", "fail_row", "completion_wav", "ff_bump", "ff_wav", "ack"}
          /\ OnException(g, s) = "ff_stale" => at \in MissingPcs \/ (l.raising /\ ~l.failing /\ at \in CompletionPcs)
          /\ OnException(g, s) = "fail_row" => at \in {"save", "complete_row"}
          /\ OnException(g, s) = "completion_wav" => at \in {"complete_progress", "fail_row", "fail_progress"}
      BY <3>3 DEF OnException, AfterCompletion
    <3>5. Goal
      BY <2>3, <3>1, <3>2, <3>4
    <3> QED BY <1>2, <1>4, <3>5 DEF Past
  <2> QED
    BY <2>5, <2>6, <2>7, <2>8, <2>9, <2>10, <2>11, <2>12, <2>13, <2>14, <2>15
    DEF ProcessStep, RunStage, Callback
<1> QED BY <1>3, <1>4

\* So does one whose last stage waits behind a stage that will not finish.
LEMMA BlockedProcess ==
    ASSUME TypeOK, ContextInv, InOrder, CallbackKinds, NEW g \in Generations, NEW s \in Stages,
           ProcessStep(g, s), NEW h \in Generations, Blocked(h)
    PROVE  Blocked(h)'
<1>1. PICK u \in Stages : Stuck(h, u) /\ \A t \in Stages : u \in DependsOn(t) => NotBegun(h, t)
  BY DEF Blocked
<1>2. /\ pc[h][u] \in FailurePcs \cup {"dead", "done"} \/ (pc[h][u] = "ack" /\ local[h][u].failing)
      /\ u # FinalStage /\ subjob[h][u] # "finished"
  BY <1>1 DEF Stuck
<1>3. pc'[h][u] \in FailurePcs \cup {"dead", "done"} \/ (pc'[h][u] = "ack" /\ local'[h][u].failing)
  <2>1. CASE <<h, u>> = <<g, s>>
    BY <1>2, <2>1, Flow, Onward
  <2>2. CASE <<h, u>> # <<g, s>>
    BY <1>2, <2>2, OneProcess
  <2> QED BY <2>1, <2>2
<1>4. pc[h][u] # "idle"
  BY <1>2 DEF FailurePcs
<1>5. subjob'[h][u] # "finished"
  <2>1. CASE AcknowledgeSubjob(g, s) /\ g = h /\ s = u
    <3>1. local[g][s].failing
      BY <1>2, <2>1 DEF AcknowledgeSubjob, Step, FailurePcs
    <3> QED BY <2>1, <3>1, Dag DEF AcknowledgeSubjob, TypeOK, PerSubjob
  <2> QED BY <1>2, <1>4, <2>1, Statuses, Onward DEF StartSubjob
<1>6. ASSUME NEW t \in Stages, u \in DependsOn(t) PROVE NotBegun(h, t)'
  <2>1. pc[h][t] = "idle" /\ subjob[h][t] \notin {"queued", "started", "finished"}
    BY <1>1, <1>6 DEF NotBegun
  <2>2. ~(g = h /\ s = t)
    BY <2>1, Onward DEF StartSubjob
  <2>3. pc'[h][t] = "idle"
    BY <2>1, <2>2, OneProcess
  <2>4. ~(/\ AcknowledgeSubjob(g, s) /\ h = g /\ ~local[g][s].failing
          /\ \A d \in DependsOn(t) : d = s \/ subjob[g][d] = "finished")
    BY <1>2, <1>6 DEF AcknowledgeSubjob, Step, FailurePcs
  <2>5. subjob'[h][t] \in {subjob[h][t], "canceled"}
    BY <2>2, <2>4, Statuses
  <2> QED BY <2>1, <2>3, <2>5 DEF NotBegun
<1> QED BY <1>2, <1>3, <1>5, <1>6 DEF Blocked, Stuck

LEMMA HopelessProcess ==
    ASSUME TypeOK, ContextInv, InOrder, CallbackKinds, FinalPath, NEW g \in Generations,
           NEW s \in Stages, ProcessStep(g, s), NEW h \in Generations, Hopeless(h)
    PROVE  Hopeless(h)'
BY PastProcess, BlockedProcess DEF Hopeless

\* A callback that marks the job failed leaves its attempt without a future.
LEMMA FailingIsHopeless ==
    ASSUME AtMostOneRetry, TypeOK, ContextInv, InOrder, CallbackKinds, FinalPath,
           NEW g \in Generations, NEW s \in Stages, MarkFailedRow(g, s)
    PROVE  Hopeless(g)'
<1>1. ProcessStep(g, s) /\ UNCHANGED <<context, subjob>>
  BY DEF ProcessStep, Callback, MarkFailedRow, redisVars
<1>2. \A label : Goto(g, s, label) => pc'[g][s] = label
  BY DEF TypeOK, PerSubjob, Goto
<1>3. \/ pc[g][s] = "missing_row" /\ pc'[g][s] = "missing_progress"
      \/ pc[g][s] = "fail_row" /\ pc'[g][s] = "fail_progress"
      \/ pc[g][s] = "ff_row" /\ pc'[g][s] = "ff_progress"
  BY <1>2 DEF MarkFailedRow, Step
<1>4. CASE s = FinalStage
  <2>1. local'[g][s] = [local[g][s] EXCEPT !.job = [local[g][s].job EXCEPT !.status = "failed"]]
    BY DEF MarkFailedRow, TypeOK, PerSubjob, Assign
  <2>2. local[g][s] \in Locals
    BY LocalType
  <2>3. local'[g][s].raising = local[g][s].raising /\ local'[g][s].failing = local[g][s].failing
    BY <2>1, <2>2 DEF Locals
  <2>4. HasLlm /\ Transcribed = g => MaxCrashes = 0
    BY <1>3, <1>4 DEF FinalPath, MissingPcs, FailurePcs, AtMostOneRetry
  <2>5. pc[g][s] = "fail_row" => (local[g][s].raising => local[g][s].failing)
    BY <1>4 DEF FinalPath
  <2> QED
    BY <1>1, <1>3, <1>4, <2>3, <2>4, <2>5
    DEF Hopeless, Past, StagePcs, SuccessPcs, CompletionPcs, Transcribed
<1>5. CASE s # FinalStage
  <2>1. pc[g][s] = "ff_row" /\ pc'[g][s] = "ff_progress"
    BY <1>3, <1>5 DEF CallbackKinds, MissingPcs, CompletionPcs
  <2>2. subjob[g][s] # "finished"
    BY <2>1 DEF InOrder
  <2>3. ASSUME NEW t \in Stages, s \in DependsOn(t) PROVE NotBegun(g, t)'
    <3>1. NotBegun(g, t)
      BY <2>1, <2>3 DEF InOrder, NotBegun
    <3>2. t # s
      BY <2>3, Dag
    <3> QED BY <1>1, <3>1, <3>2, OneProcess DEF NotBegun
  <2> QED BY <1>1, <1>5, <2>1, <2>2, <2>3 DEF Hopeless, Blocked, Stuck, FailurePcs
<1> QED BY <1>4, <1>5

LEMMA Saving ==
    ASSUME TypeOK, NEW g \in Generations, NEW s \in Stages, SaveResult(g, s)
    PROVE  /\ local'[g][s].job.status = "completed"
           /\ local'[g][s].job.result_path = local[g][s].context["transcript_result"]
           /\ transcript' = local[g][s].context["transcript_result"]
           /\ pc[g][s] = "save" /\ pc'[g][s] = "complete_row"
<1>1. local'[g][s] = [local[g][s] EXCEPT
                        !.job = [status |-> "completed",
                                 result_path |-> local[g][s].context["transcript_result"]]]
  BY DEF SaveResult, Assign, TypeOK, PerSubjob
<1>2. local'[g][s].job = [status |-> "completed", result_path |-> local[g][s].context["transcript_result"]]
  BY <1>1, LocalType DEF Locals
<1> QED BY <1>2 DEF SaveResult, Step, Goto, TypeOK, PerSubjob

\* The work-horse that ends forgets its locals.
LEMMA Ends ==
    ASSUME TypeOK, NEW g \in Generations, NEW s \in Stages, ProcessStep(g, s),
           pc'[g][s] \in {"dead", "done"}
    PROVE  local'[g][s].job.status = "queued"
<1>1. \A label : Goto(g, s, label) => pc'[g][s] = label
  BY DEF TypeOK, PerSubjob, Goto
<1>2. CASE Crash(g, s) \/ KillHorse(g, s) \/ AcknowledgeSubjob(g, s)
  BY <1>2 DEF Crash, KillHorse, AcknowledgeSubjob, Assign, TypeOK, PerSubjob, FreshLocal
<1>3. CASE \/ StartSubjob(g, s) \/ RunStage(g, s) \/ Report(g, s) \/ ReportDegraded(g, s)
           \/ StageReturns(g, s) \/ StageRaises(g, s) \/ Abandon(g, s)
  BY <1>1, <1>3
  DEF StartSubjob, RunStage, LoadJob, MarkProcessing, LoadContext, SeedFromJob, Mirror, MirrorDegraded,
      PersistOutputs, Report, ReportDegraded, StageReturns, StageRaises, Abandon
<1>4. CASE Callback(g, s)
  BY <1>1, <1>4
  DEF Callback, Step, CheckSuccessStale, ReadJobOnSuccess, ReadContextOnSuccess, MarkFailedRow,
      MarkFailedProgress, SaveResult, CompleteRow, CompleteProgress, CheckFailureStale,
      ReadJobOnFailure, ReadContextOnFailure, LoadSubjobIds, CancelSubjob, CancelDone,
      FenceGeneration, CleanupWav, CleanupContext, ClearSubjobSet, AfterCompletion
<1>5. CASE CallbackRaises(g, s)
  BY <1>1, <1>5 DEF CallbackRaises, OnException, AfterCompletion, CallbackPcs, SuccessPcs, MissingPcs, CompletionPcs, FailurePcs
<1> QED BY <1>2, <1>3, <1>4, <1>5 DEF ProcessStep

\* What an attempt is once it has sub-jobs.
LEMMA LaunchedStays ==
    ASSUME TypeOK, ContextInv, InOrder, NEW g \in Generations, NEW s \in Stages, ProcessStep(g, s)
    PROVE  /\ Launched(g)
           /\ \A h \in Generations : Launched(h)' <=> Launched(h)
<1>1. Launched(g)
  BY Onward DEF StartSubjob, Launched, ContextInv, RunningIsLaunched
<1>2. ASSUME NEW h \in Generations, NEW t \in Stages, subjob[h][t] # "none"
      PROVE  subjob'[h][t] # "none"
  <2>1. StartSubjob(g, s) => subjob'[g][s] = "started"
    BY DEF StartSubjob, TypeOK, PerSubjob
  <2>2. AcknowledgeSubjob(g, s) => subjob'[g][s] \in {"queued", "failed", "finished"}
    BY DEF AcknowledgeSubjob, TypeOK, PerSubjob
  <2> QED BY <1>2, <2>1, <2>2, Statuses
<1> QED BY <1>1, <1>2, Statuses DEF Launched

LEMMA LullBegins ==
    ASSUME TypeOK, CallbackKinds, NEW g \in Generations, NEW s \in Stages, ProcessStep(g, s), ~Lull, Lull'
    PROVE  MarkFailedRow(g, s) /\ enqueuer.attempts = 1
<1>1. enqueuer' = enqueuer
  BY OneProcess
<1>2. enqueuer.attempts = 1 /\ row.status # "failed"
  BY <1>1 DEF Lull, RetryResets, FirstFailed
<1>3. \A h \in Generations, t \in Stages : local[h][t].job.status # "failed"
  BY <1>2 DEF Lull, FirstFailed
<1>4. CASE row'.status = "failed"
  BY <1>2, <1>3, <1>4, Effects DEF RowEffect
<1>5. ASSUME NEW h \in Generations, NEW t \in Stages, local'[h][t].job.status = "failed"
      PROVE  MarkFailedRow(g, s)
  <2>1. h = g /\ t = s
    BY <1>3, <1>5, OneProcess
  <2>2. local'[g][s].job.status = "failed"
    BY <1>5, <2>1
  <2>3. SaveResult(g, s) => local'[g][s].job.status = "completed"
    BY Saving
  <2> QED BY <1>2, <1>3, <2>2, <2>3, Effects DEF JobEffect
<1> QED BY <1>1, <1>2, <1>4, <1>5 DEF Lull, RetryResets, FirstFailed

LEMMA AttemptProcess ==
    ASSUME AtMostOneRetry, TypeOK, ContextInv, InOrder, CompletionInv,
           NEW g \in Generations, NEW s \in Stages, ProcessStep(g, s)
    PROVE  OneAttempt' /\ HashedOwn' /\ SupersededIsHopeless'
<1>1. enqueuer' = enqueuer /\ (RetryResets' <=> RetryResets)
  BY OneProcess DEF RetryResets
<1>2. Launched(g) /\ \A h \in Generations : Launched(h)' <=> Launched(h)
  BY LaunchedStays
<1>3. OneAttempt'
  BY <1>1, <1>2 DEF OneAttempt, CompletionInv
<1>4. HashedOwn'
  <2>1. g \in Nat \ {0} /\ generation \in Nat /\ enqueuer.generation \in Nat
    BY PipelineAssumption DEF TypeOK, Source, EnqueuerType, Generations, PipelineAssumption
  <2>2. g <= enqueuer.generation /\ enqueuer.generation <= generation
    BY <1>2 DEF CompletionInv, OneAttempt, ContextInv, CounterAhead
  <2>3. OwnsContext(g) => g = enqueuer.generation
    BY <2>1, <2>2 DEF OwnsContext
  <2>4. /\ Transcribed # 0 => Transcribed \in Generations /\ Launched(Transcribed)
        /\ ~RetryResets => Transcribed \in {0, enqueuer.generation}
    BY DEF CompletionInv, HashedOwn
  <2>5. Transcribed' \in {Transcribed, 0} \/ (OwnsContext(g) /\ Transcribed' = g)
    BY Effects DEF CompletionInv, HashEffect
  <2>6. Transcribed' # 0 => Transcribed' \in Generations /\ Launched(Transcribed')
    BY <1>2, <2>4, <2>5
  <2>7. \A h \in Generations : Launched(h) => \E t \in Stages : subjob'[h][t] # "none"
    BY <1>2 DEF Launched
  <2> QED BY <1>1, <2>3, <2>4, <2>5, <2>6, <2>7 DEF HashedOwn, Launched
<1>5. SupersededIsHopeless'
  <2> SUFFICES ASSUME NEW h \in Generations, Launched(h), h # enqueuer.generation \/ Lull'
               PROVE  Hopeless(h)'
    BY <1>1, <1>2 DEF SupersededIsHopeless
  <2>1. CASE h # enqueuer.generation \/ Lull
    BY <2>1, HopelessProcess DEF CompletionInv, SupersededIsHopeless
  <2>2. CASE ~Lull /\ Lull'
    <3>1. MarkFailedRow(g, s) /\ enqueuer.attempts = 1
      BY <2>2, LullBegins DEF CompletionInv
    <3>2. h = g
      BY <1>2, <3>1 DEF CompletionInv, OneAttempt
    <3> QED BY <3>1, <3>2, FailingIsHopeless DEF CompletionInv
  <2> QED BY <2>1, <2>2
<1> QED BY <1>3, <1>4, <1>5

LEMMA QuietProcess ==
    ASSUME AtMostOneRetry, TypeOK, ContextInv, InOrder, CompletionInv,
           NEW g \in Generations, NEW s \in Stages, ProcessStep(g, s)
    PROVE  LullIsQuiet'
<1> SUFFICES ASSUME Lull'
             PROVE  /\ row'.status # "completed"
                    /\ \A h \in Generations, t \in Stages :
                          pc'[h][t] \notin {"save", "complete_row"} /\ local'[h][t].job.status # "completed"
  BY DEF LullIsQuiet
<1>1. \A h \in Generations, t \in Stages : pc[h][t] # "idle" => Launched(h)
  BY DEF ContextInv, RunningIsLaunched, Launched
<1>2. FinalStage \in Stages /\ Launched(g)
  BY Dag, LaunchedStays
<1>3. CASE ~Lull
  <2>1. MarkFailedRow(g, s) /\ enqueuer.attempts = 1
    BY <1>3, LullBegins DEF CompletionInv
  <2>2. \A h \in Generations : Launched(h) => h = g
    BY <1>2, <2>1 DEF CompletionInv, OneAttempt
  <2>3. s # FinalStage => pc[g][FinalStage] = "idle"
    BY LastComesLast, Onward
  <2>4. /\ row'.status = "failed" /\ local'[g][s].job.status = "failed"
        /\ pc'[g][s] \in {"missing_progress", "fail_progress", "ff_progress"}
    <3>1. local'[g][s] = [local[g][s] EXCEPT !.job = [local[g][s].job EXCEPT !.status = "failed"]]
      BY <2>1 DEF MarkFailedRow, Assign, TypeOK, PerSubjob
    <3>2. row' = [status |-> "failed", result_path |-> local[g][s].job.result_path, stale |-> FALSE]
      BY <2>1, LocalType DEF MarkFailedRow, UpdateJob, Jobs
    <3>3. pc'[g][s] \in {"missing_progress", "fail_progress", "ff_progress"}
      BY <2>1 DEF MarkFailedRow, Step, Goto, TypeOK, PerSubjob
    <3>4. local'[g][s].job.status = "failed"
      BY <3>1, LocalType DEF Locals, Jobs
    <3> QED BY <3>2, <3>3, <3>4
  <2>5. ASSUME NEW h \in Generations, NEW t \in Stages, <<h, t>> # <<g, s>>
        PROVE  pc'[h][t] \notin {"save", "complete_row"} /\ local'[h][t].job.status # "completed"
    <3>1. pc[h][t] \in {"save", "complete_row"} => t = FinalStage /\ h = g
      BY <1>1, <2>2 DEF CompletionInv, CallbackKinds, CompletionPcs
    <3>2. local[h][t].job.status = "completed" => t = FinalStage /\ h = g /\ pc[h][t] # "idle"
      BY <1>1, <2>1, <2>2
      DEF CompletionInv, FirstCompletes, CallbackPcs, SuccessPcs, MissingPcs, CompletionPcs, FailurePcs
    <3> QED BY <2>3, <2>5, <3>1, <3>2, OneProcess
  <2> QED BY <2>4, <2>5
<1>4. CASE Lull
  <2>1. /\ row.status # "completed"
        /\ \A h \in Generations, t \in Stages :
              pc[h][t] \notin {"save", "complete_row"} /\ local[h][t].job.status # "completed"
    BY <1>4 DEF CompletionInv, LullIsQuiet
  <2>2. ~SaveResult(g, s)
    BY <2>1 DEF SaveResult, Step
  <2>3. Hopeless(g)
    BY <1>2, <1>4 DEF CompletionInv, SupersededIsHopeless
  <2>4. Transcribed # 0 => Transcribed = g
    BY <1>2, <1>4 DEF CompletionInv, HashedOwn, OneAttempt, Lull, FirstFailed
  <2>5. ASSUME pc'[g][s] = "save" PROVE FALSE
    <3>1. /\ ReadContextOnSuccess(g, s) \/ ReadContextOnFailure(g, s)
          /\ Transcribed = g /\ s = FinalStage
      BY <2>4, <2>5, Effects DEF CompletionInv, SaveEffect
    <3>2. pc[g][FinalStage] \in {"fs_context", "ff_context"}
      BY <3>1 DEF ReadContextOnSuccess, ReadContextOnFailure, Step
    <3>3. Past(g)
      BY <2>3, <3>2, BlockedIdle DEF Hopeless
    <3>4. ReadContextOnFailure(g, s) => HasLlm
      <4>1. ReadContextOnFailure(g, s) => Salvages(s)
        BY <2>5 DEF ReadContextOnFailure, Step, Goto, TypeOK, PerSubjob
      <4> QED BY <4>1, BelowTheLast DEF Salvages
    <3> QED
      BY <3>1, <3>2, <3>3, <3>4 DEF Past, SuccessPcs, ReadContextOnSuccess, Step
  <2>6. pc'[g][s] # "complete_row"
    BY <2>2, Effects DEF CompletionInv, SaveEffect
  <2>7. row'.status # "completed"
    BY <2>1, Effects DEF CompletionInv, RowEffect
  <2>8. local'[g][s].job.status # "completed"
    BY <2>1, <2>2, Effects DEF CompletionInv, JobEffect
  <2> QED BY <2>1, <2>5, <2>6, <2>7, <2>8, OneProcess
<1> QED BY <1>3, <1>4

LEMMA FirstProcess ==
    ASSUME TypeOK, ContextInv, InOrder, CompletionInv,
           NEW g \in Generations, NEW s \in Stages, ProcessStep(g, s)
    PROVE  FirstCompletes'
<1> SUFFICES ASSUME enqueuer.attempts = 1
             PROVE  /\ \A h \in Generations, t \in Stages :
                          local'[h][t].job.status = "completed" => t = FinalStage /\ pc'[h][t] \in CallbackPcs
                    /\ row'.status = "completed" =>
                          \E h \in Generations : pc'[h][FinalStage] \notin {"idle"} \cup StagePcs
  BY OneProcess DEF FirstCompletes
<1>1. /\ \A h \in Generations, t \in Stages :
            local[h][t].job.status = "completed" => t = FinalStage /\ pc[h][t] \in CallbackPcs
      /\ row.status = "completed" =>
            \E h \in Generations : pc[h][FinalStage] \notin {"idle"} \cup StagePcs
  BY DEF CompletionInv, FirstCompletes
<1>2. FinalStage \in Stages /\ Launched(g)
  BY Dag, LaunchedStays
<1>3. row.status = "completed" => pc[g][FinalStage] \notin {"idle"} \cup StagePcs
  BY <1>1, <1>2 DEF CompletionInv, OneAttempt, ContextInv, RunningIsLaunched, Launched
<1>4. ASSUME local'[g][s].job.status = "completed"
      PROVE  s = FinalStage /\ pc'[g][s] \in CallbackPcs
  <2>0. pc[g][s] \in CallbackPcs => pc'[g][s] \in CallbackPcs
    <3>1. pc[g][s] \in CallbackPcs => pc'[g][s] \in CallbackPcs \cup {"dead", "done"}
      BY Flow DEF CompletionInv
    <3>2. pc'[g][s] \notin {"dead", "done"}
      BY <1>4, Ends
    <3> QED BY <3>1, <3>2
  <2>1. CASE local'[g][s].job = local[g][s].job
    BY <1>1, <1>4, <2>0, <2>1
  <2>2. CASE /\ LoadJob(g, s) \/ ReadJobOnSuccess(g, s) \/ ReadJobOnFailure(g, s)
             /\ local'[g][s].job.status = row.status
    <3>1. pc[g][FinalStage] \notin {"idle"} \cup StagePcs
      BY <1>3, <1>4, <2>2
    <3>2. s = FinalStage
      BY <3>1, LastComesLast, Onward
    <3>3. ~LoadJob(g, s)
      BY <3>1, <3>2 DEF LoadJob, StagePcs
    <3>4. pc[g][s] \in CallbackPcs
      BY <2>2, <3>3 DEF ReadJobOnSuccess, ReadJobOnFailure, Step, CallbackPcs, SuccessPcs, FailurePcs
    <3> QED BY <2>0, <3>2, <3>4
  <2>3. CASE SaveResult(g, s)
    <3>1. pc[g][s] = "save" /\ pc'[g][s] = "complete_row"
      BY <2>3, Saving
    <3>2. s = FinalStage
      BY <3>1 DEF CompletionInv, CallbackKinds, CompletionPcs
    <3> QED BY <3>1, <3>2 DEF CompletionPcs, CallbackPcs
  <2>4. JobEffect(g, s)
    BY Effects DEF CompletionInv
  <2> QED BY <1>4, <2>1, <2>2, <2>3, <2>4 DEF JobEffect
<1>5. ASSUME row'.status = "completed"
      PROVE  \E h \in Generations : pc'[h][FinalStage] \notin {"idle"} \cup StagePcs
  <2>0. pc[g][s] \notin {"idle"} \cup StagePcs => pc'[g][s] \notin {"idle"} \cup StagePcs
    <3>1. pc'[g][s] \in StagePcs => pc[g][s] \in StagePcs \cup {"idle"}
      BY Flow DEF CompletionInv
    <3>2. pc'[g][s] # "idle"
      BY Onward
    <3> QED BY <3>1, <3>2
  <2>1. CASE row.status = "completed"
    <3>1. PICK h \in Generations : pc[h][FinalStage] \notin {"idle"} \cup StagePcs
      BY <1>1, <2>1
    <3>2. pc'[h][FinalStage] \notin {"idle"} \cup StagePcs
      BY <1>2, <2>0, <3>1, OneProcess
    <3> QED BY <3>2
  <2>2. CASE local[g][s].job.status = "completed"
    <3>1. s = FinalStage /\ pc[g][s] \in CallbackPcs
      BY <1>1, <2>2
    <3>2. pc[g][s] \notin StagePcs \cup {"idle"}
      BY <3>1 DEF CallbackPcs, SuccessPcs, MissingPcs, CompletionPcs, FailurePcs, StagePcs
    <3> QED BY <2>0, <3>1, <3>2
  <2>3. RowEffect(g, s)
    BY Effects DEF CompletionInv
  <2> QED BY <1>5, <2>1, <2>2, <2>3 DEF RowEffect
<1> QED BY <1>1, <1>4, <1>5, OneProcess

LEMMA SavesProcess ==
    ASSUME TypeOK, ContextInv, InOrder, CompletionInv, LullIsQuiet',
           NEW g \in Generations, NEW s \in Stages, ProcessStep(g, s)
    PROVE  SavesNewest'
<1> DEFINE n == enqueuer.generation
<1>1. enqueuer' = enqueuer /\ (RetryResets' <=> RetryResets)
  BY OneProcess DEF RetryResets
<1>2. /\ \A h \in Generations, t \in Stages :
            /\ pc[h][t] = "save" => local[h][t].context["transcript_result"] = n /\ n # 0
            /\ pc[h][t] = "complete_row" => local[h][t].job.status = "completed"
            /\ local[h][t].job.status = "completed" =>
                  local[h][t].job.result_path = n /\ transcript = n /\ n # 0
      /\ row.status = "completed" => transcript = n /\ row.result_path = n /\ n # 0
  BY DEF CompletionInv, SavesNewest, CompletedMeansSaved, Newest
<1>3. RowEffect(g, s) /\ JobEffect(g, s) /\ HashEffect(g, s) /\ SaveEffect(g, s)
  BY Effects DEF CompletionInv
<1>4. SaveResult(g, s) =>
          /\ transcript' = n /\ n # 0
          /\ local'[g][s].job.status = "completed" /\ local'[g][s].job.result_path = n
  BY <1>2, Saving
<1>5. transcript = n => transcript' = n
  BY <1>4, <1>3 DEF SaveEffect
<1>6. pc'[g][s] = "save" => local'[g][s].context["transcript_result"] = n /\ n # 0
  <2>1. pc'[g][s] = "save" => ~RetryResets
    BY <1>1, Dag DEF LullIsQuiet, Lull
  <2> QED BY <1>3, <2>1 DEF CompletionInv, HashedOwn, SaveEffect
<1>7. pc'[g][s] = "complete_row" => local'[g][s].job.status = "completed"
  BY <1>4, <1>3 DEF SaveEffect
<1>8. local'[g][s].job.status = "completed" =>
          local'[g][s].job.result_path = n /\ transcript' = n /\ n # 0
  BY <1>2, <1>5, <1>4, <1>3 DEF JobEffect
<1>9. row'.status = "completed" => transcript' = n /\ row'.result_path = n /\ n # 0
  BY <1>2, <1>5, <1>3 DEF RowEffect
<1>10. ASSUME NEW h \in Generations, NEW t \in Stages
      PROVE  /\ pc'[h][t] = "save" => local'[h][t].context["transcript_result"] = n /\ n # 0
             /\ pc'[h][t] = "complete_row" => local'[h][t].job.status = "completed"
             /\ local'[h][t].job.status = "completed" =>
                   local'[h][t].job.result_path = n /\ transcript' = n /\ n # 0
  BY <1>2, <1>5, <1>6, <1>7, <1>8, OneProcess
<1> QED BY <1>1, <1>9, <1>10 DEF SavesNewest, CompletedMeansSaved, Newest

LEMMA CompletionProcess ==
    ASSUME AtMostOneRetry, TypeOK, ContextInv, InOrder, CompletionInv,
           NEW g \in Generations, NEW s \in Stages, ProcessStep(g, s)
    PROVE  CompletionInv'
<1>1. CallbackKinds' /\ FinalPath'
  BY KindsProcess, PathProcess DEF CompletionInv
<1> QED
  BY <1>1, AttemptProcess, QuietProcess, FirstProcess, SavesProcess DEF CompletionInv

\* The web thread runs no process and writes no transcript.
LEMMA WebThread ==
    ASSUME AtMostOneRetry, TypeOK, CompletionInv, ClaimRetry \/ Enqueuer
    PROVE  /\ UNCHANGED <<pc, local, transcript>>
           /\ Transcribed' \in {Transcribed, 0}
           /\ ~MarkEnqueueFailed
           /\ ClaimRetry \/ UNCHANGED row
           /\ \A g \in Generations, s \in Stages :
                  \/ subjob'[g][s] = subjob[g][s]
                  \/ /\ EnqueueStage(s) /\ g = enqueuer.generation
                     /\ subjob'[g][s] = IF DependenciesMet(g, s) THEN "queued" ELSE "deferred"
<1>1. "transcript_result" \in Keys /\ "transcript_result" # "input_path" /\ "transcript_result" \notin SeedKeys
  BY DEF Keys, OutputKeys, SeedKeys
<1>2. ~MarkEnqueueFailed
  BY DEF MarkEnqueueFailed, EnqueuerAt, CompletionInv, OneAttempt
<1> USE DEF redisVars, fileVars, Transcribed
<1>3. CASE ClaimRetry \/ EnqueueBump \/ DeleteProgress \/ SeedProgress \/ RecordSubjob
  BY <1>2, <1>3 DEF ClaimRetry, EnqueueBump, DeleteProgress, SeedProgress, RecordSubjob
<1>4. CASE DeleteContext \/ SeedContext
  BY <1>1, <1>2, <1>4 DEF DeleteContext, SeedContext, NoContext
<1>5. ASSUME NEW t \in Stages, EnqueueStage(t)
      PROVE  \A g \in Generations, s \in Stages :
                 \/ subjob'[g][s] = subjob[g][s]
                 \/ /\ EnqueueStage(s) /\ g = enqueuer.generation
                    /\ subjob'[g][s] = IF DependenciesMet(g, s) THEN "queued" ELSE "deferred"
  BY <1>5 DEF EnqueueStage, TypeOK, PerSubjob
<1>6. ASSUME NEW t \in Stages, EnqueueStage(t)
      PROVE  UNCHANGED <<pc, local, transcript, row, context>>
  BY <1>6 DEF EnqueueStage
<1> QED BY <1>2, <1>3, <1>4, <1>5, <1>6 DEF Enqueuer

LEMMA HopelessWeb ==
    ASSUME AtMostOneRetry, TypeOK, ContextInv, InOrder, CompletionInv, ClaimRetry \/ Enqueuer,
           NEW h \in Generations, Hopeless(h)
    PROVE  Hopeless(h)'
<1>1. UNCHANGED <<pc, local>> /\ (Transcribed' = h => Transcribed = h)
  BY WebThread, PipelineAssumption DEF Generations, PipelineAssumption
<1>2. CASE Past(h)
  BY <1>1, <1>2 DEF Past, Hopeless
<1>3. CASE Blocked(h)
  <2>1. PICK u \in Stages : Stuck(h, u) /\ \A t \in Stages : u \in DependsOn(t) => NotBegun(h, t)
    BY <1>3 DEF Blocked
  <2>2. subjob'[h][u] # "finished"
    BY <2>1, WebThread DEF Stuck
  <2>3. ASSUME NEW t \in Stages, u \in DependsOn(t) PROVE NotBegun(h, t)'
    <3>1. pc[h][t] = "idle" /\ subjob[h][t] \notin {"queued", "started", "finished"}
      BY <2>1, <2>3 DEF NotBegun
    <3>2. ~DependenciesMet(h, t)
      BY <2>1, <2>3 DEF DependenciesMet, Stuck
    <3>3. subjob'[h][t] \in {subjob[h][t], "deferred"}
      BY <3>2, WebThread
    <3> QED BY <1>1, <3>1, <3>3 DEF NotBegun
  <2>4. Stuck(h, u)'
    BY <1>1, <2>1, <2>2 DEF Stuck
  <2> QED BY <2>3, <2>4 DEF Blocked, Hopeless
<1> QED BY <1>2, <1>3 DEF Hopeless

\* What a step that changes neither the row nor a process leaves of the invariant.
LEMMA CompletionKept ==
    ASSUME CompletionInv, UNCHANGED <<row, pc, local, transcript>>,
           enqueuer'.generation = enqueuer.generation, enqueuer'.attempts = enqueuer.attempts,
           Lull' => Lull
    PROVE  SavesNewest' /\ FirstCompletes' /\ LullIsQuiet'
BY DEF CompletionInv, SavesNewest, CompletedMeansSaved, Newest, FirstCompletes, LullIsQuiet

LEMMA CompletionWeb ==
    ASSUME AtMostOneRetry, TypeOK, ContextInv, InOrder, CompletionInv, ClaimRetry \/ Enqueuer
    PROVE  CompletionInv'
<1>1. /\ UNCHANGED <<pc, local, transcript>>
      /\ Transcribed' \in {Transcribed, 0}
      /\ \A h \in Generations : Hopeless(h) => Hopeless(h)'
      /\ \A h \in Generations : Transcribed' = h => Transcribed = h
  BY WebThread, HopelessWeb, PipelineAssumption DEF Generations, PipelineAssumption
<1>2. CallbackKinds' /\ FinalPath'
  BY <1>1, Dag DEF CompletionInv, CallbackKinds, FinalPath
<1>3. /\ enqueuer \in EnqueuerType /\ generation \in Nat /\ enqueuer.generation \in Nat
      /\ \A g \in Generations : g \in Nat \ {0}
      /\ enqueuer.generation <= generation
  BY PipelineAssumption DEF TypeOK, EnqueuerType, Source, Generations, PipelineAssumption, ContextInv, CounterAhead
<1>4. /\ enqueuer.attempts \in {1, 2} /\ enqueuer.pc # "failed"
      /\ \A g \in Generations : Launched(g) => g <= enqueuer.generation
      /\ enqueuer.attempts = 1 =>
             \A g \in Generations : Launched(g) =>
                 g = enqueuer.generation /\ enqueuer.pc \in {"enqueue", "record", "idle"}
      /\ RetryResets => \A g, h \in Generations : Launched(g) /\ Launched(h) => g = h
      /\ FirstFailed => \E g \in Generations : Launched(g)
      /\ Transcribed # 0 => Transcribed \in Generations /\ Launched(Transcribed)
      /\ ~RetryResets => Transcribed \in {0, enqueuer.generation}
      /\ \A g \in Generations : Launched(g) /\ (g # enqueuer.generation \/ Lull) => Hopeless(g)
  BY DEF CompletionInv, OneAttempt, HashedOwn, SupersededIsHopeless
<1>5. CASE ClaimRetry
  <2>1. /\ enqueuer.attempts = 1 /\ row.status = "failed"
        /\ enqueuer'.attempts = 2 /\ enqueuer'.pc = "bump" /\ enqueuer'.generation = enqueuer.generation
        /\ UNCHANGED <<context, subjob>>
        /\ row'.status = "queued"
    <3>1. enqueuer.attempts = 1
      BY <1>4, <1>5, PipelineAssumption DEF ClaimRetry, AtMostOneRetry, PipelineAssumption
    <3>2. enqueuer' = [enqueuer EXCEPT !.pc = "bump", !.attempts = enqueuer.attempts + 1]
      BY <1>5 DEF ClaimRetry
    <3>3. /\ enqueuer'.attempts = 2 /\ enqueuer'.pc = "bump"
          /\ enqueuer'.generation = enqueuer.generation
      BY <1>3, <3>1, <3>2 DEF EnqueuerType
    <3> QED BY <1>5, <3>1, <3>3 DEF ClaimRetry, redisVars
  <2>2. Lull /\ RetryResets'
    BY <2>1 DEF Lull, FirstFailed, RetryResets
  <2>3. \A h \in Generations : Launched(h)' <=> Launched(h)
    BY <2>1 DEF Launched
  <2>4. OneAttempt' /\ HashedOwn' /\ SupersededIsHopeless'
    BY <1>1, <1>4, <2>1, <2>2, <2>3
    DEF OneAttempt, HashedOwn, SupersededIsHopeless, FirstFailed, RetryResets, Transcribed, Launched
  <2>5. SavesNewest' /\ FirstCompletes' /\ LullIsQuiet'
    BY <1>1, <2>1, <2>2
    DEF CompletionInv, SavesNewest, CompletedMeansSaved, Newest, FirstCompletes, LullIsQuiet
  <2> QED BY <1>2, <2>4, <2>5 DEF CompletionInv
<1>6. CASE EnqueueBump
  <2>1. /\ enqueuer.pc = "bump" /\ enqueuer'.pc = "del_progress"
        /\ enqueuer'.attempts = enqueuer.attempts /\ enqueuer'.generation = generation + 1
        /\ UNCHANGED <<row, context, subjob>>
    BY <1>3, <1>6 DEF EnqueueBump, EnqueuerAt, EnqueuerType
  <2>2. \A h \in Generations : Launched(h)' <=> Launched(h)
    BY <2>1 DEF Launched
  <2>3. (RetryResets' <=> RetryResets) /\ (FirstFailed' <=> FirstFailed) /\ (Lull' <=> Lull)
    BY <1>1, <2>1 DEF RetryResets, FirstFailed, Lull
  <2>4. CASE enqueuer.attempts = 1
    <3>1. \A h \in Generations : ~Launched(h)
      BY <1>4, <2>1, <2>4
    <3>2. \A h \in Generations, t \in Stages : pc[h][t] = "idle"
      BY <3>1 DEF ContextInv, RunningIsLaunched, Launched
    <3>3. \A h \in Generations, t \in Stages : local[h][t].job.status # "completed"
      BY <2>4, <3>2
      DEF CompletionInv, FirstCompletes, CallbackPcs, SuccessPcs, MissingPcs, CompletionPcs, FailurePcs
    <3>4. row.status # "completed"
      BY <2>4, <3>2, Dag DEF CompletionInv, FirstCompletes
    <3>5. OneAttempt' /\ HashedOwn' /\ SupersededIsHopeless'
      BY <1>1, <1>4, <2>1, <2>2, <2>3, <2>4, <3>1
      DEF OneAttempt, HashedOwn, SupersededIsHopeless, RetryResets, Launched
    <3>6. SavesNewest' /\ FirstCompletes' /\ LullIsQuiet'
      BY <1>1, <2>1, <3>2, <3>3, <3>4
      DEF SavesNewest, CompletedMeansSaved, FirstCompletes, LullIsQuiet
    <3> QED BY <1>2, <3>5, <3>6 DEF CompletionInv
  <2>5. CASE enqueuer.attempts = 2
    <3>1. RetryResets /\ Lull
      BY <2>1, <2>5 DEF RetryResets, Lull
    <3>2. \A h \in Generations : Launched(h) => h <= generation + 1
      BY <1>3, <1>4
    <3>3. OneAttempt' /\ HashedOwn' /\ SupersededIsHopeless'
      BY <1>1, <1>4, <2>1, <2>2, <2>3, <2>5, <3>1, <3>2
      DEF OneAttempt, HashedOwn, SupersededIsHopeless, RetryResets, Launched, Transcribed
    <3>4. /\ row.status # "completed"
          /\ \A h \in Generations, t \in Stages :
                pc[h][t] \notin {"save", "complete_row"} /\ local[h][t].job.status # "completed"
      BY <3>1 DEF CompletionInv, LullIsQuiet
    <3>5. SavesNewest' /\ FirstCompletes' /\ LullIsQuiet'
      BY <1>1, <2>1, <2>5, <3>4
      DEF SavesNewest, CompletedMeansSaved, FirstCompletes, LullIsQuiet
    <3> QED BY <1>2, <3>3, <3>5 DEF CompletionInv
  <2> QED BY <1>4, <2>4, <2>5
<1>7. CASE DeleteProgress \/ SeedProgress \/ DeleteContext \/ SeedContext \/ RecordSubjob
  <2>1. /\ UNCHANGED <<row, subjob>>
        /\ enqueuer'.attempts = enqueuer.attempts /\ enqueuer'.generation = enqueuer.generation
        /\ enqueuer'.pc # "failed"
        /\ enqueuer.pc \in {"enqueue", "record", "idle"} => enqueuer'.pc \in {"enqueue", "record", "idle"}
        /\ DeleteContext \/ (RetryResets' <=> RetryResets)
        /\ DeleteContext => Transcribed' = 0
        /\ RetryResets' => RetryResets
    BY <1>3, <1>7
    DEF DeleteProgress, SeedProgress, DeleteContext, SeedContext, RecordSubjob, EnqueuerAt, EnqueuerGoto,
        EnqueuerType, RetryResets, Transcribed, NoContext, Keys, OutputKeys
  <2>2. \A h \in Generations : Launched(h)' <=> Launched(h)
    BY <2>1 DEF Launched
  <2>3. (FirstFailed' <=> FirstFailed) /\ (Lull' => Lull)
    BY <1>1, <2>1 DEF FirstFailed, Lull
  <2>4. OneAttempt' /\ HashedOwn' /\ SupersededIsHopeless'
    <3>1. OneAttempt'
      BY <1>4, <2>1, <2>2, <2>3 DEF OneAttempt
    <3>2. HashedOwn'
      BY <1>1, <1>4, <2>1, <2>2 DEF HashedOwn, Transcribed, Launched
    <3>3. SupersededIsHopeless'
      BY <1>1, <1>4, <2>1, <2>2, <2>3 DEF SupersededIsHopeless
    <3> QED BY <3>1, <3>2, <3>3
  <2> QED BY <1>1, <1>2, <2>1, <2>3, <2>4, CompletionKept DEF CompletionInv
<1>8. ASSUME NEW t \in Stages, EnqueueStage(t) PROVE CompletionInv'
  <2> DEFINE n == enqueuer.generation
  <2>1. /\ UNCHANGED <<row, context>> /\ n \in Generations
        /\ enqueuer.pc = "enqueue" /\ enqueuer'.pc = "record"
        /\ enqueuer'.attempts = enqueuer.attempts /\ enqueuer'.generation = n
    BY <1>3, <1>8 DEF EnqueueStage, EnqueuerAt, EnqueuerType, redisVars
  <2>2. \A h \in Generations : (h # n => (Launched(h)' <=> Launched(h))) /\ (Launched(h) => Launched(h)')
    BY <1>8 DEF EnqueueStage, TypeOK, PerSubjob, Launched
  <2>3. ~RetryResets /\ ~RetryResets' /\ (FirstFailed' <=> FirstFailed) /\ (Lull' => Lull) /\ (Lull => FirstFailed)
    BY <1>1, <2>1 DEF FirstFailed, Lull, RetryResets
  <2>4. OneAttempt'
    BY <1>3, <1>4, <2>1, <2>2, <2>3 DEF OneAttempt
  <2>5. HashedOwn'
    BY <1>4, <2>1, <2>2, <2>3 DEF HashedOwn, Transcribed, Launched
  <2>6. SupersededIsHopeless'
    <3>1. Lull => Launched(n)
      BY <1>4, <2>1, <2>3 DEF FirstFailed
    <3> QED BY <1>1, <1>4, <2>1, <2>2, <2>3, <3>1 DEF SupersededIsHopeless
  <2> QED BY <1>1, <1>2, <2>1, <2>3, <2>4, <2>5, <2>6, CompletionKept DEF CompletionInv
<1> QED BY <1>5, <1>6, <1>7, <1>8, WebThread DEF Enqueuer

LEMMA CompletionNext ==
    ASSUME AtMostOneRetry
    PROVE  TypeOK /\ ContextInv /\ InOrder /\ CompletionInv /\ [Next]_vars => CompletionInv'
<1> SUFFICES ASSUME TypeOK, ContextInv, InOrder, CompletionInv, [Next]_vars PROVE CompletionInv'
  OBVIOUS
<1>1. ~EnqueueRaises /\ ~EnqueuerDies /\ ~Age
  BY DEF EnqueueRaises, EnqueuerDies, Age, AtMostOneRetry, TypeOK, BudgetType
<1>2. CASE UNCHANGED vars
  BY <1>2
  DEF vars, CompletionInv, OneAttempt, HashedOwn, SupersededIsHopeless, FinalPath, CallbackKinds,
      SavesNewest, FirstCompletes, LullIsQuiet, Lull, FirstFailed, RetryResets, Launched, Transcribed,
      Hopeless, Past, Blocked, Stuck, NotBegun, CompletedMeansSaved, Newest
<1>3. CASE ClaimRetry \/ Enqueuer
  BY <1>3, CompletionWeb
<1>4. ASSUME NEW g \in Generations, NEW s \in Stages, ProcessStep(g, s) PROVE CompletionInv'
  BY <1>4, CompletionProcess
<1> QED BY <1>1, <1>2, <1>3, <1>4 DEF Next, ProcessStep, AtMostOneRetry

\* A COMPLETED row points at the transcript that is on disk, and it is the newest
\* attempt's, in every interleaving of the workers, the callbacks of both
\* attempts, zombies and crashes included, with a user who retries once: the
\* stale check, the gate of the context hash and the DAG between them leave the
\* first attempt nothing to complete the job with.
THEOREM CompletedStaysSaved == AtMostOneRetry => (Spec => []CompletedMeansSaved)
<1> SUFFICES ASSUME AtMostOneRetry PROVE Spec => []CompletedMeansSaved
  OBVIOUS
<1>1. CompletionInv => CompletedMeansSaved
  BY DEF CompletionInv, SavesNewest
<1>2. TypeOK /\ ContextInv /\ InOrder /\ CompletionInv /\ [Next]_vars => CompletionInv'
  BY CompletionNext
<1>3. Init => InOrder
  BY InputsInit DEF InputsInv
<1> QED
  BY <1>1, <1>2, <1>3, TypeInit, TypeNext, ContextInit, ContextNext, InOrderNext, CompletionInit, PTL DEF Spec
=============================================================================
