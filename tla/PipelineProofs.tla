--------------------------- MODULE PipelineProofs ---------------------------
(***************************************************************************)
(* Theorems about Pipeline, for every shape of job, every number of        *)
(* workers, reapers and attempts and every bound on the faults: its        *)
(* variables keep their types, the context hash never mixes the outputs of *)
(* two attempts (NoMixedContext), and the progress hash is the newest      *)
(* attempt's (HashOfNewestAttempt).                                        *)
(***************************************************************************)
EXTENDS PipelineProperties, TLAPS

-----------------------------------------------------------------------------
(* Lemmas on the data *)

LEMMA PerSubjobElement ==
    ASSUME NEW X, NEW f \in PerSubjob(X), NEW g \in Generations, NEW s \in Stages
    PROVE  f[g][s] \in X
BY DEF PerSubjob

LEMMA PerSubjobUpdate ==
    ASSUME NEW X, NEW f \in PerSubjob(X), NEW g \in Generations, NEW s \in Stages,
           NEW x \in X
    PROVE  [f EXCEPT ![g][s] = x] \in PerSubjob(X)
BY DEF PerSubjob

LEMMA SourceZero == 0 \in Source /\ Generations \subseteq Source
BY PipelineAssumption DEF PipelineAssumption, Source, Generations

LEMMA FreshLocalType == FreshLocal \in Locals
BY SourceZero DEF FreshLocal, Locals, Jobs, RowStatus, NoContext, Contexts

\* The labels the actions go to.
LEMMA Labels ==
    /\ StagePcs \subseteq Pcs /\ SuccessPcs \subseteq Pcs /\ MissingPcs \subseteq Pcs
    /\ CompletionPcs \subseteq Pcs /\ FailurePcs \subseteq Pcs
    /\ {"ack", "idle", "dead", "done"} \subseteq Pcs
BY DEF Pcs, RunningPcs, CallbackPcs

\* What Goto, Step and Assign keep of the type invariant.
LEMMA GotoType ==
    ASSUME TypeOK, NEW g \in Generations, NEW s \in Stages, NEW label \in Pcs,
           Goto(g, s, label)
    PROVE  pc' \in PerSubjob(Pcs)
BY PerSubjobUpdate DEF TypeOK, Goto

LEMMA AssignType ==
    ASSUME TypeOK, NEW g \in Generations, NEW s \in Stages, NEW l \in Locals,
           Assign(g, s, l)
    PROVE  local' \in PerSubjob(Locals)
BY PerSubjobUpdate DEF TypeOK, Assign

LEMMA LocalType ==
    ASSUME TypeOK, NEW g \in Generations, NEW s \in Stages
    PROVE  /\ local[g][s] \in Locals
           /\ local[g][s].job \in Jobs
           /\ local[g][s].context \in Contexts
           /\ local[g][s].todo \in SUBSET Stages
           /\ local[g][s].failing \in BOOLEAN /\ local[g][s].raising \in BOOLEAN
<1>1. local[g][s] \in Locals
  BY PerSubjobElement DEF TypeOK
<1> QED
  BY <1>1 DEF Locals

\* The row as a stage or callback reads it.
LEMMA RowSnapshotType ==
    ASSUME TypeOK
    PROVE  [status |-> row.status, result_path |-> row.result_path] \in Jobs
BY DEF TypeOK, RowType, Jobs

LEMMA LoadedType ==
    ASSUME TypeOK, NEW keys PROVE Loaded(keys) \in Contexts
BY SourceZero DEF TypeOK, Loaded, Contexts

\* The stores.
LEMMA UpdateJobType ==
    ASSUME NEW job \in Jobs, UpdateJob(job) PROVE row' \in RowType
BY DEF UpdateJob, Jobs, RowType

LEMMA WriteProgressType ==
    ASSUME TypeOK, NEW g \in Generations, NEW status \in RowStatus, WriteProgress(g, status)
    PROVE  progress' \in ProgressType
BY SourceZero DEF TypeOK, WriteProgress, ProgressType

LEMMA BumpType ==
    ASSUME TypeOK, BumpGeneration
    PROVE  generation + 1 \in Source /\ generation' = generation + 1 /\ generation' \in Source
BY PipelineAssumption DEF PipelineAssumption, TypeOK, BumpGeneration, Source

LEMMA NoContextType == NoContext \in Contexts
BY SourceZero DEF NoContext, Contexts

\* An assignment to one of the locals.
LEMMA SetJobType ==
    ASSUME TypeOK, NEW g \in Generations, NEW s \in Stages, NEW v \in Jobs,
           Assign(g, s, [local[g][s] EXCEPT !.job = v])
    PROVE  local' \in PerSubjob(Locals)
<1>1. [local[g][s] EXCEPT !.job = v] \in Locals
  BY LocalType DEF Locals
<1> QED
  BY <1>1, AssignType

LEMMA SetContextType ==
    ASSUME TypeOK, NEW g \in Generations, NEW s \in Stages, NEW v \in Contexts,
           Assign(g, s, [local[g][s] EXCEPT !.context = v])
    PROVE  local' \in PerSubjob(Locals)
<1>1. [local[g][s] EXCEPT !.context = v] \in Locals
  BY LocalType DEF Locals
<1> QED
  BY <1>1, AssignType

LEMMA SetTodoType ==
    ASSUME TypeOK, NEW g \in Generations, NEW s \in Stages, NEW v \in SUBSET Stages,
           Assign(g, s, [local[g][s] EXCEPT !.todo = v])
    PROVE  local' \in PerSubjob(Locals)
<1>1. [local[g][s] EXCEPT !.todo = v] \in Locals
  BY LocalType DEF Locals
<1> QED
  BY <1>1, AssignType

LEMMA FlagsType ==
    ASSUME NEW l \in Locals, NEW f \in BOOLEAN, NEW x \in BOOLEAN
    PROVE  [l EXCEPT !.failing = f, !.raising = x] \in Locals
BY DEF Locals

-----------------------------------------------------------------------------
(* Types *)

LEMMA TypeInit == Init => TypeOK
<1> SUFFICES ASSUME Init PROVE TypeOK
  OBVIOUS
<1>1. row \in RowType /\ progress \in ProgressType /\ context \in Contexts
  BY SourceZero, NoContextType DEF Init, RowType, RowStatus, ProgressType
<1>2. enqueuer \in EnqueuerType
  BY SourceZero, PipelineAssumption
  DEF Init, EnqueuerType, EnqueuerPcs, Stages, AllStages, PipelineAssumption
<1>3. budget \in BudgetType
  BY PipelineAssumption DEF Init, BudgetType, PipelineAssumption
<1>4. reaper \in [Reapers -> ReaperLocals]
  BY SourceZero DEF Init, ReaperLocals, ReaperPcs
<1>5. /\ subjob \in PerSubjob(SubStatus) /\ pc \in PerSubjob(Pcs)
      /\ local \in PerSubjob(Locals)
  BY FreshLocalType, Labels DEF Init, PerSubjob, SubStatus
<1> QED
  BY SourceZero, <1>1, <1>2, <1>3, <1>4, <1>5 DEF TypeOK, Init

LEMMA TypeEnqueuer ==
    ASSUME TypeOK, ClaimRetry \/ Enqueuer \/ EnqueueRaises \/ EnqueuerDies
    PROVE  TypeOK'
<1>1. CASE ClaimRetry
  <2>1. row' \in RowType
    BY <1>1, SourceZero DEF ClaimRetry, RowType, RowStatus
  <2>2. enqueuer.attempts + 1 \in 0..MaxAttempts
    BY <1>1, PipelineAssumption DEF TypeOK, ClaimRetry, EnqueuerType, PipelineAssumption
  <2>3. enqueuer' \in EnqueuerType
    BY <1>1, <2>2 DEF TypeOK, ClaimRetry, EnqueuerType, EnqueuerPcs
  <2> QED
    BY <1>1, <2>1, <2>2, <2>3 DEF TypeOK, ClaimRetry, redisVars, fileVars
<1>2. CASE EnqueueBump
  <2>1. enqueuer' \in EnqueuerType
    BY <1>2, BumpType DEF TypeOK, EnqueueBump, EnqueuerType, EnqueuerPcs
  <2>2. generation' \in Source
    BY <1>2, BumpType DEF EnqueueBump
  <2> QED
    BY <1>2, <2>1, <2>2 DEF TypeOK, EnqueueBump, fileVars
<1>3. CASE DeleteProgress
  <2>1. enqueuer' \in EnqueuerType
    BY <1>3 DEF TypeOK, DeleteProgress, EnqueuerGoto, EnqueuerType, EnqueuerPcs
  <2>2. progress' \in ProgressType
    BY <1>3, SourceZero DEF DeleteProgress, ProgressType
  <2> QED
    BY <1>3, <2>1, <2>2 DEF TypeOK, DeleteProgress, fileVars
<1>4. CASE SeedProgress
  <2>1. enqueuer' \in EnqueuerType
    BY <1>4 DEF TypeOK, SeedProgress, EnqueuerGoto, EnqueuerType, EnqueuerPcs
  <2>2. progress' \in ProgressType
    BY <1>4 DEF TypeOK, SeedProgress, ProgressType, EnqueuerType, RowStatus
  <2> QED
    BY <1>4, <2>1, <2>2 DEF TypeOK, SeedProgress, fileVars
<1>5. CASE DeleteContext
  <2>1. enqueuer' \in EnqueuerType
    BY <1>5 DEF TypeOK, DeleteContext, EnqueuerGoto, EnqueuerType, EnqueuerPcs
  <2>2. context' \in Contexts
    BY <1>5, NoContextType DEF DeleteContext
  <2> QED
    BY <1>5, <2>1, <2>2 DEF TypeOK, DeleteContext, fileVars
<1>6. CASE SeedContext
  <2>1. enqueuer' \in EnqueuerType
    BY <1>6 DEF TypeOK, SeedContext, EnqueuerGoto, EnqueuerType, EnqueuerPcs
  <2>2. context' \in Contexts
    BY <1>6, SourceZero DEF TypeOK, SeedContext, Contexts, EnqueuerType
  <2> QED
    BY <1>6, <2>1, <2>2 DEF TypeOK, SeedContext, fileVars
<1>7. CASE \E s \in Stages : EnqueueStage(s)
  <2>1. enqueuer' \in EnqueuerType
    BY <1>7 DEF TypeOK, EnqueueStage, EnqueuerType, EnqueuerPcs
  <2>2. subjob' \in PerSubjob(SubStatus)
    BY <1>7 DEF TypeOK, EnqueueStage, PerSubjob, SubStatus
  <2> QED
    BY <1>7, <2>1, <2>2 DEF TypeOK, EnqueueStage, redisVars, fileVars
<1>8. CASE RecordSubjob
  <2>1. enqueuer' \in EnqueuerType
    BY <1>8 DEF TypeOK, RecordSubjob, EnqueuerGoto, EnqueuerType, EnqueuerPcs
  <2>2. tracked' \in [Generations -> SUBSET Stages]
    BY <1>8 DEF TypeOK, RecordSubjob, EnqueuerType
  <2> QED
    BY <1>8, <2>1, <2>2 DEF TypeOK, RecordSubjob, fileVars
<1>9. CASE MarkEnqueueFailed
  <2>1. enqueuer' \in EnqueuerType
    BY <1>9 DEF TypeOK, MarkEnqueueFailed, EnqueuerGoto, EnqueuerType, EnqueuerPcs
  <2>2. row' \in RowType
    BY <1>9, SourceZero DEF MarkEnqueueFailed, UpdateJob, RowType, RowStatus
  <2> QED
    BY <1>9, <2>1, <2>2 DEF TypeOK, MarkEnqueueFailed, redisVars, fileVars
<1>10. CASE EnqueueRaises
  <2>1. enqueuer' \in EnqueuerType
    BY <1>10 DEF TypeOK, EnqueueRaises, EnqueuerGoto, EnqueuerType, EnqueuerPcs
  <2>2. budget' \in BudgetType
    BY <1>10, PipelineAssumption DEF TypeOK, EnqueueRaises, BudgetType, PipelineAssumption
  <2> QED
    BY <1>10, <2>1, <2>2 DEF TypeOK, EnqueueRaises, redisVars, fileVars
<1>11. CASE EnqueuerDies
  <2>1. enqueuer' \in EnqueuerType
    BY <1>11 DEF TypeOK, EnqueuerDies, EnqueuerGoto, EnqueuerType, EnqueuerPcs
  <2>2. budget' \in BudgetType
    BY <1>11, PipelineAssumption DEF TypeOK, EnqueuerDies, BudgetType, PipelineAssumption
  <2> QED
    BY <1>11, <2>1, <2>2 DEF TypeOK, EnqueuerDies, redisVars, fileVars
<1> QED
  BY <1>1, <1>2, <1>3, <1>4, <1>5, <1>6, <1>7, <1>8, <1>9, <1>10, <1>11 DEF Enqueuer

LEMMA TypeStage ==
    ASSUME TypeOK, NEW g \in Generations, NEW s \in Stages,
           \/ StartSubjob(g, s) \/ RunStage(g, s) \/ Report(g, s) \/ ReportDegraded(g, s)
           \/ StageReturns(g, s) \/ StageRaises(g, s)
    PROVE  TypeOK'
<1>1. CASE StartSubjob(g, s)
  <2>1. pc' \in PerSubjob(Pcs)
    BY <1>1, GotoType, Labels DEF TypeOK, StartSubjob, StagePcs
  <2>2. subjob' \in PerSubjob(SubStatus)
    BY <1>1, PerSubjobUpdate DEF TypeOK, StartSubjob, SubStatus
  <2> QED
    BY <1>1, <2>1, <2>2 DEF TypeOK, StartSubjob, redisVars, fileVars
<1>2. CASE LoadJob(g, s)
  <2>1. pc' \in PerSubjob(Pcs)
    BY <1>2, GotoType, Labels DEF TypeOK, LoadJob, StagePcs
  <2>2. local' \in PerSubjob(Locals)
    BY <1>2, SetJobType, RowSnapshotType DEF TypeOK, LoadJob
  <2> QED
    BY <1>2, <2>1, <2>2 DEF TypeOK, LoadJob, redisVars, fileVars
<1>3. CASE MarkProcessing(g, s)
  <2>1. pc' \in PerSubjob(Pcs)
    BY <1>3, GotoType, Labels DEF TypeOK, MarkProcessing, StagePcs
  <2>2. [local[g][s].job EXCEPT !.status = "processing"] \in Jobs
    BY LocalType DEF Jobs, RowStatus
  <2>3. local' \in PerSubjob(Locals)
    BY <1>3, <2>2, SetJobType DEF TypeOK, MarkProcessing
  <2>4. row' \in RowType
    BY <1>3, <2>2, UpdateJobType DEF MarkProcessing
  <2> QED
    BY <1>3, <2>1, <2>2, <2>3, <2>4 DEF TypeOK, MarkProcessing, redisVars, fileVars
<1>4. CASE LoadContext(g, s)
  <2>1. pc' \in PerSubjob(Pcs)
    BY <1>4, GotoType, Labels DEF TypeOK, LoadContext, StagePcs
  <2>2. local' \in PerSubjob(Locals)
    BY <1>4, SetContextType, LoadedType DEF TypeOK, LoadContext
  <2> QED
    BY <1>4, <2>1, <2>2 DEF TypeOK, LoadContext, redisVars, fileVars
<1>5. CASE SeedFromJob(g, s)
  <2>1. pc' \in PerSubjob(Pcs)
    BY <1>5, GotoType, Labels DEF TypeOK, SeedFromJob, StagePcs
  <2>2. context' \in Contexts
    BY <1>5, SourceZero, LocalType DEF TypeOK, SeedFromJob, Contexts, Keys
  <2>3. [local[g][s].context EXCEPT
              !["input_path"] = IF s = "download" THEN local[g][s].context["input_path"]
                              ELSE IF HasDownload THEN 0 ELSE g,
              !["source_url"] = IF s = "download"
                              THEN IF local[g][s].context["source_url"] = 0 THEN g
                                   ELSE local[g][s].context["source_url"]
                              ELSE @] \in Contexts
    BY SourceZero, LocalType DEF Contexts, Keys
  <2>4. local' \in PerSubjob(Locals)
    BY <1>5, <2>3, SetContextType DEF TypeOK, SeedFromJob
  <2> QED
    BY <1>5, <2>1, <2>2, <2>3, <2>4 DEF TypeOK, SeedFromJob, fileVars
<1>6. CASE Mirror(g, s)
  <2>1. pc' \in PerSubjob(Pcs)
    BY <1>6, GotoType, Labels DEF TypeOK, Mirror, StagePcs
  <2>2. row' \in RowType
    BY <1>6, LocalType, UpdateJobType DEF Mirror
  <2> QED
    BY <1>6, <2>1, <2>2 DEF TypeOK, Mirror, redisVars, fileVars
<1>7. CASE MirrorDegraded(g, s)
  <2>1. pc' \in PerSubjob(Pcs)
    BY <1>7, GotoType, Labels DEF TypeOK, MirrorDegraded, StagePcs
  <2>2. row' \in RowType
    BY <1>7 DEF TypeOK, MirrorDegraded, RowType
  <2> QED
    BY <1>7, <2>1, <2>2 DEF TypeOK, MirrorDegraded, redisVars, fileVars
<1>8. CASE PersistOutputs(g, s)
  <2>1. pc' \in PerSubjob(Pcs)
    BY <1>8, GotoType, Labels DEF TypeOK, PersistOutputs, SuccessPcs
  <2>2. context' \in Contexts
    BY <1>8, SourceZero DEF TypeOK, PersistOutputs, Contexts
  <2>3. local' \in PerSubjob(Locals)
    BY <1>8, AssignType, FreshLocalType DEF TypeOK, PersistOutputs
  <2> QED
    BY <1>8, <2>1, <2>2, <2>3 DEF TypeOK, PersistOutputs, fileVars
<1>9. CASE Report(g, s)
  <2>1. pc' \in PerSubjob(Pcs)
    BY <1>9, GotoType, Labels DEF TypeOK, Report, StagePcs
  <2>2. progress' \in ProgressType
    BY <1>9, WriteProgressType DEF Report, RowStatus
  <2> QED
    BY <1>9, <2>1, <2>2 DEF TypeOK, Report, fileVars
<1>10. CASE ReportDegraded(g, s)
  <2>1. pc' \in PerSubjob(Pcs)
    BY <1>10, GotoType, Labels DEF TypeOK, ReportDegraded, StagePcs
  <2>2. budget' \in BudgetType
    BY <1>10, PipelineAssumption DEF TypeOK, ReportDegraded, BudgetType, PipelineAssumption
  <2> QED
    BY <1>10, <2>1, <2>2 DEF TypeOK, ReportDegraded, redisVars, fileVars
<1>11. CASE StageReturns(g, s)
  <2>1. pc' \in PerSubjob(Pcs)
    BY <1>11, GotoType, Labels DEF TypeOK, StageReturns, StagePcs
  <2>2. wav' \in BOOLEAN
    BY <1>11 DEF TypeOK, StageReturns
  <2> QED
    BY <1>11, <2>1, <2>2 DEF TypeOK, StageReturns, redisVars
<1>12. CASE StageRaises(g, s)
  <2>1. pc' \in PerSubjob(Pcs)
    BY <1>12, GotoType, Labels DEF TypeOK, StageRaises, FailurePcs
  <2>2. local' \in PerSubjob(Locals)
    BY <1>12, AssignType, FreshLocalType DEF TypeOK, StageRaises, Locals
  <2>3. budget' \in BudgetType
    BY <1>12, PipelineAssumption DEF TypeOK, StageRaises, BudgetType, PipelineAssumption
  <2>4. wav' \in BOOLEAN
    BY <1>12 DEF TypeOK, StageRaises
  <2> QED
    BY <1>12, <2>1, <2>2, <2>3, <2>4 DEF TypeOK, StageRaises, redisVars
<1> QED
  BY <1>1, <1>2, <1>3, <1>4, <1>5, <1>6, <1>7, <1>8, <1>9, <1>10, <1>11, <1>12 DEF RunStage

LEMMA TypeCallback ==
    ASSUME TypeOK, NEW g \in Generations, NEW s \in Stages,
           Callback(g, s) \/ CallbackRaises(g, s)
    PROVE  TypeOK'
<1>1. CASE CheckSuccessStale(g, s)
  <2>1. pc' \in PerSubjob(Pcs)
    BY <1>1, GotoType, Labels DEF TypeOK, CheckSuccessStale, Step, SuccessPcs
  <2> QED
    BY <1>1, <2>1 DEF TypeOK, CheckSuccessStale, redisVars, fileVars
<1>2. CASE ReadJobOnSuccess(g, s)
  <2>1. pc' \in PerSubjob(Pcs)
    BY <1>2, GotoType, Labels DEF TypeOK, ReadJobOnSuccess, Step, SuccessPcs
  <2>2. local' \in PerSubjob(Locals)
    BY <1>2, SetJobType, RowSnapshotType DEF TypeOK, ReadJobOnSuccess
  <2> QED
    BY <1>2, <2>1, <2>2 DEF TypeOK, ReadJobOnSuccess, redisVars, fileVars
<1>3. CASE ReadContextOnSuccess(g, s)
  <2>1. pc' \in PerSubjob(Pcs)
    BY <1>3, GotoType, Labels DEF TypeOK, ReadContextOnSuccess, Step, CompletionPcs, MissingPcs
  <2>2. local' \in PerSubjob(Locals)
    BY <1>3, SetContextType, LoadedType DEF TypeOK, ReadContextOnSuccess
  <2> QED
    BY <1>3, <2>1, <2>2 DEF TypeOK, ReadContextOnSuccess, redisVars, fileVars
<1>4. CASE MarkFailedRow(g, s)
  <2>1. pc' \in PerSubjob(Pcs)
    BY <1>4, GotoType, Labels DEF TypeOK, MarkFailedRow, Step, SuccessPcs, MissingPcs, CompletionPcs, FailurePcs
  <2>2. [local[g][s].job EXCEPT !.status = "failed"] \in Jobs
    BY LocalType DEF Jobs, RowStatus
  <2>3. local' \in PerSubjob(Locals)
    BY <1>4, <2>2, SetJobType DEF TypeOK, MarkFailedRow
  <2>4. row' \in RowType
    BY <1>4, <2>2, UpdateJobType DEF MarkFailedRow
  <2> QED
    BY <1>4, <2>1, <2>2, <2>3, <2>4 DEF TypeOK, MarkFailedRow, redisVars, fileVars
<1>5. CASE MarkFailedProgress(g, s)
  <2>1. pc' \in PerSubjob(Pcs)
    BY <1>5, GotoType, Labels DEF TypeOK, MarkFailedProgress, Step, SuccessPcs, MissingPcs, CompletionPcs, FailurePcs
  <2>2. progress' \in ProgressType
    BY <1>5, WriteProgressType DEF MarkFailedProgress, RowStatus
  <2> QED
    BY <1>5, <2>1, <2>2 DEF TypeOK, MarkFailedProgress, fileVars
<1>6. CASE SaveResult(g, s)
  <2>1. pc' \in PerSubjob(Pcs)
    BY <1>6, GotoType, Labels DEF TypeOK, SaveResult, Step, CompletionPcs
  <2>2. local[g][s].context["transcript_result"] \in Source
    BY LocalType DEF Contexts, Keys, OutputKeys
  <2>3. [status |-> "completed", result_path |-> local[g][s].context["transcript_result"]] \in Jobs
    BY <2>2 DEF Jobs, RowStatus
  <2>4. local' \in PerSubjob(Locals)
    BY <1>6, <2>3, SetJobType DEF TypeOK, SaveResult
  <2> QED
    BY <1>6, <2>1, <2>2, <2>3, <2>4 DEF TypeOK, SaveResult, redisVars
<1>7. CASE CompleteRow(g, s)
  <2>1. pc' \in PerSubjob(Pcs)
    BY <1>7, GotoType, Labels DEF TypeOK, CompleteRow, Step, CompletionPcs
  <2>2. row' \in RowType
    BY <1>7, LocalType, UpdateJobType DEF CompleteRow
  <2> QED
    BY <1>7, <2>1, <2>2 DEF TypeOK, CompleteRow, redisVars, fileVars
<1>8. CASE CompleteProgress(g, s)
  <2>1. pc' \in PerSubjob(Pcs)
    BY <1>8, GotoType, Labels DEF TypeOK, CompleteProgress, Step, CompletionPcs
  <2>2. progress' \in ProgressType
    BY <1>8, WriteProgressType DEF CompleteProgress, RowStatus
  <2> QED
    BY <1>8, <2>1, <2>2 DEF TypeOK, CompleteProgress, fileVars
<1>9. CASE CheckFailureStale(g, s)
  <2>1. pc' \in PerSubjob(Pcs)
    BY <1>9, GotoType, Labels DEF TypeOK, CheckFailureStale, Step, FailurePcs
  <2> QED
    BY <1>9, <2>1 DEF TypeOK, CheckFailureStale, redisVars, fileVars
<1>10. CASE ReadJobOnFailure(g, s)
  <2>1. pc' \in PerSubjob(Pcs)
    BY <1>10, GotoType, Labels DEF TypeOK, ReadJobOnFailure, Step, FailurePcs
  <2>2. local' \in PerSubjob(Locals)
    BY <1>10, SetJobType, RowSnapshotType DEF TypeOK, ReadJobOnFailure
  <2> QED
    BY <1>10, <2>1, <2>2 DEF TypeOK, ReadJobOnFailure, redisVars, fileVars
<1>11. CASE ReadContextOnFailure(g, s)
  <2>1. pc' \in PerSubjob(Pcs)
    BY <1>11, GotoType, Labels DEF TypeOK, ReadContextOnFailure, Step, FailurePcs, CompletionPcs
  <2>2. local' \in PerSubjob(Locals)
    BY <1>11, SetContextType, LoadedType DEF TypeOK, ReadContextOnFailure
  <2> QED
    BY <1>11, <2>1, <2>2 DEF TypeOK, ReadContextOnFailure, redisVars, fileVars
<1>12. CASE LoadSubjobIds(g, s)
  <2>1. pc' \in PerSubjob(Pcs)
    BY <1>12, GotoType, Labels DEF TypeOK, LoadSubjobIds, Step, FailurePcs
  <2>2. tracked[g] \ {s} \in SUBSET Stages
    BY DEF TypeOK
  <2>3. local' \in PerSubjob(Locals)
    BY <1>12, <2>2, SetTodoType DEF TypeOK, LoadSubjobIds
  <2> QED
    BY <1>12, <2>1, <2>2, <2>3 DEF TypeOK, LoadSubjobIds, redisVars, fileVars
<1>13. CASE CancelSubjob(g, s)
  <2>1. PICK t \in local[g][s].todo :
       /\ subjob' = [subjob EXCEPT ![g][t] = "canceled"]
       /\ Assign(g, s, [local[g][s] EXCEPT !.todo = @ \ {t}])
    BY <1>13 DEF CancelSubjob
  <2>2. subjob' \in PerSubjob(SubStatus)
    BY <2>1, LocalType, PerSubjobUpdate DEF TypeOK, SubStatus
  <2>3. [local[g][s] EXCEPT !.todo = @ \ {t}] \in Locals
    BY LocalType DEF Locals
  <2>4. local' \in PerSubjob(Locals)
    BY <2>1, <2>3, AssignType
  <2> QED
    BY <1>13, <2>1, <2>2, <2>3, <2>4 DEF TypeOK, CancelSubjob, redisVars, fileVars
<1>14. CASE CancelDone(g, s)
  <2>1. pc' \in PerSubjob(Pcs)
    BY <1>14, GotoType, Labels DEF TypeOK, CancelDone, Step, FailurePcs
  <2> QED
    BY <1>14, <2>1 DEF TypeOK, CancelDone, redisVars, fileVars
<1>15. CASE FenceGeneration(g, s)
  <2>1. pc' \in PerSubjob(Pcs)
    BY <1>15, GotoType, Labels DEF TypeOK, FenceGeneration, Step, FailurePcs
  <2>2. generation' \in Source
    BY <1>15, BumpType DEF FenceGeneration
  <2> QED
    BY <1>15, <2>1, <2>2 DEF TypeOK, FenceGeneration, fileVars
<1>16. CASE CleanupWav(g, s)
  <2>1. pc' \in PerSubjob(Pcs)
    BY <1>16, GotoType, Labels DEF TypeOK, CleanupWav, Step, SuccessPcs, MissingPcs, CompletionPcs, FailurePcs
  <2>2. wav' \in BOOLEAN
    BY <1>16 DEF TypeOK, CleanupWav
  <2> QED
    BY <1>16, <2>1, <2>2 DEF TypeOK, CleanupWav, redisVars
<1>17. CASE CleanupContext(g, s)
  <2>1. pc' \in PerSubjob(Pcs)
    BY <1>17, GotoType, Labels DEF TypeOK, CleanupContext, Step, SuccessPcs, MissingPcs, CompletionPcs, FailurePcs
  <2>2. context' \in Contexts
    BY <1>17, NoContextType DEF CleanupContext
  <2> QED
    BY <1>17, <2>1, <2>2 DEF TypeOK, CleanupContext, fileVars
<1>18. CASE ClearSubjobSet(g, s)
  <2>1. pc' \in PerSubjob(Pcs)
    BY <1>18, GotoType, Labels DEF TypeOK, ClearSubjobSet, Step, AfterCompletion, FailurePcs, CompletionPcs, MissingPcs
  <2>2. tracked' \in [Generations -> SUBSET Stages]
    BY <1>18 DEF TypeOK, ClearSubjobSet
  <2>3. local' \in PerSubjob(Locals)
    BY <1>18, AssignType, FreshLocalType, LocalType DEF TypeOK, ClearSubjobSet, Locals
  <2> QED
    BY <1>18, <2>1, <2>2, <2>3 DEF TypeOK, ClearSubjobSet, fileVars
<1>19. CASE CallbackRaises(g, s)
  <2>1. OnException(g, s) \in Pcs
    BY Labels DEF OnException, AfterCompletion, SuccessPcs, MissingPcs, CompletionPcs, FailurePcs
  <2>2. pc' \in PerSubjob(Pcs)
    BY <1>19, <2>1, GotoType DEF CallbackRaises
  <2>3. /\ (local[g][s].failing \/ OnException(g, s) = "ff_stale") \in BOOLEAN
       /\ (local[g][s].raising \/ pc[g][s] = "fail_row") \in BOOLEAN
    OBVIOUS
  <2>4. [local[g][s] EXCEPT
              !.failing = @ \/ OnException(g, s) = "ff_stale",
              !.raising = @ \/ pc[g][s] = "fail_row"] \in Locals
    BY <2>3, LocalType, FlagsType, Zenon
  <2>5. local' \in PerSubjob(Locals)
    BY <1>19, <2>4, AssignType DEF CallbackRaises
  <2>6. budget' \in BudgetType
    BY <1>19, PipelineAssumption DEF TypeOK, CallbackRaises, BudgetType, PipelineAssumption
  <2> QED
    BY <1>19, <2>1, <2>2, <2>3, <2>4, <2>5, <2>6 DEF TypeOK, CallbackRaises, redisVars, fileVars
<1> QED
  BY <1>1, <1>2, <1>3, <1>4, <1>5, <1>6, <1>7, <1>8, <1>9, <1>10, <1>11, <1>12, <1>13, <1>14, <1>15, <1>16, <1>17, <1>18, <1>19 DEF Callback

LEMMA TypeQueue ==
    ASSUME TypeOK, NEW g \in Generations, NEW s \in Stages,
           AcknowledgeSubjob(g, s) \/ KillHorse(g, s) \/ Crash(g, s) \/ Abandon(g, s)
    PROVE  TypeOK'
<1>1. CASE AcknowledgeSubjob(g, s)
  <2>1. pc' \in PerSubjob(Pcs)
    BY <1>1, GotoType, Labels DEF TypeOK, AcknowledgeSubjob, Step, Pcs
  <2>2. local' \in PerSubjob(Locals)
    BY <1>1, AssignType, FreshLocalType DEF TypeOK, AcknowledgeSubjob
  <2>3. subjob' \in PerSubjob(SubStatus)
    BY <1>1 DEF TypeOK, AcknowledgeSubjob, PerSubjob, SubStatus
  <2> QED
    BY <1>1, <2>1, <2>2, <2>3 DEF TypeOK, AcknowledgeSubjob, redisVars, fileVars
<1>2. CASE KillHorse(g, s)
  <2>1. pc' \in PerSubjob(Pcs)
    BY <1>2, GotoType, Labels DEF TypeOK, KillHorse, Pcs
  <2>2. local' \in PerSubjob(Locals)
    BY <1>2, AssignType, FreshLocalType DEF TypeOK, KillHorse
  <2> QED
    BY <1>2, <2>1, <2>2 DEF TypeOK, KillHorse, redisVars, fileVars
<1>3. CASE Crash(g, s)
  <2>1. pc' \in PerSubjob(Pcs)
    BY <1>3, GotoType, Labels DEF TypeOK, Crash, Pcs
  <2>2. local' \in PerSubjob(Locals)
    BY <1>3, AssignType, FreshLocalType DEF TypeOK, Crash
  <2>3. budget' \in BudgetType
    BY <1>3, PipelineAssumption DEF TypeOK, Crash, BudgetType, PipelineAssumption
  <2> QED
    BY <1>3, <2>1, <2>2, <2>3 DEF TypeOK, Crash, redisVars, fileVars
<1>4. CASE Abandon(g, s)
  <2>1. pc' \in PerSubjob(Pcs)
    BY <1>4, GotoType, Labels DEF TypeOK, Abandon, FailurePcs
  <2>2. local' \in PerSubjob(Locals)
    BY <1>4, AssignType, FreshLocalType DEF TypeOK, Abandon, Locals
  <2> QED
    BY <1>4, <2>1, <2>2 DEF TypeOK, Abandon, redisVars, fileVars
<1> QED
  BY <1>1, <1>2, <1>3, <1>4

LEMMA TypeReaper ==
    ASSUME TypeOK, NEW r \in Reapers, Reap(r)
    PROVE  TypeOK'
<1>1. CASE ListStale(r)
  <2>1. reaper' \in [Reapers -> ReaperLocals]
    BY <1>1 DEF TypeOK, ListStale, ReaperStep, ReaperLocals, ReaperPcs
  <2> QED
    BY <1>1, <2>1 DEF TypeOK, ListStale, redisVars, fileVars
<1>2. CASE ReadGeneration(r)
  <2>1. reaper' \in [Reapers -> ReaperLocals]
    BY <1>2 DEF TypeOK, ReadGeneration, ReaperLocals, ReaperPcs
  <2> QED
    BY <1>2, <2>1 DEF TypeOK, ReadGeneration, redisVars, fileVars
<1>3. CASE ReadSubjobIds(r)
  <2>1. reaper' \in [Reapers -> ReaperLocals]
    BY <1>3 DEF TypeOK, ReadSubjobIds, ReaperLocals, ReaperPcs
  <2> QED
    BY <1>3, <2>1 DEF TypeOK, ReadSubjobIds, redisVars, fileVars
<1>4. CASE ScanSubjob(r)
  <2>1. reaper[r] \in ReaperLocals
    BY DEF TypeOK
  <2>2. [pc |-> "idle", generation |-> 0, todo |-> {}] \in ReaperLocals
    BY SourceZero DEF ReaperLocals, ReaperPcs
  <2>3. \A t \in Stages, l \in {"bump", "scan"} :
       [reaper[r] EXCEPT !.todo = reaper[r].todo \ {t}, !.pc = l] \in ReaperLocals
    BY <2>1 DEF ReaperLocals, ReaperPcs
  <2>4. \E l \in ReaperLocals : reaper' = [reaper EXCEPT ![r] = l]
    BY <1>4, <2>1, <2>2, <2>3 DEF ScanSubjob, ReaperLocals
  <2>5. reaper' \in [Reapers -> ReaperLocals]
    BY <2>4 DEF TypeOK
  <2> QED
    BY <1>4, <2>1, <2>2, <2>3, <2>4, <2>5 DEF TypeOK, ScanSubjob, redisVars, fileVars
<1>5. CASE ReaperBump(r)
  <2>1. reaper' \in [Reapers -> ReaperLocals]
    BY <1>5 DEF TypeOK, ReaperBump, ReaperStep, ReaperLocals, ReaperPcs
  <2>2. generation' \in Source
    BY <1>5, BumpType DEF ReaperBump
  <2> QED
    BY <1>5, <2>1, <2>2 DEF TypeOK, ReaperBump, fileVars
<1>6. CASE RecoverStale(r)
  <2>1. reaper' \in [Reapers -> ReaperLocals]
    BY <1>6, SourceZero DEF TypeOK, RecoverStale, ReaperLocals, ReaperPcs
  <2>2. row' \in RowType
    BY <1>6 DEF TypeOK, RecoverStale, RowType, RowStatus
  <2> QED
    BY <1>6, <2>1, <2>2 DEF TypeOK, RecoverStale, redisVars, fileVars
<1> QED
  BY <1>1, <1>2, <1>3, <1>4, <1>5, <1>6 DEF Reap

\* Every step keeps the types.
LEMMA TypeNext == TypeOK /\ [Next]_vars => TypeOK'
<1> SUFFICES ASSUME TypeOK, [Next]_vars PROVE TypeOK'
  OBVIOUS
<1>1. CASE ClaimRetry \/ Enqueuer \/ EnqueueRaises \/ EnqueuerDies
  BY <1>1, TypeEnqueuer
<1>2. CASE Age
  BY <1>2 DEF TypeOK, Age, RowType, redisVars, fileVars
<1>3. CASE \E r \in Reapers : Reap(r)
  BY <1>3, TypeReaper
<1>4. ASSUME NEW g \in Generations, NEW s \in Stages,
             \/ StartSubjob(g, s) \/ RunStage(g, s) \/ Report(g, s) \/ ReportDegraded(g, s)
             \/ StageReturns(g, s) \/ StageRaises(g, s)
      PROVE  TypeOK'
  BY <1>4, TypeStage
<1>5. ASSUME NEW g \in Generations, NEW s \in Stages, Callback(g, s) \/ CallbackRaises(g, s)
      PROVE  TypeOK'
  BY <1>5, TypeCallback
<1>6. ASSUME NEW g \in Generations, NEW s \in Stages,
             AcknowledgeSubjob(g, s) \/ KillHorse(g, s) \/ Crash(g, s) \/ Abandon(g, s)
      PROVE  TypeOK'
  BY <1>6, TypeQueue
<1>7. CASE UNCHANGED vars
  BY <1>7 DEF TypeOK, vars, redisVars, fileVars
<1> QED
  BY <1>1, <1>2, <1>3, <1>4, <1>5, <1>6, <1>7 DEF Next

\* Every variable keeps its type: a stage never reaches an unknown step, a row
\* or sub-job never an unknown status, for every shape of job and every bound.
THEOREM TypeCorrect == Spec => []TypeOK
BY TypeInit, TypeNext, PTL DEF Spec

-----------------------------------------------------------------------------
(* The context hash *)

\* The enqueuer is past the DEL of initialize and no one has moved on since.
Seeding == /\ enqueuer.pc \in {"seed_context", "enqueue", "record"}
           /\ enqueuer.generation = generation

\* Some sub-job was enqueued under g.
Launched(g) == \E s \in Stages : subjob[g][s] # "none"

\* From the reset of the hash on, the newest generation's outputs are alone in
\* it: what the gate of update_if_generation_matches protects.
OwnOutputs ==
    Seeding \/ (generation \in Generations /\ Launched(generation)) =>
        \A k \in OutputKeys : context[k] \in {0, generation}

\* No attempt, no enqueuer and no output is ahead of the counter.
CounterAhead ==
    /\ \A g \in Generations : Launched(g) => g <= generation
    /\ enqueuer.generation <= generation
    /\ \A k \in OutputKeys : context[k] <= generation

\* Only sub-jobs that were enqueued run.
RunningIsLaunched ==
    \A g \in Generations, s \in Stages : pc[g][s] # "idle" => subjob[g][s] # "none"

\* NoMixedContext is not inductive: a write under the current generation is
\* harmless only because the hash then holds that generation's outputs alone.
ContextInv == NoMixedContext /\ OwnOutputs /\ CounterAhead /\ RunningIsLaunched

LEMMA ContextInit == Init => ContextInv
BY SourceZero DEF Init, ContextInv, NoMixedContext, OwnOutputs, CounterAhead, RunningIsLaunched,
                  Seeding, Launched, NoContext, Keys

LEMMA OutputKeysSafe ==
    /\ OutputKeys \subseteq Keys
    /\ \A k \in OutputKeys : k \notin {"language", "source_url", "input_path"}
    /\ \A s \in Stages : s # "download" => OutputKey(s) \in OutputKeys
    /\ \A s \in Stages : OutputKey(s) \in Keys
BY DEF Keys, OutputKeys, OutputKey, Stages, AllStages

\* A step that only moves one process leaves the hash's invariant alone.
LEMMA ContextGoto ==
    ASSUME TypeOK, ContextInv, NEW g \in Generations, NEW s \in Stages, NEW label,
           Goto(g, s, label), pc[g][s] # "idle" \/ subjob[g][s] # "none",
           UNCHANGED <<generation, context, subjob, enqueuer>>
    PROVE  ContextInv'
<1>1. RunningIsLaunched'
  <2>1. \A h \in Generations, t \in Stages : pc'[h][t] # pc[h][t] => h = g /\ t = s
    BY DEF TypeOK, PerSubjob, Goto
  <2> QED
    BY <2>1 DEF ContextInv, RunningIsLaunched
<1>2. NoMixedContext' /\ OwnOutputs' /\ CounterAhead'
  BY DEF ContextInv, NoMixedContext, OwnOutputs, CounterAhead, Seeding, Launched
<1> QED
  BY <1>1, <1>2 DEF ContextInv

\* Sub-jobs change status, but none is enqueued.
LEMMA ContextSubjobs ==
    ASSUME TypeOK, ContextInv,
           \A g \in Generations, s \in Stages :
               /\ subjob'[g][s] = "none" <=> subjob[g][s] = "none"
               /\ pc'[g][s] # "idle" => pc[g][s] # "idle" \/ subjob[g][s] # "none",
           UNCHANGED <<generation, context, enqueuer>>
    PROVE  ContextInv'
<1>1. \A g \in Generations : Launched(g)' <=> Launched(g)
  BY DEF Launched
<1>2. RunningIsLaunched'
  BY DEF ContextInv, RunningIsLaunched
<1>3. OwnOutputs' /\ CounterAhead' /\ NoMixedContext'
  BY <1>1 DEF ContextInv, OwnOutputs, CounterAhead, NoMixedContext, Seeding
<1> QED
  BY <1>2, <1>3 DEF ContextInv

\* A bump retires every attempt: nothing is launched under the new generation.
LEMMA ContextBump ==
    ASSUME TypeOK, ContextInv, BumpGeneration, UNCHANGED <<context, subjob>>, RunningIsLaunched',
           \/ enqueuer' = enqueuer
           \/ enqueuer'.pc = "del_progress" /\ enqueuer'.generation = generation'
    PROVE  ContextInv'
<1>1. generation \in Nat /\ generation' = generation + 1 /\ generation' \in Nat
  BY BumpType, PipelineAssumption DEF TypeOK, Source, PipelineAssumption
<1>2. /\ \A k \in OutputKeys : context[k] \in Nat
      /\ enqueuer.generation \in Nat
  BY OutputKeysSafe, PipelineAssumption
  DEF TypeOK, Contexts, Source, EnqueuerType, PipelineAssumption
<1>3. \A g \in Generations : Launched(g)' <=> Launched(g)
  BY DEF Launched
<1>4. CounterAhead'
  BY <1>1, <1>2, <1>3, PipelineAssumption
  DEF ContextInv, CounterAhead, Generations, PipelineAssumption
<1>5. ~Seeding'
  BY <1>1, <1>2 DEF Seeding, ContextInv, CounterAhead
<1>6. generation' \in Generations => ~(\E s \in Stages : subjob'[generation'][s] # "none")
  BY <1>1 DEF ContextInv, CounterAhead, Launched
<1>7. OwnOutputs'
  BY <1>5, <1>6 DEF OwnOutputs, Launched
<1>8. NoMixedContext'
  BY DEF ContextInv, NoMixedContext
<1> QED
  BY <1>4, <1>7, <1>8 DEF ContextInv

LEMMA ContextEnqueuer ==
    ASSUME TypeOK, ContextInv, ClaimRetry \/ Enqueuer \/ EnqueueRaises \/ EnqueuerDies
    PROVE  ContextInv'
<1>1. CASE ClaimRetry
  BY <1>1 DEF TypeOK, EnqueuerType, ClaimRetry, EnqueuerAt, EnqueuerGoto, redisVars, ContextInv, NoMixedContext, OwnOutputs, CounterAhead, RunningIsLaunched, Seeding, Launched
<1>2. CASE DeleteProgress
  BY <1>2 DEF TypeOK, EnqueuerType, DeleteProgress, EnqueuerAt, EnqueuerGoto, redisVars, ContextInv, NoMixedContext, OwnOutputs, CounterAhead, RunningIsLaunched, Seeding, Launched
<1>3. CASE SeedProgress
  BY <1>3 DEF TypeOK, EnqueuerType, SeedProgress, EnqueuerAt, EnqueuerGoto, redisVars, ContextInv, NoMixedContext, OwnOutputs, CounterAhead, RunningIsLaunched, Seeding, Launched
<1>4. CASE RecordSubjob
  BY <1>4 DEF TypeOK, EnqueuerType, RecordSubjob, EnqueuerAt, EnqueuerGoto, redisVars, ContextInv, NoMixedContext, OwnOutputs, CounterAhead, RunningIsLaunched, Seeding, Launched
<1>5. CASE MarkEnqueueFailed
  BY <1>5 DEF TypeOK, EnqueuerType, MarkEnqueueFailed, EnqueuerAt, EnqueuerGoto, redisVars, ContextInv, NoMixedContext, OwnOutputs, CounterAhead, RunningIsLaunched, Seeding, Launched
<1>6. CASE EnqueueRaises
  BY <1>6 DEF TypeOK, EnqueuerType, EnqueueRaises, EnqueuerAt, EnqueuerGoto, redisVars, ContextInv, NoMixedContext, OwnOutputs, CounterAhead, RunningIsLaunched, Seeding, Launched
<1>7. CASE EnqueuerDies
  BY <1>7 DEF TypeOK, EnqueuerType, EnqueuerDies, EnqueuerAt, EnqueuerGoto, redisVars, ContextInv, NoMixedContext, OwnOutputs, CounterAhead, RunningIsLaunched, Seeding, Launched
<1>8. CASE EnqueueBump
  <2>1. enqueuer'.pc = "del_progress" /\ enqueuer'.generation = generation'
    BY <1>8, BumpType DEF TypeOK, EnqueuerType, EnqueueBump
  <2>2. RunningIsLaunched'
    BY <1>8 DEF EnqueueBump, ContextInv, RunningIsLaunched
  <2> QED
    BY <1>8, <2>1, <2>2, ContextBump DEF EnqueueBump
<1>9. CASE DeleteContext
  <2>1. context' = NoContext /\ UNCHANGED <<generation, subjob, pc>> /\ enqueuer'.generation = enqueuer.generation
    BY <1>9 DEF TypeOK, EnqueuerType, DeleteContext, EnqueuerGoto
  <2>2. \A k \in OutputKeys : context'[k] = 0
    BY <2>1, OutputKeysSafe DEF NoContext
  <2>3. generation \in Nat
    BY PipelineAssumption DEF TypeOK, Source, PipelineAssumption
  <2> QED
    BY <2>1, <2>2, <2>3 DEF ContextInv, NoMixedContext, OwnOutputs, CounterAhead, RunningIsLaunched, Seeding, Launched
<1>10. CASE SeedContext
  <2>1. /\ UNCHANGED <<generation, subjob, pc>> /\ enqueuer'.generation = enqueuer.generation
        /\ enqueuer.pc = "seed_context"
    BY <1>10 DEF TypeOK, EnqueuerType, SeedContext, EnqueuerGoto, EnqueuerAt
  <2>2. \A k \in OutputKeys : context'[k] = context[k]
    BY <1>10, OutputKeysSafe DEF SeedContext, SeedKeys
  <2> QED
    BY <2>1, <2>2 DEF ContextInv, NoMixedContext, OwnOutputs, CounterAhead, RunningIsLaunched, Seeding, Launched
<1>11. CASE \E s \in Stages : EnqueueStage(s)
  <2> PICK s \in Stages : EnqueueStage(s)
    BY <1>11
  <2> DEFINE g == enqueuer.generation
  <2>1. /\ g \in Generations /\ enqueuer.pc = "enqueue"
        /\ UNCHANGED <<generation, context, pc>>
        /\ enqueuer'.generation = g
    BY DEF TypeOK, EnqueuerType, EnqueueStage, EnqueuerAt, redisVars
  <2>2. /\ \A h \in Generations, t \in Stages : subjob'[h][t] # subjob[h][t] => h = g
        /\ \A h \in Generations, t \in Stages : subjob[h][t] # "none" => subjob'[h][t] # "none"
    BY DEF TypeOK, PerSubjob, EnqueueStage
  <2>3. g <= generation
    BY DEF ContextInv, CounterAhead
  <2>4. NoMixedContext' /\ RunningIsLaunched'
    BY <2>1, <2>2 DEF ContextInv, NoMixedContext, RunningIsLaunched
  <2>5. CounterAhead'
    BY <2>1, <2>2, <2>3 DEF ContextInv, CounterAhead, Launched
  <2>6. OwnOutputs'
    BY <2>1, <2>2 DEF ContextInv, OwnOutputs, Seeding, Launched
  <2> QED
    BY <2>4, <2>5, <2>6 DEF ContextInv
<1> QED
  BY <1>1, <1>2, <1>3, <1>4, <1>5, <1>6, <1>7, <1>8, <1>9, <1>10, <1>11 DEF Enqueuer

LEMMA ContextStage ==
    ASSUME TypeOK, ContextInv, NEW g \in Generations, NEW s \in Stages,
           \/ StartSubjob(g, s) \/ RunStage(g, s) \/ Report(g, s) \/ ReportDegraded(g, s)
           \/ StageReturns(g, s) \/ StageRaises(g, s)
    PROVE  ContextInv'
<1>1. CASE LoadJob(g, s)
  BY <1>1, ContextGoto DEF LoadJob, redisVars
<1>2. CASE MarkProcessing(g, s)
  BY <1>2, ContextGoto DEF MarkProcessing, redisVars
<1>3. CASE LoadContext(g, s)
  BY <1>3, ContextGoto DEF LoadContext, redisVars
<1>4. CASE Mirror(g, s)
  BY <1>4, ContextGoto DEF Mirror, redisVars
<1>5. CASE MirrorDegraded(g, s)
  BY <1>5, ContextGoto DEF MirrorDegraded, redisVars
<1>6. CASE Report(g, s)
  BY <1>6, ContextGoto DEF Report, redisVars
<1>7. CASE ReportDegraded(g, s)
  BY <1>7, ContextGoto DEF ReportDegraded, redisVars
<1>8. CASE StageReturns(g, s)
  BY <1>8, ContextGoto DEF StageReturns, redisVars
<1>9. CASE StageRaises(g, s)
  BY <1>9, ContextGoto DEF StageRaises, StagePcs, redisVars
<1>10. CASE StartSubjob(g, s)
  <2>1. \A h \in Generations, t \in Stages :
          /\ subjob'[h][t] = "none" <=> subjob[h][t] = "none"
          /\ pc'[h][t] # "idle" => pc[h][t] # "idle" \/ subjob[h][t] # "none"
    BY <1>10 DEF TypeOK, PerSubjob, StartSubjob, Goto
  <2> QED
    BY <1>10, <2>1, ContextSubjobs DEF StartSubjob, redisVars
<1>11. CASE SeedFromJob(g, s)
  <2>1. \A k \in OutputKeys : context'[k] = context[k]
    BY <1>11, OutputKeysSafe DEF SeedFromJob, TypeOK, Contexts
  <2>2. UNCHANGED <<generation, subjob, enqueuer>>
    BY <1>11 DEF SeedFromJob
  <2>3. RunningIsLaunched'
    BY <1>11, <2>2 DEF SeedFromJob, Goto, TypeOK, PerSubjob, ContextInv, RunningIsLaunched
  <2> QED
    BY <2>1, <2>2, <2>3 DEF ContextInv, NoMixedContext, OwnOutputs, CounterAhead, Seeding, Launched
<1>12. CASE PersistOutputs(g, s)
  <2>1. subjob[g][s] # "none" /\ g <= generation /\ generation \in Nat /\ g \in Nat \ {0}
    BY <1>12, PipelineAssumption
    DEF PersistOutputs, TypeOK, Source, Generations, PipelineAssumption, ContextInv,
        RunningIsLaunched, CounterAhead, Launched
  <2>2. OwnsContext(g) => g = generation /\ \A k \in OutputKeys : context[k] \in {0, g}
    BY <2>1 DEF OwnsContext, ContextInv, OwnOutputs, Launched
  <2>3. UNCHANGED <<generation, subjob, enqueuer>>
    BY <1>12 DEF PersistOutputs
  <2>4. \A k \in OutputKeys : context'[k] = context[k] \/ (OwnsContext(g) /\ context'[k] = g)
    BY <1>12, OutputKeysSafe DEF PersistOutputs, TypeOK, Contexts
  <2>5. RunningIsLaunched'
    BY <1>12, <2>3 DEF PersistOutputs, Goto, TypeOK, PerSubjob, ContextInv, RunningIsLaunched
  <2>6. NoMixedContext'
    BY <2>1, <2>2, <2>4 DEF ContextInv, NoMixedContext
  <2>7. OwnOutputs' /\ CounterAhead'
    BY <2>1, <2>2, <2>3, <2>4 DEF ContextInv, OwnOutputs, CounterAhead, Seeding, Launched
  <2> QED
    BY <2>5, <2>6, <2>7 DEF ContextInv
<1> QED
  BY <1>1, <1>2, <1>3, <1>4, <1>5, <1>6, <1>7, <1>8, <1>9, <1>10, <1>11, <1>12 DEF RunStage

LEMMA ContextCallback ==
    ASSUME TypeOK, ContextInv, NEW g \in Generations, NEW s \in Stages,
           Callback(g, s) \/ CallbackRaises(g, s)
    PROVE  ContextInv'
<1>1. CASE CheckSuccessStale(g, s)
  BY <1>1, ContextGoto DEF CheckSuccessStale, Step, redisVars
<1>2. CASE ReadJobOnSuccess(g, s)
  BY <1>2, ContextGoto DEF ReadJobOnSuccess, Step, redisVars
<1>3. CASE ReadContextOnSuccess(g, s)
  BY <1>3, ContextGoto DEF ReadContextOnSuccess, Step, redisVars
<1>4. CASE MarkFailedRow(g, s)
  BY <1>4, ContextGoto DEF MarkFailedRow, Step, redisVars
<1>5. CASE MarkFailedProgress(g, s)
  BY <1>5, ContextGoto DEF MarkFailedProgress, Step, redisVars
<1>6. CASE SaveResult(g, s)
  BY <1>6, ContextGoto DEF SaveResult, Step, redisVars
<1>7. CASE CompleteRow(g, s)
  BY <1>7, ContextGoto DEF CompleteRow, Step, redisVars
<1>8. CASE CompleteProgress(g, s)
  BY <1>8, ContextGoto DEF CompleteProgress, Step, redisVars
<1>9. CASE CheckFailureStale(g, s)
  BY <1>9, ContextGoto DEF CheckFailureStale, Step, redisVars
<1>10. CASE ReadJobOnFailure(g, s)
  BY <1>10, ContextGoto DEF ReadJobOnFailure, Step, redisVars
<1>11. CASE ReadContextOnFailure(g, s)
  BY <1>11, ContextGoto DEF ReadContextOnFailure, Step, redisVars
<1>12. CASE LoadSubjobIds(g, s)
  BY <1>12, ContextGoto DEF LoadSubjobIds, Step, redisVars
<1>13. CASE CancelDone(g, s)
  BY <1>13, ContextGoto DEF CancelDone, Step, redisVars
<1>14. CASE CleanupWav(g, s)
  BY <1>14, ContextGoto DEF CleanupWav, Step, redisVars
<1>15. CASE ClearSubjobSet(g, s)
  BY <1>15, ContextGoto DEF ClearSubjobSet, Step, redisVars
<1>16. CASE CallbackRaises(g, s)
  BY <1>16, ContextGoto DEF CallbackRaises, CallbackPcs, SuccessPcs, MissingPcs, CompletionPcs, FailurePcs, redisVars
<1>17. CASE CancelSubjob(g, s)
  <2>1. PICK t \in local[g][s].todo : subjob' = [subjob EXCEPT ![g][t] = "canceled"]
    BY <1>17 DEF CancelSubjob
  <2>2. RunningIsLaunched'
    BY <1>17, <2>1 DEF CancelSubjob, TypeOK, PerSubjob, ContextInv, RunningIsLaunched
  <2>3. t \in Stages /\ UNCHANGED <<generation, context, enqueuer>> /\ subjob[g][s] # "none"
    BY <1>17, LocalType DEF CancelSubjob, redisVars, ContextInv, RunningIsLaunched
  <2>4. \A h \in Generations : Launched(h)' <=> Launched(h)
    BY <2>1, <2>3 DEF TypeOK, PerSubjob, Launched
  <2> QED
    BY <2>2, <2>3, <2>4 DEF ContextInv, NoMixedContext, OwnOutputs, CounterAhead, Seeding
<1>18. CASE FenceGeneration(g, s)
  <2>1. RunningIsLaunched'
    BY <1>18 DEF FenceGeneration, Step, Goto, TypeOK, PerSubjob, ContextInv, RunningIsLaunched
  <2> QED
    BY <1>18, <2>1, ContextBump DEF FenceGeneration
<1>19. CASE CleanupContext(g, s)
  <2>1. RunningIsLaunched'
    BY <1>19 DEF CleanupContext, Step, Goto, TypeOK, PerSubjob, ContextInv, RunningIsLaunched
  <2>2. \A k \in OutputKeys : context'[k] = 0
    BY <1>19, OutputKeysSafe DEF CleanupContext, NoContext
  <2>3. UNCHANGED <<generation, subjob, enqueuer>> /\ generation \in Nat
    BY <1>19, PipelineAssumption DEF CleanupContext, TypeOK, Source, PipelineAssumption
  <2> QED
    BY <2>1, <2>2, <2>3 DEF ContextInv, NoMixedContext, OwnOutputs, CounterAhead, Seeding, Launched
<1> QED
  BY <1>1, <1>2, <1>3, <1>4, <1>5, <1>6, <1>7, <1>8, <1>9, <1>10, <1>11, <1>12, <1>13, <1>14, <1>15, <1>16, <1>17, <1>18, <1>19 DEF Callback

LEMMA ContextQueue ==
    ASSUME TypeOK, ContextInv, NEW g \in Generations, NEW s \in Stages,
           AcknowledgeSubjob(g, s) \/ KillHorse(g, s) \/ Crash(g, s) \/ Abandon(g, s)
    PROVE  ContextInv'
<1>1. CASE AcknowledgeSubjob(g, s)
  <2>1. \A h \in Generations, t \in Stages :
          subjob[h][t] # "none" => subjob'[h][t] # "none"
    BY <1>1 DEF TypeOK, PerSubjob, AcknowledgeSubjob
  <2>2. \A h \in Generations, t \in Stages :
          subjob'[h][t] # "none" => subjob[h][t] # "none"
    BY <1>1 DEF TypeOK, PerSubjob, AcknowledgeSubjob, Step, ContextInv, RunningIsLaunched
  <2>3. \A h \in Generations, t \in Stages :
          pc'[h][t] # "idle" => pc[h][t] # "idle"
    BY <1>1 DEF TypeOK, PerSubjob, AcknowledgeSubjob, Step, Goto
  <2> QED
    BY <1>1, <2>1, <2>2, <2>3, ContextSubjobs DEF AcknowledgeSubjob, redisVars
<1>2. CASE KillHorse(g, s)
  BY <1>2, ContextGoto DEF KillHorse, redisVars
<1>3. CASE Crash(g, s)
  BY <1>3, ContextGoto DEF Crash, redisVars, RunningPcs, StagePcs, CallbackPcs,
                           SuccessPcs, MissingPcs, CompletionPcs, FailurePcs
<1>4. CASE Abandon(g, s)
  BY <1>4, ContextGoto DEF Abandon, redisVars
<1> QED
  BY <1>1, <1>2, <1>3, <1>4

\* Every step keeps the hash unmixed.
LEMMA ContextNext == TypeOK /\ ContextInv /\ [Next]_vars => ContextInv'
<1> SUFFICES ASSUME TypeOK, ContextInv, [Next]_vars PROVE ContextInv'
  OBVIOUS
<1>1. CASE ClaimRetry \/ Enqueuer \/ EnqueueRaises \/ EnqueuerDies
  BY <1>1, ContextEnqueuer
<1>2. ASSUME UNCHANGED <<generation, context, subjob, enqueuer, pc>> PROVE ContextInv'
  BY <1>2 DEF ContextInv, NoMixedContext, OwnOutputs, CounterAhead, RunningIsLaunched,
              Seeding, Launched
<1>3. CASE Age
  BY <1>2, <1>3 DEF Age, redisVars
<1>4. ASSUME NEW r \in Reapers, Reap(r) PROVE ContextInv'
  <2>1. CASE ReaperBump(r)
    <3>1. RunningIsLaunched'
      BY <2>1 DEF ReaperBump, ContextInv, RunningIsLaunched
    <3> QED
      BY <2>1, <3>1, ContextBump DEF ReaperBump
  <2>2. CASE ~ReaperBump(r)
    BY <1>2, <1>4, <2>2
    DEF Reap, ListStale, ReadGeneration, ReadSubjobIds, ScanSubjob, RecoverStale, redisVars
  <2> QED
    BY <2>1, <2>2
<1>5. ASSUME NEW g \in Generations, NEW s \in Stages,
             \/ StartSubjob(g, s) \/ RunStage(g, s) \/ Report(g, s) \/ ReportDegraded(g, s)
             \/ StageReturns(g, s) \/ StageRaises(g, s)
      PROVE  ContextInv'
  BY <1>5, ContextStage
<1>6. ASSUME NEW g \in Generations, NEW s \in Stages, Callback(g, s) \/ CallbackRaises(g, s)
      PROVE  ContextInv'
  BY <1>6, ContextCallback
<1>7. ASSUME NEW g \in Generations, NEW s \in Stages,
             AcknowledgeSubjob(g, s) \/ KillHorse(g, s) \/ Crash(g, s) \/ Abandon(g, s)
      PROVE  ContextInv'
  BY <1>7, ContextQueue
<1>8. CASE UNCHANGED vars
  BY <1>2, <1>8 DEF vars
<1> QED
  BY <1>1, <1>3, <1>4, <1>5, <1>6, <1>7, <1>8 DEF Next

\* The inductive invariant: no output, attempt or enqueuer is ahead of the
\* counter, and once initialize has reset the hash for the newest generation
\* only that generation's outputs enter it.
THEOREM ContextCorrect == Spec => []ContextInv
BY TypeInit, TypeNext, ContextInit, ContextNext, PTL DEF Spec

\* Whatever retries, zombie stages, crashes, half-enqueued attempts and reapers
\* do, the context hash of a job never holds the outputs of two attempts at once.
THEOREM ContextIsolated == Spec => []NoMixedContext
<1>1. ContextInv => NoMixedContext
  BY DEF ContextInv
<1> QED
  BY <1>1, ContextCorrect, PTL

-----------------------------------------------------------------------------
(* The progress hash *)

\* Before SeedProgress the enqueuer's attempt has no sub-jobs; after it, and as long
\* as it is the newest, no write takes the hash back to an earlier attempt.
HashInv ==
    LET launched == enqueuer.generation \in Generations /\ Launched(enqueuer.generation)
    IN  /\ enqueuer.pc \in {"del_progress", "seed_progress"} => ~launched
        /\ enqueuer.pc \in {"del_context", "seed_context", "enqueue", "record"} \/ launched =>
              progress.generation >= enqueuer.generation

LEMMA HashInit == Init => HashInv
BY SourceZero, PipelineAssumption DEF Init, HashInv, Generations, PipelineAssumption

\* Nothing is launched and the hash moves forward, if at all.
LEMMA HashKept ==
    ASSUME TypeOK, TypeOK', HashInv, enqueuer' = enqueuer, progress'.generation >= progress.generation,
           \A g \in Generations : Launched(g)' => Launched(g)
    PROVE  HashInv'
<1>1. progress.generation \in Nat /\ progress'.generation \in Nat /\ enqueuer.generation \in Nat
  BY PipelineAssumption DEF TypeOK, ProgressType, EnqueuerType, Source, PipelineAssumption
<1> QED BY <1>1 DEF HashInv

LEMMA WriteProgressForward ==
    ASSUME TypeOK, NEW g \in Generations, NEW status, WriteProgress(g, status) \/ progress' = progress
    PROVE  progress'.generation >= progress.generation
<1>1. progress.generation \in Nat /\ g \in Nat
  BY PipelineAssumption DEF TypeOK, ProgressType, Source, Generations, PipelineAssumption
<1> QED BY <1>1 DEF WriteProgress, OwnsProgress

LEMMA HashEnqueuer ==
    ASSUME TypeOK, TypeOK', ContextInv, HashInv, ClaimRetry \/ Enqueuer \/ EnqueueRaises \/ EnqueuerDies
    PROVE  HashInv'
<1>1. /\ progress.generation \in Nat /\ enqueuer.generation \in Nat /\ generation \in Nat
      /\ enqueuer'.generation \in Nat
  BY PipelineAssumption DEF TypeOK, ProgressType, EnqueuerType, Source, PipelineAssumption
<1>2. CASE ClaimRetry
  BY <1>2 DEF TypeOK, EnqueuerType, ClaimRetry, EnqueuerAt, redisVars, HashInv, Launched
<1>3. CASE EnqueueBump
  <2>1. /\ enqueuer'.pc = "del_progress" /\ enqueuer'.generation = generation + 1
        /\ subjob' = subjob
    BY <1>3 DEF TypeOK, EnqueuerType, EnqueueBump
  <2>2. ~(enqueuer'.generation \in Generations /\ Launched(enqueuer'.generation))
    BY <1>1, <2>1 DEF ContextInv, CounterAhead
  <2> QED BY <2>1, <2>2 DEF HashInv, Launched
<1>4. CASE DeleteProgress
  BY <1>4 DEF TypeOK, EnqueuerType, DeleteProgress, EnqueuerAt, EnqueuerGoto, HashInv, Launched
<1>5. CASE SeedProgress
  BY <1>1, <1>5 DEF TypeOK, EnqueuerType, SeedProgress, EnqueuerAt, EnqueuerGoto, HashInv, Launched
<1>6. CASE DeleteContext
  BY <1>6 DEF TypeOK, EnqueuerType, DeleteContext, EnqueuerAt, EnqueuerGoto, HashInv, Launched
<1>7. CASE SeedContext
  BY <1>7 DEF TypeOK, EnqueuerType, SeedContext, EnqueuerAt, EnqueuerGoto, HashInv, Launched
<1>8. CASE \E s \in Stages : EnqueueStage(s)
  <2>1. /\ enqueuer.pc = "enqueue" /\ enqueuer'.pc = "record"
        /\ enqueuer'.generation = enqueuer.generation /\ progress' = progress
    BY <1>8 DEF TypeOK, EnqueuerType, EnqueueStage, EnqueuerAt, redisVars
  <2> QED BY <1>1, <2>1 DEF HashInv
<1>9. CASE RecordSubjob
  BY <1>9 DEF TypeOK, EnqueuerType, RecordSubjob, EnqueuerAt, EnqueuerGoto, HashInv, Launched
<1>10. CASE MarkEnqueueFailed \/ EnqueueRaises \/ EnqueuerDies
  BY <1>10 DEF TypeOK, EnqueuerType, MarkEnqueueFailed, EnqueueRaises, EnqueuerDies, EnqueuerAt,
               EnqueuerGoto, redisVars, HashInv, Launched
<1> QED
  BY <1>2, <1>3, <1>4, <1>5, <1>6, <1>7, <1>8, <1>9, <1>10 DEF Enqueuer

\* A sub-job keeps the status "none" in every step of a worker.
LEMMA HashWorker ==
    ASSUME TypeOK, TypeOK', ContextInv, HashInv, NEW g \in Generations, NEW s \in Stages,
           \/ StartSubjob(g, s) \/ RunStage(g, s) \/ Report(g, s) \/ ReportDegraded(g, s)
           \/ StageReturns(g, s) \/ StageRaises(g, s) \/ Callback(g, s) \/ CallbackRaises(g, s)
           \/ AcknowledgeSubjob(g, s) \/ KillHorse(g, s) \/ Crash(g, s) \/ Abandon(g, s)
    PROVE  HashInv'
<1>1. progress.generation >= progress.generation
  BY PipelineAssumption DEF TypeOK, ProgressType, Source, PipelineAssumption
<1>2. CASE subjob' = subjob /\ enqueuer' = enqueuer /\
           (progress' = progress \/ \E status : WriteProgress(g, status))
  BY <1>1, <1>2, WriteProgressForward, HashKept DEF Launched
<1>3. CASE StartSubjob(g, s)
  <2>1. \A h \in Generations, t \in Stages : subjob'[h][t] # "none" => subjob[h][t] # "none"
    BY <1>3 DEF TypeOK, PerSubjob, StartSubjob
  <2> QED BY <1>1, <1>3, <2>1, HashKept DEF StartSubjob, redisVars, Launched
<1>4. CASE CancelSubjob(g, s)
  <2>1. PICK t \in local[g][s].todo : subjob' = [subjob EXCEPT ![g][t] = "canceled"]
    BY <1>4 DEF CancelSubjob
  <2>2. \A h \in Generations : Launched(h)' => Launched(h)
    <3>1. subjob[g][s] # "none"
      BY <1>4 DEF CancelSubjob, ContextInv, RunningIsLaunched
    <3> QED BY <2>1, <3>1 DEF TypeOK, PerSubjob, Launched
  <2> QED BY <1>1, <1>4, <2>2, HashKept DEF CancelSubjob, redisVars
<1>5. CASE AcknowledgeSubjob(g, s)
  <2>1. \A h \in Generations, t \in Stages : subjob'[h][t] # "none" => subjob[h][t] # "none"
    BY <1>5 DEF TypeOK, PerSubjob, AcknowledgeSubjob, Step, ContextInv, RunningIsLaunched
  <2> QED BY <1>1, <1>5, <2>1, HashKept DEF AcknowledgeSubjob, redisVars, Launched
<1>6. CASE RunStage(g, s)
  BY <1>2, <1>6 DEF RunStage, LoadJob, MarkProcessing, LoadContext, SeedFromJob, Mirror,
                    MirrorDegraded, PersistOutputs, redisVars
<1>7. CASE Report(g, s) \/ ReportDegraded(g, s) \/ StageReturns(g, s) \/ StageRaises(g, s)
  BY <1>2, <1>7 DEF Report, ReportDegraded, StageReturns, StageRaises, redisVars
<1>8. CASE KillHorse(g, s) \/ Crash(g, s) \/ Abandon(g, s) \/ CallbackRaises(g, s)
  BY <1>2, <1>8 DEF KillHorse, Crash, Abandon, CallbackRaises, redisVars
<1>9. CASE Callback(g, s) /\ ~CancelSubjob(g, s)
  BY <1>2, <1>9
  DEF Callback, CheckSuccessStale, ReadJobOnSuccess, ReadContextOnSuccess, MarkFailedRow,
      MarkFailedProgress, SaveResult, CompleteRow, CompleteProgress, CheckFailureStale,
      ReadJobOnFailure, ReadContextOnFailure, LoadSubjobIds, CancelDone, FenceGeneration,
      CleanupWav, CleanupContext, ClearSubjobSet, redisVars
<1> QED
  BY <1>3, <1>4, <1>5, <1>6, <1>7, <1>8, <1>9

LEMMA HashNext == TypeOK /\ TypeOK' /\ ContextInv /\ HashInv /\ [Next]_vars => HashInv'
<1> SUFFICES ASSUME TypeOK, TypeOK', ContextInv, HashInv, [Next]_vars PROVE HashInv'
  OBVIOUS
<1>1. ASSUME UNCHANGED <<progress, subjob, enqueuer>> PROVE HashInv'
  BY <1>1 DEF HashInv, Launched
<1>2. CASE Age
  BY <1>1, <1>2 DEF Age, redisVars
<1>3. ASSUME NEW r \in Reapers, Reap(r) PROVE HashInv'
  BY <1>1, <1>3
  DEF Reap, ListStale, ReadGeneration, ReadSubjobIds, ScanSubjob, ReaperBump, RecoverStale, redisVars
<1>4. CASE UNCHANGED vars
  BY <1>1, <1>4 DEF vars
<1> QED
  BY <1>2, <1>3, <1>4, HashEnqueuer, HashWorker DEF Next

\* Once the newest attempt has a sub-job, the hash the UI polls is its own for good,
\* however many attempts, zombies and faults there are.
THEOREM HashStaysNewest == Spec => []HashOfNewestAttempt
<1>1. HashInv /\ TypeOK => HashOfNewestAttempt
  BY PipelineAssumption
  DEF HashInv, TypeOK, EnqueuerType, Source, Generations, PipelineAssumption, HashOfNewestAttempt,
      Newest, Launched
<1> QED
  BY <1>1, TypeInit, TypeNext, ContextInit, ContextNext, HashInit, HashNext, PTL DEF Spec
=============================================================================
