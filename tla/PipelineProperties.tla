------------------------- MODULE PipelineProperties -------------------------
(***************************************************************************)
(* The correctness properties of Pipeline.  Those under the first heading  *)
(* hold in the configurations the README names; those under the second     *)
(* are what comments of the repository promise and the code does not keep. *)
(***************************************************************************)
EXTENDS Pipeline

\* No process runs, none is about to, and the reapers sleep.
Quiescent ==
    /\ EnqueuerAt("idle")
    /\ \A r \in Reapers : reaper[r].pc = "idle"
    /\ \A g \in Generations, s \in Stages :
          /\ pc[g][s] \notin RunningPcs
          /\ ~(subjob[g][s] = "queued" /\ pc[g][s] = "idle")
          /\ ~(subjob[g][s] = "started" /\ pc[g][s] = "dead")

\* The attempt that enqueue_pipeline started last.
Newest == enqueuer.generation

Terminal == {"completed", "failed"}

-----------------------------------------------------------------------------
(* Properties that hold *)

\* The context hash never mixes the outputs of two attempts, whatever zombie
\* stage of a superseded attempt still writes (context_store.py: the gate
\* "exists to isolate retries").
NoMixedContext ==
    \A k1, k2 \in OutputKeys :
        context[k1] # 0 /\ context[k2] # 0 => context[k1] = context[k2]

\* The path of an upload is the same in every attempt.
UploadKeys == IF HasDownload THEN {} ELSE {"input_path"}

\* A stage of the current attempt computes on every input its pipeline/*.py
\* reads, and each of them was produced by this attempt: the depends_on edges,
\* the gates and the order of the failure clean-up leave no hole.
InputsOfOwnAttempt ==
    \A g \in Generations, s \in Stages :
        pc[g][s] = "run" /\ g = generation /\ s # "download" =>
            \A k \in InputKeys(s) \ UploadKeys : local[g][s].context[k] = g

\* A COMPLETED row points at a transcript that is on disk and is the newest
\* attempt's: finalize_success saves before it commits and a stale callback
\* cannot complete a retry with the old attempt's transcript.
CompletedMeansSaved ==
    row.status = "completed" =>
        /\ transcript = Newest /\ row.result_path = transcript /\ transcript # 0

\* The progress hash the UI polls never goes back to a superseded attempt: once
\* a retry has sub-jobs, only their generation or a later one writes it.
HashOfNewestAttempt ==
    Newest # 0 /\ (\E s \in Stages : subjob[Newest][s] # "none") =>
        progress.generation >= Newest

\* When everything has come to rest in a terminal state, what the UI polls agrees
\* with the row: mark_failed and _persist_completion write both before the
\* generation they are gated on moves.
HashMatchesRow ==
    Quiescent /\ row.status \in Terminal => progress.status = row.status

\* ... no context hash is left for a later attempt to find, and no WAV of a COMPLETED
\* job.  SerialProofs proves it for jobs whose stages run one at a time; with the
\* diarize branch, a stage that outlives its attempt can leave one behind.
NothingLeftBehind ==
    Quiescent /\ row.status \in Terminal =>
        /\ context = NoContext
        /\ row.status = "completed" => ~wav

\* A callback of a superseded attempt touches nothing the newest one uses
\* (finalize_failure: "without this guard an attempt 1 failure could mark an
\* in-flight attempt 2 as FAILED and cancel all of attempt 2's sub-jobs").
StaleCallbacksAreInert ==
    [][ \A g \in Generations, s \in Stages :
          g < Newest /\ pc[g][s] \in CallbackPcs /\ Callback(g, s) =>
              UNCHANGED <<row, generation, progress, context, transcript, subjob>> ]_vars

\* Once an attempt has reached its llm_correction sub-job, that optional stage
\* cannot cost the user the transcript: whichever way it fails, the
\* attempt does not end FAILED (finalize_failure, "optional stages must never
\* discard a finished transcript").
OptionalStageNeverFailsJob ==
    [][ \A g \in Generations :
          g = Newest /\ HasLlm /\ pc[g]["llm_correction"] \in RunningPcs
          /\ row.status # "failed" => row'.status # "failed" ]_vars

\* The reaper fails a job only when no sub-job that its attempt recorded can
\* still make progress (is_pipeline_dead, recover_stale_pipeline_jobs).
RecoverOnlyDead ==
    [][ \A r \in Reapers :
          RecoverStale(r) /\ row.status \in Active /\ row'.status = "failed" =>
              \A g \in Generations \cap {reaper[r].generation} : \A s \in tracked[g] :
                  pc[g][s] \notin StagePcs /\ subjob[g][s] # "queued" ]_vars

\* The job as its owner sees it.
Lifecycle == INSTANCE JobLifecycle WITH
    status <- row.status,
    transcript <- IF transcript = 0 THEN "none"
                  ELSE IF transcript = Newest /\ ~EnqueuerAt("bump") THEN "current"
                  ELSE "stale"

\* Pipeline implements JobLifecycle: an attempt ends once, its completion follows
\* the save, a terminal job changes only by a retry ...
LifecycleKept == Lifecycle!Spec

\* ... and every attempt ends.
EveryAttemptEnds == Lifecycle!FairSpec

\* The liveness half alone, for the configurations in which faults break the
\* safety half: no job stays QUEUED or PROCESSING for ever.
NoJobIsStranded == row.status \in Active ~> row.status \in Terminal

-----------------------------------------------------------------------------
(* Promises of the documentation that the code breaks *)

\* "A sibling that keeps running [...] cannot corrupt state: finalize_failure
\* bumps the generation right after marking the parent FAILED, so every gated
\* write from the zombie stage is rejected" (pipeline_callbacks.py): a FAILED row
\* leaves FAILED only by a retry.
ZombieCannotRevive ==
    [][ row.status = "failed" /\ row'.status # "failed" => ClaimRetry ]_vars

\* "This can never demote an already-COMPLETED job" (_persist_completion).
CompletedIsFinal == [][ row.status = "completed" => row'.status = "completed" ]_vars

\* "The first invocation (for the current generation) marks the parent FAILED"
\* (finalize_failure): an attempt with a failed or canceled sub-job does not come
\* to rest QUEUED or PROCESSING.
FailureMarksParent ==
    Quiescent /\ Newest # 0 /\ (\E s \in Stages : subjob[Newest][s] \in {"failed", "canceled"})
        => row.status \in Terminal
=============================================================================
