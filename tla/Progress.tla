------------------------------ MODULE Progress ------------------------------
(***************************************************************************)
(* The progress bar of one job: the bands of pipeline/progress_bands.py,   *)
(* the throttled reporter each stage task builds (worker/runtime.py), the  *)
(* Lua scripts behind it (worker/progress.py) and the heartbeat thread of  *)
(* pipeline/diarize.py.  Pipeline.tla has who may write the hash; this     *)
(* module has what the bar of one attempt shows.                           *)
(*                                                                         *)
(* Progress counts in millionths.  A stage is abstracted to the reports it *)
(* makes: any local percentages of a small set, and at the end 1.0 with a  *)
(* message of its own.  A message is "run" or "done" of its stage; time is *)
(* whether the throttle's interval has elapsed.                            *)
(***************************************************************************)
EXTENDS Integers, Sequences, SequencesExt

CONSTANTS
    Shapes,            \* the pipeline shapes: [download, diarize, llm : BOOLEAN]
    Percentages,       \* the local progress a running stage may report
    MaxReportFaults    \* bound on reports that find Redis away

ASSUME ProgressAssumption ==
    /\ Shapes \subseteq [download : BOOLEAN, diarize : BOOLEAN, llm : BOOLEAN]
    /\ Percentages \subseteq 0..100
    /\ MaxReportFaults \in Nat

VARIABLES
    shape,         \* which optional stages the job has
    bar,           \* Redis job:{id} of this attempt, and which task wrote it last
    task,          \* the stage tasks, each with its reporter and heartbeat thread
    retired,       \* the generation counter has moved past this attempt
    reportFaults   \* faults left to inject

progressVars == <<shape, bar, task, retired, reportFaults>>

One == 1000000
MinDelta == 5000  \* PROGRESS_WRITE_MIN_DELTA

Tasks == <<"download", "preprocess", "transcribe_align", "diarize", "assign_speakers",
           "postprocess", "llm_correction">>
TaskNames == Range(Tasks)
StageNames == TaskNames \cup {"transcribe", "align"}

-----------------------------------------------------------------------------
(* build_stage_weights *)

\* _STAGE_RELATIVE_WEIGHTS, and _POSTPROCESS_WEIGHT_WITH_LLM.
RelativeWeights == [download |-> 15, preprocess |-> 5, transcribe |-> 50, align |-> 10, diarize |-> 25,
                    assign_speakers |-> 5, postprocess |-> 5, llm_correction |-> 8]
Weight(stage, s) == IF stage = "postprocess" /\ s.llm THEN 2 ELSE RelativeWeights[stage]

\* The stages in the order of their bands, and the ones a shape has.
BandOrder == <<"download", "preprocess", "transcribe", "align", "diarize", "assign_speakers",
               "postprocess", "llm_correction">>
HasBand(stage, s) == /\ stage = "download" => s.download
                     /\ stage = "diarize" => s.diarize
                     /\ stage = "llm_correction" => s.llm

\* The cursor behind the first k of them: a stage that the shape does not have adds nothing.
Cursor(k, s) ==
    LET w(j) == IF j <= k /\ HasBand(BandOrder[j], s) THEN Weight(BandOrder[j], s) ELSE 0
    IN  w(1) + w(2) + w(3) + w(4) + w(5) + w(6) + w(7) + w(8)

\* Mutant: the optional LLM stage is left out of the total.
TotalWeight_WithoutLlm(s) == Cursor(7, s)

TotalWeight(s) == Cursor(8, s)

\* round(cursor / total, 4), in millionths.
Share(cursor, total) == 100 * ((20000 * cursor + total) \div (2 * total))

Place(stage) == CHOOSE k \in 1..8 : BandOrder[k] = stage

\* The (start, end) of each stage of each shape; a name without a band has (0, 1).
Bands == [s \in Shapes |-> [stage \in StageNames |->
    IF stage \in Range(BandOrder) /\ HasBand(stage, s)
    THEN <<Share(Cursor(Place(stage) - 1, s), TotalWeight(s)), Share(Cursor(Place(stage), s), TotalWeight(s))>>
    ELSE <<0, One>>]]

\* _banded_progress
Banded(stage, percent) ==
    LET band == Bands[shape][stage] IN band[1] + (percent * (band[2] - band[1])) \div 100

\* run_transcribe_align reports through two bands, every other task through one.
LastBand(t) == IF t = "transcribe_align" THEN "align" ELSE t

-----------------------------------------------------------------------------

\* A task before it runs, and one that no longer does: only whether its last report
\* was accepted is remembered of it.
Idle(pc) == [pc |-> pc, stage |-> "", last |-> -1, message |-> "", heart |-> FALSE, seen |-> FALSE]

ProgressTypeOK ==
    /\ shape \in Shapes
    /\ bar \in [progress : 0..One, status : {"queued", "processing", "failed", "completed"},
                writer : TaskNames \cup {""}]
    /\ task \in [TaskNames ->
            [pc : {"waiting", "running", "ended", "failed", "canceled", "reported", "stopped"},
             stage : StageNames \cup {""}, last : -1..One,
             message : {"", "run", "done", "beat"}, heart : BOOLEAN, seen : BOOLEAN]]
    /\ retired \in BOOLEAN
    /\ reportFaults \in 0..MaxReportFaults

\* enqueue_pipeline has seeded the hash.
ProgressInit ==
    /\ shape \in Shapes
    /\ bar = [progress |-> 0, status |-> "queued", writer |-> ""]
    /\ task = [t \in TaskNames |-> Idle("waiting")]
    /\ retired = FALSE
    /\ reportFaults = MaxReportFaults

\* The tasks of this job and the ones a task depends on.
ActiveTasks == {t \in TaskNames : /\ t = "download" => shape.download
                                  /\ t = "diarize" => shape.diarize
                                  /\ t = "llm_correction" => shape.llm}
Predecessors(t) ==
    ActiveTasks \cap (CASE t = "preprocess" -> {"download"}
                        [] t \in {"transcribe_align", "diarize"} -> {"preprocess"}
                        [] t = "assign_speakers" -> {"transcribe_align", "diarize"}
                        [] t = "postprocess" -> {"assign_speakers"}
                        [] t = "llm_correction" -> {"postprocess"}
                        [] OTHER -> {})
AnyFailed == \E d \in TaskNames : task[d].pc \in {"failed", "canceled", "reported"}

\* finalize_failure of some task is past cancel_remaining_subjobs.
SiblingsCanceled == \E d \in TaskNames : task[d].pc \in {"canceled", "reported"}

-----------------------------------------------------------------------------
(* _ThrottledProgressReporter *)

\* Mutant: only progress counts, not the message.
Throttled_IgnoringMessage(r, p, message, elapsed) ==
    /\ r.last >= 0 /\ p < One
    /\ p - r.last < MinDelta /\ ~elapsed

\* _should_throttle: the first report, a new message and 1.0 always pass.
Throttled(r, p, message, elapsed) ==
    /\ r.last >= 0 /\ message = r.message /\ p < One
    /\ p - r.last < MinDelta /\ ~elapsed

\* The monotonicity guard of __call__.
Regresses(r, p) == r.last >= 0 /\ p < r.last

\* Mutant: the last writer wins.
MaxWrite_LastWins(t, p) == [progress |-> p, status |-> "processing", writer |-> t]

\* _PROGRESS_MAX_WRITE_LUA within a generation: progress only rises.
MaxWrite(t, p) ==
    [progress |-> IF p >= bar.progress THEN p ELSE bar.progress, status |-> "processing", writer |-> t]

\* One call of on_progress, after which the task is left as r.  A report that the
\* script rejects leaves the reporter's state alone, one that finds Redis away does not.
OnProgress(t, r, p, message, elapsed) ==
    LET dropped == Regresses(task[t], p) \/ Throttled(task[t], p, message, elapsed)
        written(seen) == IF r.pc # "running" THEN [r EXCEPT !.seen = seen]
                         ELSE [r EXCEPT !.last = p, !.message = message, !.seen = seen]
    IN  \/ /\ dropped
           /\ task' = [task EXCEPT ![t] = [r EXCEPT !.seen = task[t].seen]]
           /\ UNCHANGED <<bar, reportFaults>>
        \/ /\ ~dropped /\ retired
           /\ task' = [task EXCEPT ![t] = [r EXCEPT !.seen = FALSE]]
           /\ UNCHANGED <<bar, reportFaults>>
        \/ /\ ~dropped /\ ~retired
           /\ task' = [task EXCEPT ![t] = written(TRUE)]
           /\ bar' = MaxWrite(t, p)
           /\ UNCHANGED reportFaults
        \/ /\ ~dropped /\ reportFaults > 0
           /\ task' = [task EXCEPT ![t] = written(FALSE)]
           /\ reportFaults' = reportFaults - 1
           /\ UNCHANGED bar

-----------------------------------------------------------------------------
(* The stage tasks *)

\* A worker takes the task, once what it depends on has finished; one that is queued
\* when a sibling fails may still be taken until finalize_failure cancels it.
StartTask(t) ==
    /\ t \in ActiveTasks /\ ~SiblingsCanceled
    /\ task[t].pc = "waiting"
    /\ \A d \in Predecessors(t) : task[d].pc = "ended"
    /\ task' = [task EXCEPT ![t] =
            [Idle("running") EXCEPT !.stage = IF t = "transcribe_align" THEN "transcribe" ELSE t]]
    /\ UNCHANGED <<shape, bar, retired, reportFaults>>

\* The stage reports from the main thread, which is not inside the inference call.
ReportProgress(t) ==
    /\ task[t].pc = "running" /\ ~task[t].heart
    /\ \E percent \in Percentages, elapsed \in BOOLEAN :
          OnProgress(t, task[t], Banded(task[t].stage, percent), "run", elapsed)
    /\ UNCHANGED <<shape, retired>>

\* The last report of transcribe; align goes on with the same reporter.
FinishTranscribe ==
    LET r == task["transcribe_align"] IN
    /\ r.pc = "running" /\ r.stage = "transcribe"
    /\ \E elapsed \in BOOLEAN :
          OnProgress("transcribe_align", [r EXCEPT !.stage = "align"], Banded("transcribe", 100), "done", elapsed)
    /\ UNCHANGED <<shape, retired>>

\* The last report of a task, which then returns.
FinishTask(t) ==
    LET r == task[t] IN
    /\ r.pc = "running" /\ r.stage = LastBand(t) /\ ~r.heart
    /\ \E elapsed \in BOOLEAN : OnProgress(t, Idle("ended"), Banded(r.stage, 100), "done", elapsed)
    /\ UNCHANGED <<shape, retired>>

\* The diarization pipeline is called under _heartbeat ...
StartHeartbeat ==
    /\ task["diarize"].pc = "running" /\ ~task["diarize"].heart
    /\ task' = [task EXCEPT !["diarize"].heart = TRUE]
    /\ UNCHANGED <<shape, bar, retired, reportFaults>>

\* ... whose daemon thread reports values below 0.95 with an ever new message ...
Heartbeat ==
    LET r == task["diarize"] IN
    /\ r.heart
    /\ \E percent \in {n \in Percentages : n < 95} :
          OnProgress("diarize", r, Banded("diarize", percent), "beat", TRUE)
    /\ UNCHANGED <<shape, retired>>

\* Mutant: the call returns or raises without waiting for the thread.
InferenceEnds_Unjoined(raises) ==
    /\ task["diarize"].pc = "running" /\ task["diarize"].heart
    /\ task' = [task EXCEPT !["diarize"].pc = IF raises THEN "failed" ELSE "running"]
    /\ UNCHANGED <<shape, bar, retired, reportFaults>>

\* ... and is joined when the call returns, or raises and fails the task.
InferenceEnds(raises) ==
    /\ task["diarize"].pc = "running" /\ task["diarize"].heart
    /\ task' = [task EXCEPT !["diarize"] =
            IF raises THEN Idle("failed") ELSE [@ EXCEPT !.heart = FALSE]]
    /\ UNCHANGED <<shape, bar, retired, reportFaults>>

\* A stage raises.
FailTask(t) ==
    /\ task[t].pc = "running" /\ ~task[t].heart
    /\ task' = [task EXCEPT ![t] = Idle("failed")]
    /\ UNCHANGED <<shape, bar, retired, reportFaults>>

\* finalize_failure: cancel_remaining_subjobs, reporter.fail, then _bump_generation ...
CancelSiblings(t) ==
    /\ task[t].pc = "failed" /\ t # "llm_correction"
    /\ task' = [task EXCEPT ![t].pc = "canceled"]
    /\ UNCHANGED <<shape, bar, retired, reportFaults>>

ReportFailure(t) ==
    /\ task[t].pc = "canceled"
    /\ bar' = IF retired THEN bar ELSE [progress |-> 0, status |-> "failed", writer |-> t]
    /\ task' = [task EXCEPT ![t].pc = "reported"]
    /\ UNCHANGED <<shape, retired, reportFaults>>

RetireGeneration(t) ==
    /\ task[t].pc = "reported" /\ t # "llm_correction" /\ ~retired
    /\ retired' = TRUE
    /\ UNCHANGED <<shape, bar, task, reportFaults>>

\* ... but a job whose optional tail fails is completed with the transcript it has.
SalvageTranscript ==
    /\ task["llm_correction"].pc = "failed"
    /\ task' = [task EXCEPT !["llm_correction"].pc = "reported"]
    /\ bar' = [progress |-> One, status |-> "completed", writer |-> ""]
    /\ UNCHANGED <<shape, retired, reportFaults>>

\* The stop command reaches a sibling; one it does not reach runs on.
StopTask(t) ==
    /\ task[t].pc = "running" /\ SiblingsCanceled
    /\ task' = [task EXCEPT ![t] = Idle("stopped")]
    /\ UNCHANGED <<shape, bar, retired, reportFaults>>

\* finalize_success: reporter.complete.
ReportCompletion ==
    /\ \A t \in ActiveTasks : task[t].pc = "ended"
    /\ bar.status # "completed"
    /\ bar' = [progress |-> One, status |-> "completed", writer |-> ""]
    /\ UNCHANGED <<shape, task, retired, reportFaults>>

ProgressStep ==
    \/ \E t \in TaskNames : \/ StartTask(t) \/ ReportProgress(t) \/ FinishTask(t) \/ FailTask(t)
                            \/ CancelSiblings(t) \/ ReportFailure(t) \/ RetireGeneration(t) \/ StopTask(t)
    \/ SalvageTranscript
    \/ FinishTranscribe
    \/ StartHeartbeat \/ Heartbeat
    \/ \E raises \in BOOLEAN : InferenceEnds(raises)
    \/ ReportCompletion

ProgressSpec == ProgressInit /\ [][ProgressStep]_progressVars

-----------------------------------------------------------------------------
(* Properties *)

\* In every shape that is processed the bands partition the bar: the first starts at 0, the last ends
\* at 1, each begins where the one before it ends, and rounding leaves none empty.
BandsPartition ==
    LET places == {k \in 1..8 : HasBand(BandOrder[k], shape)}
        band(k) == Bands[shape][BandOrder[k]]
    IN  bar.status = "processing" => \A k \in places :
            /\ band(k)[1] < band(k)[2]
            /\ (\A j \in places : j >= k) => band(k)[1] = 0
            /\ (\A j \in places : j <= k) => band(k)[2] = One
            /\ \A j \in places : j < k /\ (\A i \in places : i <= j \/ i >= k) => band(k)[1] = band(j)[2]

\* Once a stage whose last report reached Redis has finished, the bar stands at the end
\* of its band or beyond, whatever its throttle dropped before and whatever a parallel
\* branch further behind has reported since.
StageShowsItsEnd ==
    ~AnyFailed => \A t \in TaskNames :
        task[t].pc = "ended" /\ task[t].seen => bar.progress >= Bands[shape][LastBand(t)][2]

\* While the job is being processed its bar never moves back, though two branches
\* report at once.
BarNeverRewinds ==
    [][bar.status = "processing" /\ bar'.status = "processing" => bar'.progress >= bar.progress]_progressVars

\* A task reports only while it runs: in particular its heartbeat thread never turns
\* a hash "processing" again after the task has failed.
EndedTaskIsSilent ==
    [][bar' # bar /\ bar'.status = "processing" => task[bar'.writer].pc = "running"]_progressVars
=============================================================================
