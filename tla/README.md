# Whisper-UI: TLA+ models and proofs

Whisper-UI takes an audio or video file (or a URL), runs it through a graph of RQ
sub-jobs and shows the transcript. This directory keeps the TLA+ specification of
what makes that hard: a web process that enqueues and retries, several workers
that run the sub-jobs of one job in parallel, RQ callbacks that finish it, and a
background checker that recovers the jobs nobody finishes. They share a SQLite row,
a handful of Redis keys and two files, and hold no lock across two accesses. Around it are
requests that decide on a row, await something and then act on it: those that manage the
files of the jobs, and those that log users in and administer them. And each stage has hard
parts of its own: retries of a download, replies of a language model, a progress bar that several
threads write, timeouts that are changed while they are being set, keys that expire.

Paths below are relative to `src/whisper_ui/`.

    Pipeline.tla             the system: state, actions, Spec, FairSpec
    JobLifecycle.tla         what it promises about a job, as its owner sees it
    PipelineProperties.tla   the properties, and the refinement mapping
    MCPipeline.tla, *.cfg    the TLC configurations
    PipelineProofs.tla       types, the fencing of the context and of the progress hash
    AttemptProofs.tla        superseded callbacks, inputs of stages, what the reaper sees
    SerialProofs.tla         jobs whose stages run one at a time; the refinement, step by step
    Library.tla              rows and files of several jobs: submit, retry, delete, sweep
    Accounts.tla             users, sessions, login limits
    Migrations.tla           init_db, run by processes that open the database together
    LlmCorrection.tla        the correction stage, chunk by chunk
    Download.tla             the runs of the download stage in one directory
    Intake.tla               a submission of URLs and playlists
    Progress.tla             the progress bar of one attempt: bands, throttle, heartbeat
    Timeouts.tla             the timeouts of one attempt's sub-jobs
    KeyExpiry.tla            the Redis keys of a job that waits for days
    MC<module>.tla, *.cfg    configurations; MCComponents is for the last seven
    LibraryProofs.tla, AccountsProofs.tla
    MediaProofs.tla          theorems about LlmCorrection, Download, Intake
    TimingProofs.tla         theorems about Timeouts, KeyExpiry, Progress
    ComponentsProofs.tla     theorems about Migrations, and about MCComponents as a whole
    PROJECT.json             the map from definitions to source lines, runs, hazards

To check: `tlc -config MC<module>_<run>.cfg MC<module>`; to prove: `tlapm <name>Proofs.tla`.

## 1. Inventory

### Components, their state and operations

**Pipeline dispatcher** (`worker/pipeline_dispatcher.py`, `worker/pipeline_callbacks.py`).
State: `whisper:pipeline:{id}:generation`, `whisper:pipeline:{id}:subjobs:{gen}`, RQ
sub-jobs. Operations: `enqueue_pipeline` (bump the generation, reset the progress
hash, initialise the context, enqueue every stage with its `depends_on` and record its id),
`finalize_success`, `finalize_failure`, `cancel_remaining_subjobs`, `mark_failed`,
`_persist_completion`, `is_pipeline_dead`, `recover_stale_pipeline_jobs`,
`adjust_subjob_timeouts`. Hard: both finalizers are sequences of unrelated reads and
writes in a worker, which a retry, a sibling's callback, a stop command or a crash
can cut at any point. Correct when: each attempt ends once; a completed job has its own transcript;
a superseded attempt touches nothing of the newer one; no job stays active for ever.

**Stage tasks** (`worker/stage_tasks.py`). The driver every sub-job runs: load the
row, mark it PROCESSING, load the context, seed it, execute the stage, write its
outputs. Hard: the Job object read at the start is written back, whole, at every progress
report. Correct when: a stage reads inputs of its own attempt only.

**Context store** (`worker/context_store.py`). One Redis hash per job, *not* per
attempt; `initialize`, `load`, `update`, `update_if_generation_matches` (a Lua script
that compares the generation counter and writes in one step), `delete`. Correct when:
retries are isolated from each other's outputs.

**Progress reporter** (`worker/progress.py`). The hash the UI polls, written by three Lua
scripts: a max-write of the progress value, gated on the counter and on the generation
in the hash, and two terminal writes. Outcomes ACCEPTED, REJECTED, DEGRADED.

**Worker runtime** (`worker/runtime.py`, `worker/__main__.py`). Mirrors accepted reports
into SQLite, throttles them, carries the diarize heartbeat thread, removes the WAV.

**Job database** (`storage/database.py`, `core/models.py`). The row, with full-column
`update_job`, the conditional updates `try_claim_retry`, `delete_terminal_job`,
`recover_stale_jobs`, and the queries.

**Stale-job reaper** (`web/app.py` 150-200, dispatcher, database). A loop in the web
process: list active rows not updated for hours, judge each one's sub-jobs, bump the
generation of the dead ones, fail their rows. Correct when: it fails only dead jobs, and every dead one.

**Job and upload routes** (`web/routes/jobs.py`, `upload.py`, `viewer.py`, `shared.py`).
Submit, retry, bulk retry, delete, re-transcribe, batches, share links. Hard: each decides on a row read
before an `await`.

**File store and retention** (`storage/filestore.py`, `web/app.py` 120-148). Upload
directory and result file per job; a sweep removes uploads of old COMPLETED jobs.
Correct when: the upload of a job that can still run is never removed, and every expired one is.

**Accounts** (`storage/users_repo.py`, `web/auth.py`, `web/routes/auth_routes.py`,
`admin.py`). Users, roles, session versions, the bootstrap latch. Hard: a login awaits a slow
hash between reading the row and storing the session. Correct when: there is always an active
administrator and a reset or deactivation ends older sessions.

**Rate limiter** (`web/rate_limit.py`): fixed-window counters per user and per address, gates on the two above.

**Migrations** (`storage/migrations.py`). `init_db` runs on every connection that frontend and
workers open: SCHEMA_SQL, then one ALTER or CREATE per statement, each committed by itself. Hard:
several processes start together on a file of any release, and may die between two statements. Correct
when: whoever returns has the current schema.

**Download and URL validation** (`pipeline/download.py`, `core/url_validation.py`, `web/playlist.py`,
`web/routes/upload.py`). A form of links is validated line by line, playlists are expanded at YouTube, a job per
video is inserted and enqueued; hours later the download stage looks at the URL again and drives yt-dlp or gdown. Correct
when: all of them take the URL for the same thing; a video has one job; a retry takes no leftover of a killed run.

**LLM correction** (`pipeline/llm_correction.py`). Chunks of segments corrected in place; a bad reply costs
its chunk only, a timeout the whole stage (the job then completes with the uncorrected transcript). Correct when: no reply is half applied in what is stored, and the outcome reported is true.

**Progress bar** (`pipeline/progress_bands.py`, `worker/runtime.py`, `worker/progress.py`, `pipeline/diarize.py`).
Bands per stage, a throttled reporter per task, a max-write in Redis, a heartbeat thread. Correct when: the bar
never moves back and shows the end of every stage.

**Timeouts** (`core/config.py`, `worker/timeout.py`, `adjust_subjob_timeouts`). Duration-scaled, clamped, and resized
by preprocess while the web process may still be recording the sub-jobs. Correct when: no stage's
timeout is longer than the idle time after which the reaper looks at its job, nor below the floor.

**Speech stages, exporters, dashboard, configuration**: computation, formatting and wiring.

### How they interact

    browser -> routes -> enqueue_pipeline -> RQ queues -> workers: stage tasks
                 |              |                             |  outputs -> context hash
                 |              v                             |  reports -> progress hash -> row
                 |        generation, context,                v
                 |        progress, tracked ids      RQ callbacks: finalizers -> file, row, hashes
                 v                                            ^
        row (SQLite) <----- reaper (web process) ----- RQ maintenance replays the
                                                       failure callback of a dead worker

The generation counter is the only fence between attempts: `enqueue_pipeline`,
`finalize_failure` and the reaper increment it; stage outputs, progress reports and both
finalizers compare with it. All the hazards of PROJECT.json are about what happens between
a comparison and the access it was meant to protect, or about accesses that do not compare.

## 2. The model

### `Pipeline`

One job. Every key and row carries the job id, so jobs do not interact except for workers
(`Workers` bounds how many sub-jobs run at once). A sub-job is a generation and a stage.

| variable | the code's state |
|---|---|
| `row` | the `jobs` row: `status`, `result_path`; `stale` says `updated_at` is behind the threshold |
| `generation`, `tracked` | the counter and the recorded sub-job ids per generation |
| `progress` | the polled hash: status and embedded generation |
| `context` | the context hash; a value is the generation that produced it, 0 for absent |
| `subjob` | RQ's status of each sub-job |
| `wav`, `transcript` | the preprocessed WAV; whose transcript is in the result file |
| `pc`, `local` | where the process of each sub-job stands, and its Python locals: Job snapshot, loaded context, ids still to cancel |
| `enqueuer`, `reaper` | the web thread in `enqueue_pipeline`, the reapers' loops |
| `budget` | faults left to inject |

**One action is one access to one shared store**, which is the grain at which the
processes really interleave; a Lua script or a conditional UPDATE is one action. The
sequence of a function is the sequence of its program-counter labels: for
`finalize_failure`, `ff_stale`, `ff_job`, `ff_context`, `ff_load_ids`, `ff_cancel`,
`ff_row`, `ff_progress`, `ff_bump`, `ff_wav`, `ff_delete`, `ff_clear`. `OnException`
says, label by label, where an exception raised there is caught; it transcribes the
`try`/`except` blocks of both finalizers and RQ's rule that an exception in the
success callback is followed by the failure callback.

RQ itself is external and modelled as the code relies on it: a deferred sub-job is queued
when its dependencies are FINISHED; both callbacks run while the sub-job is STARTED; a stop
command kills the work-horse of a forking worker but nothing in a SimpleWorker
(`ForkingWorker`); a worker that dies leaves its sub-job STARTED until RQ's maintenance runs the failure callback.

The shape of the job (`HasDownload`, `HasDiarize`, `HasLlm`) is a constant: it fixes the set
of stages and their dependencies. The adversity is a set of budgets: exceptions of stages,
worker deaths, failures of `enqueue_pipeline` (an exception or the death of its process),
store errors in callbacks and reports. `PromptRetry` says whether a user may press Retry
while a callback of the previous attempt is still cleaning up. It is FALSE where the run is about
something else: a callback needs milliseconds between marking the row FAILED and its last
clean-up step, and the UI polls in seconds. What goes wrong in that window is in section 4.

### `JobLifecycle`

The status of a job and whether its transcript is missing, an earlier attempt's or the
current one's. `Start`, `Save`, `Complete`, `Fail`, `Retry`; completion only after the save;
nothing leaves COMPLETED; only the owner's retry leaves FAILED; under weak fairness every
attempt ends. `PipelineProperties` maps `Pipeline` to it (`Lifecycle`).
`EveryAttemptEnds` is the whole of `JobLifecycle!FairSpec`, safety and liveness, and is checked;
`LifecycleKept` is `JobLifecycle!Spec` alone, and is proved.

### `Library`

All jobs, seen from the disk. `row` (status and whether the source is a URL), `upload`
(no directory, an empty one, a partial file, the media), `result`, `old` (whose `updated_at` is
past the retention threshold), `pipelines`, `survivors` (the FAILED jobs whose row a report of the failed attempt may yet reach), and where each `request` and the `sweep` stand. A handler is
one action from an await to the next, because the routes share one event loop; what it awaits,
a thread, is an action of its own, and so is the gap between `exists()` and `rmtree()` in both
deletions, since request threads and the sweep's thread hold no lock. `RetryNext`, `Claim`, `Enqueued`
are `_reset_and_enqueue_retry`; `DeleteNext`, `Look`, `Rmtree` the conditional DELETE followed by
`delete_job_files`; `SweepBegins`, `SweepLooks`, `SweepRmtree`, `SweepEnds` are `_run_retention_sweep`. Single, bulk and batch
requests are the same loop over the ids they were given. What `Pipeline` does step by step is coarse here: `PipelineCompletes`, and for a failure
`PipelineFails` (the row is FAILED, and can be retried and deleted from then on), after which the rest of the callback and a stage of the other branch may go on:
`SurvivorReports` is the mirror of such a stage, which turns the row active again (finding 1 of section 4), and `SurvivorsEnd` that there is none, or that the last one has ended. A job counts as a survivor until its row is claimed or deleted. `Reap` is the stale-job reaper after hours.

### `Accounts`

Users by name with active flag, administrator flag and session version; the cookies browsers hold, which are signed
and never revoked, only outlived; the bootstrap latch; the two login counters and the registration counter, whose windows may end at any time.
A request that hashes a password (`login`, `register`, `reset`) has a step before the hash
and one after it, with anything in between; every other handler is one step of the event loop, the
conditional UPDATEs of `users_repo` one statement. Redis may be down for a call, which the limiter answers
by letting the request pass, and the process may restart, which forgets latch and requests but neither rows nor cookies.

### The stages' own parts

Seven modules that share no state with one another or with the above.

`Migrations`. `schema` is what the file holds, `opener` how far each process is in SCHEMA_SQL and the list of
migrations. `MigrationsInit` starts from the database of any release (every prefix of the list, and no file). `InitDb(o)` is
`Open`, `CreateJobs`, `CreateUsers`, `IndexUsers`, `Check` and `Execute`, one statement each, since SQLite commits each; the existence check and the
ALTER it guards are two steps. A crash or a lock timeout may come at any of them; compose restarts the process.

`LlmCorrection`. A segment's text is where it comes from: the original or the number of the chunk whose reply wrote it. A reply
is any set of segment ids, so what `_parse_response` refuses (missing, extra or foreign ids) is a comparison of sets. RQ's
timeout may strike inside a chunk with some of the reply applied.

`Download`. The runs of the stage, one after the other in one directory, with yt-dlp and gdown as environment: each call answers, raises
an error whose text matches either marker list, both or none, or is killed, and leaves any files behind. A file is abstracted to
the run that wrote it. `StartDownload` is the stage's start with what it clears, `Resolve` the fallback to a file by name.

`Intake`. A URL is a record of the parts that the validators look at; `Kind`, `ValidateYouTube` and the others are the
quick checks and the validators, `Routed` what the route does with a line, `DownloaderOf` what the worker does with the stored
URL. `ReadLines`, `TakeUrl`, `FetchPlaylist`, `InsertJob`, `EnqueueJob` and their failures are `upload_url_submit`, in the order of
its loops; `MarkEnqueueFailedRaises` is `mark_enqueue_failed` failing itself, which leaves the row QUEUED. A list that the code filters (`valid_tokens`, `unique_urls`) is the set of the positions kept (`ValidLines`, `Unique`), and `intake.left` is what
the loop over it has still to do, taken in order (`TakesNext`). A playlist is the list of its videos and the number of its hidden entries.

`Progress`. Progress counts in millionths, so `build_stage_weights` is integer arithmetic with the code's rounding. Each task has
a reporter record (`last`, `message`) and perhaps a heartbeat thread; `OnProgress` is one call of it with its outcomes (dropped by the
guard or the throttle, accepted, rejected, degraded). `CancelSiblings`, `ReportFailure` and `RetireGeneration` are the steps of `finalize_failure`:
before the first a queued sibling may still start, and until the last one that runs may report. `SalvageTranscript` is its end when the stage is the optional tail.

`Timeouts`. `settings` is any combination that `_validate_timeout_invariants` accepts; `EnqueueStage` and `RecordStage` are
the two writes per stage of `enqueue_pipeline`, `ProbeAndLoad`, `ResizeStage`, `ResizeEnds` those of `adjust_subjob_timeouts`, in the
worker that runs preprocess meanwhile.

`KeyExpiry`. Time is discrete; `ttl` of the counter, the set of sub-jobs and the context, `idle` the age of `updated_at`, and a
round of the reaper per unit of time, some of which are missed. The sub-jobs are the longest chain of the graph.

`MCComponents` checks them in one run. `focus` picks one of the seven for a behaviour; it moves from each of its initial
states while the others rest in one of theirs, so the run is the sum, not the product, of seven searches.

## 3. Checks

Deadlock is not checked for `Pipeline` (a job at rest, terminal and with no retry left, is a legal end);
the components of `components` end likewise;
`Library` and `Accounts` serve requests for ever and are checked for it.

| run | configuration | shows | states |
|---|---|---|---|
| `optional` | download + LLM, 2 attempts, 1 failure, fair | `TypeOK`; `EveryAttemptEnds` (implements `JobLifecycle`); `HashMatchesRow`: at rest the polled hash agrees with the row; `OptionalStageNeverFailsJob`: a failing LLM stage completes the job with the uncorrected transcript | 44 063 |
| `zombies` | diarize, forking workers, 2 attempts, 1 failure | a stage of the failed attempt runs beside the retry: `NoMixedContext`, `InputsOfOwnAttempt`, `HashOfNewestAttempt`, `StaleCallbacksAreInert` | 412 066 |
| `recovery` | reaper, 1 enqueue fault, 1 crash, fair | `NoJobIsStranded`: active leads to terminal; `RecoverOnlyDead`: the reaper fails a job only when no recorded sub-job can run | 34 198 |
| `prompt` | overlapping retry, 1 failure, 1 store error | `CompletedMeansSaved`: a COMPLETED row has the newest attempt's transcript on disk | 629 434 |
| `library` | 2 jobs, 2 requests, sweep limit 1, 1 fault, fair sweep | `OnePipelinePerJob`: retries that overlap build one pipeline; `InputSurvives`: a job that is active or may be retried has its audio, whatever is swept, deleted or copied; `ReclaimOnlyDeleted`: deletion and retry exclude each other, also when a stage that survived the failure has turned the row active in between; `UploadsReclaimed`: every expired upload goes, although a sweep stops at its limit and meets the jobs it reclaimed before | 1 427 106 |
| `accounts` | 2 users, 2 requests, limits 1 and 2, 1 Redis outage, any restarts | `AnAdminRemains`, `SessionsAreCurrent` (no cookie predates a reset or deactivation, also of a login that overlapped it), `AttemptsAreBounded` (attempts exceed the limit only by what was in flight or met an outage), `AdminsAreAppointed` | 1 004 170 |
| `components` | see Bounds | `InitDbOutcome`; `ChunksAreAllOrNothing`, `StoredAsReported`; `MediaIsOfThisRun`: preprocess gets no leftover of another run, `ErrorsAreClassified`: only transient errors are retried, and all of them; `RoutingAgrees`: route, validators and worker take a URL for the same thing, `OneJobPerVideo`, `ToastAddsUp`; `BandsPartition`, `StageShowsItsEnd`, `BarNeverRewinds`, `EndedTaskIsSilent`; `TimeoutsAreBounded`, `GpuTimeoutFitsAudio`; `LiveIsSpared`: the reaper never takes an expired key for a dead job; `WorkEnds`: migrations settle, a stage and a request end | 166 287 |
| `orphans` | `library` without faults | finding 5 of section 4 | violation |
| `zombie_mirror`, `crash_after_completion`, `deferred_forever`, `mutual_stop` | | findings 1 to 4 of section 4 | violations |

Every property of a passing run is broken by at least one plausible bug in a modelled
definition (`mutants` in PROJECT.json: a missing generation gate, a stale check with `<=`, a
dependency edge left out, a gated clean-up, ...); the mutated operators stand beside the ones they mutate.

**Bounds.** Two attempts are what isolation needs: one that is superseded and one that
supersedes it; a third adds a second superseded attempt that behaves like the first.
`MaxGeneration` is the number of increments the attempts, failures and the reaper can make
in that run (each attempt one, each failure fence one, each reaper round one), plus room; a
run that reached the bound would stop and violate its liveness property, and with it the bound is
seen to suffice. Faults come one at a time, except in `recovery`, because a second
independent fault in a callback is the same step from another state, which the search already starts from.
Two workers are the most that one job's graph can use, since only `transcribe_align` and `diarize`
run beside each other; for a zombie and its retry two also suffice to meet.

In `library`, two jobs are a source and its copy, or two whose directories compete for a sweep with limit 1;
two requests are what a race needs. In `accounts`, two users are the pair of administrators who demote each other, and
two requests the overlap; `MaxVersion` = 1 is the one bump that may come between a login's read and its cookie. Users and clients are interchangeable, hence symmetric (no liveness is checked there).

In `components`, two openers are the race and one fault each the crash in it; five segments in chunks of two make two full chunks and a
short one; two runs of a download are a killed one and its retry, three attempts the code's limit; submissions are every kind of line by
itself, and the batches that meet duplicates across lines and playlists, a playlist of another kind, or the limit (3 instead of the code's 100);
all eight shapes of pipeline, with reports at 0, 50 and 99 percent, of which the bands make close and distant values; settings in which
each clamp bites, among them ones the validator must refuse; a chain of three stages and a TTL of 14 where the assumption needs 14.

**Fairness of the sweep** (`Library!FairSpec`). Weak fairness of `Sweep` alone: it is an endless loop of the web
process whose iterations catch every exception. No request, pipeline or fault has to happen.

**Fairness** (`Fairness`). Weak fairness of the web thread's enqueue steps (a request that
started goes on), of the reaper's loop and of time passing (`Age`); weak fairness of *some* worker step,
which is what worker loops and RQ's maintenance give (a job has finitely many sub-jobs);
strong fairness of `StageEnds`, because a stage alternates between running and mirroring reports
and finishes after finitely many of them. Nothing makes the user retry, a stage fail, or a fault
happen. A worker that a stage never returns to is covered by RQ's death penalty, which is a `StageRaises`.

**Fairness in `components`**. Each opener alone goes on, because compose restarts what has stopped and faults are finitely many; a worker's
LLM or download stage goes on, since its calls have timeouts of their own; so does a request. A download that
ended need not be retried, nor is a kill fair. Progress, timeouts and expiry have only safety properties.

## 4. Where the code and its documentation differ

Checked as `violation` runs, quoted in PROJECT.json `findings`:

1. `zombie_mirror`. A report is accepted by the Lua gate; `mark_failed` commits; the
   reporter's `update_job` then writes its own snapshot, status PROCESSING included, over the FAILED row.
2. `crash_after_completion`. A worker dies after the COMPLETED commit and before RQ
   records success; RQ replays the failure callback, which only skips FAILED rows, and demotes the job.
3. `deferred_forever`. `finalize_failure` raises before it cancels the siblings; DEFERRED
   counts as live for the reaper, so the job stays active in every round.
4. `mutual_stop`. Two siblings fail together under forking workers and each stops the process
   that runs the other's failure callback before either reached `mark_failed`.
5. `orphans`. `delete_job_files` raises when the sweep removes the upload directory between its `exists()` and its
   `rmtree()`, and leaves the results; no sweep finds them, for it lists rows and removes uploads only.

Known limits, seen while modelling and without a run of their own:

- With `PromptRetry`, a retry that is claimed between `mark_failed` and `ctx_store.delete` has the
  context it seeded deleted; its first stage then fails and the user retries once more.
- The stale check and what it guards are separate accesses. An attempt that `enqueue_pipeline`
  reported as failed after queueing it wholly can pass the check, be superseded, and complete the retry
  with its own transcript.
- The same end is reached without an enqueue fault. `llm_correction` raises, and a store error in the fallback that would complete the job makes
  `OnException` mark it FAILED. The user's retry is claimed (the row is QUEUED, the counter not yet incremented), the worker dies, and RQ's maintenance runs the
  failure callback again. It is not stale by the counter, finds a row that is not FAILED and the first attempt's context, and completes the retry with the
  first attempt's transcript. TLC shows it with a crash, a store error and `PromptRetry`.
- The reaper judges a generation, then increments whatever the counter holds by then. A retry in
  between is retired at once; the next round of the reaper ends it.
- A first stage that fails while `enqueue_pipeline` still adds stages leaves the later ones DEFERRED in RQ
  until their keys expire. They never touch the job.
- The same holds of other files without a row: a directory left by a skipped upload, a failed copy for a
  re-transcription, a restart during an upload.
- `_refresh_pipeline_state_ttl` re-arms the counter and the set of sub-jobs, not the context hash, although the comment in
  `core/constants.py` (66-71) counts the context among the per-pipeline state. A stage that waits longer than the
  TTL of seven days finds it empty, raises and fails the job (`FinishSubjob` needs `loaded`).
- Nothing relates `JOB_TIMEOUT_MAX` to `PIPELINE_STATE_TTL_SECONDS`. With the defaults the TTL outlasts the longest chain; from 14 hours per
  stage on `KeyExpiryAssumption` fails.
- A sub-job that is not yet recorded when preprocess ends is not resized and keeps the default timeout; so
  `GpuTimeoutFitsAudio` speaks of those the resize reached. RQ's `save` then writes the whole hash of a sub-job that is still deferred.
- `_should_throttle` says it always flushes a new message, but the monotonicity guard comes before it and drops one that comes with
  less progress; yt-dlp's second track starts from 0 again, so its reports are dropped until they pass the first's.
- A worker killed after gdown has returned leaves in the directory a file that would have been rejected and unlinked. No later
  run takes it for its own.
- The validators' `$` lets an id pass that ends in a (percent-encoded) newline; ids are abstract here.
- `HashMatchesRow` and the other properties of `optional` are claimed for stages that run one at a time; with the parallel branch and
  two attempts finding 1 breaks what depends on the row. There too a stage that outlives its attempt can leave a context hash behind.

## 5. Proofs

`PipelineProofs` holds for all constants that satisfy `PipelineAssumption` (booleans for the
shape, naturals for the bounds, any set of reapers, at least one worker):

- `TypeCorrect`: `Spec => []TypeOK`. Lemmas give what each kind of update keeps
  (`GotoType`, `AssignType`, `UpdateJobType`, ...); then one lemma per actor (`TypeEnqueuer`, `TypeStage`,
  `TypeCallback`, `TypeQueue`, `TypeReaper`), one step per action.
- `ContextIsolated`: `Spec => []NoMixedContext`, the retry isolation of the context store, from
  `ContextCorrect`: `Spec => []ContextInv`.

`NoMixedContext` is not inductive. It says that all outputs in the hash come from one attempt, but
not which one: when the hash is generation 1's and the counter is 2, a gated write of a
generation-2 stage leads out of it. `ContextInv` adds what makes that state unreachable:

- `OwnOutputs`: from the `DEL` of `initialize` on (`Seeding`), and for as long as the current generation has
  sub-jobs (`Launched`), every output in the hash is the current generation's;
- `CounterAhead`: no launched attempt, no output and not the web thread is ahead of the counter;
- `RunningIsLaunched`: only a sub-job that was enqueued runs.

The gate lets a stage write only under the current generation; `RunningIsLaunched` makes that
generation a launched one, so by `OwnOutputs` the hash already holds nothing else. An increment by
the web thread, a failure callback or the reaper makes a generation current that nothing was launched
under (`CounterAhead`), which `OwnOutputs` allows. Everything else leaves the output keys alone: the
ungated seeding writes only `input_path` and `source_url` (`OutputKeysSafe`).

- `HashStaysNewest`: `Spec => []HashOfNewestAttempt`, the fencing of the progress hash. `HashInv` says when the hash is
  taken: until the reset of `initialize` (`SeedProgress`) the newest attempt has no sub-job, which needs `CounterAhead`; from
  it on, no gated write takes the hash back to an earlier attempt, and no step of a worker launches a sub-job.

`AttemptProofs` is about what overlapping attempts do to one another.

- `StaleCallbacksStayInert`: `~PromptRetry => (Spec => StaleCallbacksAreInert)`. Without a retry that overlaps a callback, the counter moves to a new
  attempt only when no callback runs (`StaleAtCheck`): those of earlier attempts stand at their stale check or are over, and whoever starts one
  later is behind the counter. Failure fences and the reaper raise the counter too, which only makes more attempts stale.
- `InputsStayOwn`: `~PromptRetry /\ MaxStoreFaults = 0 /\ ~HasDownload => (Spec => []InputsOfOwnAttempt)`. The property speaks of what a stage *has loaded*; the
  invariant says what it will find. RQ runs a stage after its dependencies (`InOrder`), and as long as the attempt is the current one, what finished
  stages wrote is in the hash (`Provision`): only the last stage's callback deletes the context of a current attempt (`CallbackShape`), and nothing of it
  is left to run then. Each hypothesis excludes something TLC finds to break it:
  a retry whose context is deleted by the callback it overlaps; a store error that makes a failure callback skip its fence beside a diarize sibling; and, in a job with a URL, an
  `enqueue_pipeline` that fails half-way, whose zombie stages seed the `input_path` of their attempt (ungated) under the next. The last is harmless in the code, where the path
  is derived from the job id.
- `RecoversOnlyDead`: `~HasDiarize /\ MaxAttempts = 1 => (Spec => RecoverOnlyDead)`. A reaper looks at one sub-job at a time and acts later. What it has looked at
  stays over (`Scanned`), because stages in a line have no failing sibling that cancels a running one (`RunningIsStarted`), and nothing is recorded behind its back,
  because a row becomes stale after `enqueue_pipeline` has returned (`EnqueuerRests`). With a second attempt the round may end on the wrong generation
  (a known limit of section 4). With the diarize branch and a crash, a store error or an enqueue that failed half-way, a stage whose sub-job a sibling's callback canceled, and which RQ therefore calls
  over, may still be running when the reaper looks.

- `CompletedStaysSaved`: `AtMostOneRetry => (Spec => []CompletedMeansSaved)`, for every shape of job, with zombie stages, crashes, store errors and a retry that may overlap the callbacks of
  the first attempt. `AtMostOneRetry` allows two attempts and has no enqueue fault and no reaper; for a job with `llm_correction` it has either no crashes or no store errors. The property is about what is saved;
  the invariant (`CompletionInv`) is about what the first attempt can still do once the second has taken over. It is `Hopeless`: `Blocked`, when its last stage waits behind one that will not finish, so
  that it never runs, or `Past`, when the last stage has read what it saves or is in a failure path. Between the failure that lets the user retry and the reset of the context hash
  (`Lull`) no callback completes the row (`LullIsQuiet`), and after the reset the gate leaves the hash to the newest attempt (`SavesNewest`). An enqueue
  fault breaks the property, and so do a crash and a store error together beside the optional stage (known limits of section 4).

`SerialProofs` is about jobs without the diarize branch, without faults other than failing stages, and without overlapping retries (`Undisturbed`), for
any number of attempts and either optional stage: `RestsAgreed` (`HashMatchesRow`), `RestsClean` (`NothingLeftBehind`, which no run checks: it says little of stages that run one at a time and fails with the diarize branch), `CompletedIsSaved` (`CompletedMeansSaved`),
`OptionalStageIsHarmless` (`OptionalStageNeverFailsJob`), `ImplementsLifecycle` (`LifecycleKept`). At most one sub-job is live, one of the newest attempt
(`OneLive`), so the state of the stores is a function of the label where that one stands: `Phase` is the table. `Starting` hands it over when a stage finishes
before `enqueue_pipeline` has enqueued the next, `Ended` keeps what the last callback has left, and `Resetting` covers the
enqueuing process until it launches the first stage. The refinement then goes step by step: each step of `Pipeline` is a step of `JobLifecycle` or leaves the mapped variables alone.
The hypotheses are what the properties are true under: with two attempts and any one of them dropped (a crash, an enqueue fault, a store error, an overlapping retry, the diarize branch), TLC
finds a counterexample to each of `HashMatchesRow`, `NothingLeftBehind` and `OptionalStageNeverFailsJob`, and with a crash, an enqueue fault or the diarize branch one
to `LifecycleKept`. `CompletedMeansSaved` breaks with an enqueue fault only; for two attempts `CompletedStaysSaved` has the others.

`AccountsProofs` holds for any finite sets of users and requests and any limits that satisfy `AccountsAssumption`.
`AccountsCorrect` proves one inductive invariant, from which follow `AnAdminAlwaysRemains`, `SessionsStayCurrent`
and `AdminsAlwaysAppointed`. What the properties lack by themselves is that requests in flight are sound too: an administrator's request comes from
an existing user, and neither a cookie nor a login that waits for its hash carries a version newer than its row, so that a
bump of the version outdates both.

`AttemptsStayBounded` needs more: that a counter never exceeds its limit plus the logins in flight is not inductive, since a login
that fails moves from the second number to the first. `ChargesBounded` charges each login in flight in advance.

`LibraryProofs` holds for any sets of jobs and requests (`LibraryTypes`, `LibraryOnePipeline`, `LibraryInputSurvives`, `LibraryReclaimsDeleted`, from
`LibraryInvariant`). The properties speak of rows and files, `Ownership` adds what every request that is between two awaits may rely
on: a submission's job has no row and no other request, a job at `enqueue` is active, has no pipeline and is enqueued by nobody
else, what a deletion reclaims is deleted for good, and what the sweep looks at is completed or deleted. A survivor moves only a FAILED row, which none of these is. The claim of a retry and the
conditional DELETE, each one statement, hand a job from one to the other.

`ComponentsProofs`, `Migrations`: `InitDbAlwaysEnds`, for any number of openers and faults, from `MigrationsCorrect`. `HasDone` says of an opener at step k that the effects of all
earlier steps are in the schema; it survives the others because the schema only grows (`Grows`), except for the one index that is dropped
and that no migration creates (`TheMigrations`). For an index step it gives the columns, so the statement cannot fail.

`ComponentsProofs`, `MCComponents`: `ComponentsAreAlone` says that a behaviour of the composition is a behaviour of each of the seven (`OneMovesAtATime`: a step of one leaves
the variables of the others alone). So `ComponentsTypes` (`ComponentsTypeOK`) and `ComponentsStayCorrect` follow from the theorems about the components, and every invariant
and action property of the run `components` is a theorem. The types rest on counts: a transcript has no more chunks than segments (`ChunksFitSegments`), a download run raises no more exceptions than it
makes attempts (`Raising`), and the jobs of a submission are those of `Unique(urls)` it has taken (`SavedIsTyped`).

`MediaProofs`, `LlmCorrection`: `ChunksAlwaysAllOrNothing` and `AlwaysStoredAsReported`, for transcripts and chunks of any size. Arithmetic first: the
chunks partition the segments and none is empty. Then the outcome, which the code decides by counting failed chunks, is the outcome
of the segments (`AllChunksFailed`, `ChunkHasSegment`), which `Told` carries to the end.

`MediaProofs`, `Download`: `MediaAlwaysOfThisRun` and `ErrorsAlwaysClassified`, for any number of runs and attempts, from `DownloadCorrect`. From the clearing at its
start to its end the directory of a run holds files of this run only, whatever a killed run left (`Downloading`); an attempt of yt-dlp follows an exception of the one before,
so the attempts are counted by the exceptions, all but the last of them transient (`Attempted`).

`MediaProofs`, `Intake`: `RoutingAlwaysAgrees`, for every URL and any ids. The canonical URL of each kind is a fixed point of validator and route (`CanonicalAgain`), and
the hosts of the three kinds are apart (`HostsApart`).
`OneJobPerVideoAlways` and `ToastAlwaysAddsUp`, from `IntakeCorrect`, for any lines, any answers of YouTube and any limit. The first loop keeps `Gathered`: `urls` has the
contents of the lines read, and as many entries as they have places (`GatheredGrow`: a line read once adds its own). A playlist that was fetched stays as it was, so a line
that names it again adds the same videos (`FoundStays`). The second loop keeps `Saved`: the rows are those positions of `Unique(urls)` that are not left, one each, since the
URLs at those positions differ (`FirstPlaces`, `AsManyMembers`), and queued or failed as counted. Together: queued, failed and deduped are the places of the lines. No induction over the list is
needed: the loops take one element per step, and the counts are cardinalities of sets of positions.

`TimingProofs`, `Timeouts`: `TimeoutsAlwaysBounded` and `GpuTimeoutAlwaysFits`, for any settings the validator accepts. The second needs that the
GPU stages wait for preprocess, which returns after its resize (`GpuWaits`), and that a stage is enqueued before it is recorded
(`EnqueuedInOrder`), so no later enqueue undoes a resize.

`TimingProofs`, `KeyExpiry`: `LiveIsAlwaysSpared`, for chains, timeouts and missed rounds of any number within `KeyExpiryAssumption`. `Spendable` is a
budget: what the finished stages, the sub-job at hand and the missed rounds may have cost since the keys were last armed. Each
step spends at most what it adds to it, and the whole of it is less than the TTL.

`TimingProofs`, `Progress`: for any shapes, reports and faults. `EndedTaskAlwaysSilent`: a heartbeat thread lives in
diarize only, and only while it runs (`SilentInv`), so whoever writes "processing" is a running task. `BandsAlwaysPartition`: the cursor rises by at least 2 of at most
120 per stage and rounding moves a bound by half a hundredth of a percent (`Shares`). `FinishedStageIsShown` and `BarNeverMovesBack` from `BarInv`: a reporter never
stands beyond its band, and its last message is "done" only between transcribe and align, whose ends are further apart than the throttle's
threshold (`Reporting`). So the throttle drops no last report. `ProgressTypes` is `ProgressTypeOK`.

Only model-checked:

- liveness (`EveryAttemptEnds`, `NoJobIsStranded`, `UploadsReclaimed`, `WorkEnds`) and ENABLED, beyond the provers used (every invariant and action property a passing run checks has a theorem too, within its hypotheses);
- the properties of `Pipeline` outside of the hypotheses above: what the parallel branch, faults and overlapping retries leave of them is what the runs `zombies`, `recovery` and `prompt` show,
  and where they fail is section 4.

## 6. Not modelled

- Share links, list queries, viewing, editing speaker names, `prepare_upload_dir`.
- In `Library`: a pipeline that `enqueue_pipeline` starts only partly (that is `Pipeline`'s run `recovery`), what a stage that outlives
  its attempt writes over the row of a *later* attempt (`SurvivorReports` acts on a FAILED row; the rest is `Pipeline`'s, runs `zombies` and `zombie_mirror`), Redis keys.
- In `Progress`: that the callback itself fails (`Pipeline` has it), and which branch's worker the stop command can reach.
- In `Accounts`: logout (it clears the browser's cookie, no state of the server), CSRF tokens, the address
  taken from a proxy header, a session secret that changes at a restart (it ends every session). One event loop is assumed, as
  the frontend's Dockerfile starts it.
- In `Timeouts`: jobs without diarization (one GPU stage less), and the stages after `assign_speakers`, which are sized as it is.
- In `Download`: that the fetch is a second request and may serve something else than the probe described. That
  is up to the site, so no property is claimed.
- Data in the database: the migrations add columns and indexes and move none.
- A work-horse killed by the kernel in a way that RQ reports without `on_failure`.
- What the stages compute, exporters, pages, logging, most settings: no shared state.

## 7. Plan

1. *Done*: `Pipeline`, `JobLifecycle`, `PipelineProperties`, `PipelineProofs`.
2. *Done*: `Library`, `Accounts` and their proofs.
3. *Done*: `Migrations`, `LlmCorrection`, `Download`, `Intake`, `Progress`, `Timeouts`, `KeyExpiry`, and the proofs listed.
4. *Done*: `AttemptProofs`, `SerialProofs` with the refinement, `Download`, `Intake`'s routing and the numbers of `Progress`.
5. *Done*: `CompletedMeansSaved` for any shape with faults and an overlapping retry; `OneJobPerVideo` and `ToastAddsUp` from the invariant of the two loops; the types of the seven components and their composition.
6. Open: `CompletedMeansSaved` with more than one retry; `HashMatchesRow` for what the diarize branch leaves of it.
