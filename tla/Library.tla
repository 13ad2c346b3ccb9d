------------------------------ MODULE Library ------------------------------
(***************************************************************************)
(* The jobs as a library on disk: rows, upload directories and results,    *)
(* under uploads, retries, deletions, re-transcriptions and the retention  *)
(* sweep.                                                                  *)
(*                                                                         *)
(* A handler runs on the event loop from one await to the next; what it    *)
(* awaits is a thread (probing a duration, copying, rmtree, enqueueing) in *)
(* which nothing holds a lock.  The sweep runs in a thread with a database *)
(* connection of its own.  A job's pipeline (module Pipeline) is one step  *)
(* here, and what goes on of it after it has failed two more;              *)
(* enqueue_pipeline starts all of it or none.  Redis keys of a job, which  *)
(* expire by themselves, are left out.                                     *)
(***************************************************************************)
EXTENDS Naturals, FiniteSets

CONSTANTS
    Jobs,         \* job ids; uuid4 never gives one twice
    Requests,     \* how many requests can be in flight, by name
    SweepLimit,   \* _UPLOAD_RETENTION_BATCH_LIMIT
    MaxFaults     \* bound on failing calls and restarts

ASSUME LibraryAssumption ==
    /\ IsFiniteSet(Requests)
    /\ SweepLimit \in Nat \ {0} /\ MaxFaults \in Nat

VARIABLES
    row,        \* the jobs table; a deleted row keeps its id from being used again
    upload,     \* what is in the job's upload directory
    result,     \* the jobs with a result file
    pipelines,  \* how many pipelines a job has running
    survivors,  \* the failed jobs whose row a report of the failed attempt may yet reach
    old,        \* the jobs whose updated_at is past the retention threshold
    request,    \* where each request stands
    sweep,      \* the retention sweep
    faults      \* faults left to inject

files == <<upload, result>>
vars == <<row, files, pipelines, survivors, old, request, sweep, faults>>

Statuses == {"absent", "active", "completed", "failed", "deleted"}
Uploads == {"none", "empty", "partial", "media"}

\* A request works at one job and then at those in todo.
Working == [pc : {"stream", "insert", "copy", "claim", "enqueue", "look", "rmtree"},
            job : Jobs, source : Jobs, todo : SUBSET Jobs]
Choosing == [pc : {"retry", "delete"}, todo : SUBSET Jobs]
Idle == [pc |-> "idle"]

\* The sweep inspects the jobs in todo; at "rmtree" it has found the directory of
\* the one in job.
NoSweep == [pc |-> "idle", job |-> {}, todo |-> {}, removed |-> 0]

TypeOK ==
    /\ row \in [Jobs -> [status : Statuses, url : BOOLEAN]]
    /\ upload \in [Jobs -> Uploads]
    /\ result \subseteq Jobs
    /\ pipelines \in [Jobs -> Nat]
    /\ survivors \subseteq Jobs
    /\ old \subseteq Jobs
    /\ request \in [Requests -> {Idle} \cup Choosing \cup Working]
    /\ sweep \in [pc : {"idle", "sweeping", "rmtree"}, job : SUBSET Jobs,
                  todo : SUBSET Jobs, removed : 0..SweepLimit]
    /\ faults \in 0..MaxFaults

Init ==
    /\ row = [j \in Jobs |-> [status |-> "absent", url |-> FALSE]]
    /\ upload = [j \in Jobs |-> "none"]
    /\ result = {}
    /\ pipelines = [j \in Jobs |-> 0]
    /\ survivors = {}
    /\ old = {}
    /\ request = [r \in Requests |-> Idle]
    /\ sweep = NoSweep
    /\ faults = MaxFaults

-----------------------------------------------------------------------------
(* Building blocks *)

Fault == faults > 0 /\ faults' = faults - 1
NoFault == UNCHANGED faults

SetStatus(j, status) == row' = [row EXCEPT ![j].status = status]
SetUpload(j, content) == upload' = [upload EXCEPT ![j] = content]

At(r, label) == request[r].pc = label
Goto(r, label) == request' = [request EXCEPT ![r].pc = label]
Finish(r) == request' = [request EXCEPT ![r] = Idle]

\* A request for several jobs goes on with the next one.
GoOn(r, loop) == request' = [request EXCEPT ![r] = [pc |-> loop, todo |-> request[r].todo]]

WorkAt(label, j, src, todo) == [pc |-> label, job |-> j, source |-> src, todo |-> todo]

\* An id nobody has used.
Fresh(j) == /\ row[j].status = "absent" /\ upload[j] = "none"
            /\ \A r \in Requests : request[r] \in Working => request[r].job # j

-----------------------------------------------------------------------------
(* Submitting: one file of POST /upload, one URL of POST /upload/url *)

UploadBegins(r, j) ==
    /\ At(r, "idle") /\ Fresh(j)
    /\ SetUpload(j, "partial")
    /\ request' = [request EXCEPT ![r] = WorkAt("stream", j, j, {})]
    /\ UNCHANGED <<row, result, pipelines, survivors, old, sweep, faults>>

\* Too large, a failing disk or a canceled request: the file goes, its directory
\* stays.
UploadSkipped(r) ==
    /\ At(r, "stream")
    /\ SetUpload(request[r].job, "empty")
    /\ Finish(r)
    /\ UNCHANGED <<row, result, pipelines, survivors, old, sweep, faults>>

UploadStreamed(r) ==
    /\ At(r, "stream")
    /\ SetUpload(request[r].job, "media")
    /\ Goto(r, "insert")
    /\ UNCHANGED <<row, result, pipelines, survivors, old, sweep, faults>>

\* insert_job once the duration is probed.
Insert(r) ==
    /\ At(r, "insert")
    /\ row' = [row EXCEPT ![request[r].job] = [status |-> "active", url |-> FALSE]]
    /\ Goto(r, "enqueue")
    /\ UNCHANGED <<files, pipelines, survivors, old, sweep, faults>>

\* A URL has only a directory until its pipeline downloads it.
SubmitUrl(r, j) ==
    /\ At(r, "idle") /\ Fresh(j)
    /\ SetUpload(j, "empty")
    /\ row' = [row EXCEPT ![j] = [status |-> "active", url |-> TRUE]]
    /\ request' = [request EXCEPT ![r] = WorkAt("enqueue", j, j, {})]
    /\ UNCHANGED <<result, pipelines, survivors, old, sweep, faults>>

\* POST /jobs/{id}/re-transcribe: copy_source_for_new_job finds the source and makes
\* the new directory, then copies.  Of a URL there is nothing to copy.
ReTranscribe(r, src, j) ==
    /\ At(r, "idle") /\ Fresh(j)
    /\ row[src].status = "completed" /\ ~row[src].url
    /\ upload[src] = "media"
    /\ SetUpload(j, "empty")
    /\ request' = [request EXCEPT ![r] = WorkAt("copy", j, src, {})]
    /\ UNCHANGED <<row, result, pipelines, survivors, old, sweep, faults>>

ReTranscribeUrl(r, src, j) ==
    /\ row[src].status = "completed" /\ row[src].url
    /\ SubmitUrl(r, j)

Copied(r) ==
    LET j == request[r].job IN
    /\ At(r, "copy") /\ upload[request[r].source] = "media"
    /\ SetUpload(j, "media")
    /\ request' = [request EXCEPT ![r] = WorkAt("insert", j, j, {})]
    /\ UNCHANGED <<row, result, pipelines, survivors, old, sweep, faults>>

\* The source has gone meanwhile, or the disk is full; no row is inserted.
CopyFails(r) ==
    /\ At(r, "copy")
    /\ \/ upload[request[r].source] # "media" /\ NoFault /\ UNCHANGED upload
       \/ Fault /\ SetUpload(request[r].job, "partial")
    /\ Finish(r)
    /\ UNCHANGED <<row, result, pipelines, survivors, old, sweep>>

-----------------------------------------------------------------------------
(* Retrying: POST /jobs/{id}/retry, bulk and batch *)

RetryBegins(r, todo) ==
    /\ At(r, "idle") /\ todo # {}
    /\ request' = [request EXCEPT ![r] = [pc |-> "retry", todo |-> todo]]
    /\ UNCHANGED <<row, files, pipelines, survivors, old, sweep, faults>>

\* The next id; one that is not FAILED is passed over.  (A batch checks its list,
\* which is older; the claim then finds what is checked here.)
RetryNext(r, j) ==
    /\ At(r, "retry") /\ j \in request[r].todo
    /\ request' = [request EXCEPT ![r] =
          IF row[j].status = "failed"
          THEN WorkAt("claim", j, j, request[r].todo \ {j})
          ELSE [pc |-> "retry", todo |-> request[r].todo \ {j}]]
    /\ UNCHANGED <<row, files, pipelines, survivors, old, sweep, faults>>

\* Mutant: the claim trusts the check before the await.
Claimable_Checked(j) == row[j].status \notin {"absent", "deleted"}

\* The condition of try_claim_retry.
Claimable(j) == row[j].status = "failed"

Claim(r) ==
    LET j == request[r].job IN
    /\ At(r, "claim")
    /\ IF Claimable(j)
       THEN SetStatus(j, "active") /\ Goto(r, "enqueue") /\ survivors' = survivors \ {j}
       ELSE UNCHANGED <<row, survivors>> /\ GoOn(r, "retry")
    /\ UNCHANGED <<files, pipelines, old, sweep, faults>>

\* The end of the thread in enqueue_pipeline, for submissions and retries alike.
Enqueued(r) ==
    LET j == request[r].job IN
    /\ At(r, "enqueue")
    /\ pipelines' = [pipelines EXCEPT ![j] = @ + 1]
    /\ GoOn(r, "retry")
    /\ UNCHANGED <<row, files, survivors, old, sweep, faults>>

\* mark_enqueue_failed.
EnqueueFails(r) ==
    /\ At(r, "enqueue") /\ Fault
    /\ SetStatus(request[r].job, "failed")
    /\ GoOn(r, "retry")
    /\ UNCHANGED <<files, pipelines, survivors, old, sweep>>

-----------------------------------------------------------------------------
(* Deleting: DELETE /jobs/{id}, bulk and batch *)

DeleteBegins(r, todo) ==
    /\ At(r, "idle") /\ todo # {}
    /\ request' = [request EXCEPT ![r] = [pc |-> "delete", todo |-> todo]]
    /\ UNCHANGED <<row, files, pipelines, survivors, old, sweep, faults>>

\* Mutant: any row that is there.
Deletable_Any(j) == row[j].status \notin {"absent", "deleted"}

\* The condition of delete_terminal_job, and of the check before it.
Deletable(j) == row[j].status \in {"completed", "failed"}

\* Row first, gated on its status; then, in a thread, delete_job_files.
DeleteNext(r, j) ==
    LET todo == request[r].todo \ {j} IN
    /\ At(r, "delete") /\ j \in request[r].todo
    /\ IF Deletable(j)
       THEN /\ SetStatus(j, "deleted")
            /\ old' = old \ {j}
            /\ survivors' = survivors \ {j}
            /\ request' = [request EXCEPT ![r] = WorkAt("look", j, j, todo)]
       ELSE /\ UNCHANGED <<row, old, survivors>>
            /\ request' = [request EXCEPT ![r] = [pc |-> "delete", todo |-> todo]]
    /\ UNCHANGED <<files, pipelines, sweep, faults>>

\* Is there an upload directory?  If not, only the results go.
Look(r) ==
    LET j == request[r].job IN
    /\ At(r, "look")
    /\ IF upload[j] = "none"
       THEN result' = result \ {j} /\ GoOn(r, "delete")
       ELSE UNCHANGED result /\ Goto(r, "rmtree")
    /\ UNCHANGED <<row, upload, pipelines, survivors, old, sweep, faults>>

Rmtree(r) ==
    LET j == request[r].job IN
    /\ At(r, "rmtree") /\ upload[j] # "none"
    /\ SetUpload(j, "none")
    /\ result' = result \ {j}
    /\ GoOn(r, "delete")
    /\ UNCHANGED <<row, pipelines, survivors, old, sweep, faults>>

\* rmtree raises, for one because the sweep has removed the directory since, and
\* the results stay; the row is gone already and the request goes on.
RmtreeFails(r) ==
    LET j == request[r].job IN
    /\ \/ At(r, "rmtree") /\ upload[j] = "none" /\ NoFault /\ UNCHANGED upload
       \/ At(r, "rmtree") /\ Fault /\ (SetUpload(j, "none") \/ UNCHANGED upload)
       \/ At(r, "look") /\ upload[j] = "none" /\ Fault /\ UNCHANGED upload
    /\ GoOn(r, "delete")
    /\ UNCHANGED <<row, result, pipelines, survivors, old, sweep>>

\* No id is left.
AllDone(r) ==
    /\ At(r, "retry") \/ At(r, "delete")
    /\ request[r].todo = {}
    /\ Finish(r)
    /\ UNCHANGED <<row, files, pipelines, survivors, old, sweep, faults>>

-----------------------------------------------------------------------------
(* The retention sweep *)

\* Mutant: FAILED jobs too.
Expired_AnyTerminal(j) == j \in old \cup {i \in Jobs : row[i].status = "failed"}

\* list_terminal_job_ids_older_than.
Expired(j) == j \in old /\ row[j].status = "completed"

SweepBegins ==
    /\ sweep.pc = "idle"
    /\ sweep' = [NoSweep EXCEPT !.pc = "sweeping", !.todo = {j \in Jobs : Expired(j)}]
    /\ UNCHANGED <<row, files, pipelines, survivors, old, request, faults>>

\* Mutant: the limit is not looked at.
SweepGoesOn_Unlimited == sweep.pc = "sweeping" /\ sweep.todo # {}

SweepGoesOn == sweep.pc = "sweeping" /\ sweep.todo # {} /\ sweep.removed < SweepLimit

\* Mutant: an id counts as soon as it is inspected.
Inspected_Counted(s, j) == [s EXCEPT !.todo = @ \ {j}, !.removed = @ + 1]

\* delete_upload_files returns False for a directory that is not there.
Inspected(s, j) == [s EXCEPT !.todo = @ \ {j}]

\* The next id.
SweepLooks(j) ==
    /\ SweepGoesOn /\ j \in sweep.todo
    /\ sweep' = IF upload[j] = "none"
                THEN Inspected(sweep, j)
                ELSE [sweep EXCEPT !.pc = "rmtree", !.job = {j}, !.todo = @ \ {j}]
    /\ UNCHANGED <<row, files, pipelines, survivors, old, request, faults>>

SweepRmtree(j) ==
    /\ sweep.pc = "rmtree" /\ j \in sweep.job
    /\ \/ /\ upload[j] # "none" /\ NoFault
          /\ SetUpload(j, "none")
          /\ sweep' = [sweep EXCEPT !.pc = "sweeping", !.job = {}, !.removed = @ + 1]
       \/ \* rmtree raises; it may have removed the media.
          /\ \/ upload[j] = "none" /\ NoFault /\ UNCHANGED upload
             \/ upload[j] # "none" /\ Fault /\ (SetUpload(j, "empty") \/ UNCHANGED upload)
          /\ sweep' = [sweep EXCEPT !.pc = "sweeping", !.job = {}]
    /\ UNCHANGED <<row, result, pipelines, survivors, old, request>>

SweepEnds ==
    /\ sweep.pc = "sweeping" /\ ~SweepGoesOn
    /\ sweep' = NoSweep
    /\ UNCHANGED <<row, files, pipelines, survivors, old, request, faults>>

-----------------------------------------------------------------------------
(* The rest of the system *)

\* The pipeline ends.  A file job needs its media; a URL's is downloaded.
PipelineCompletes(j) ==
    /\ pipelines[j] > 0 /\ row[j].status = "active"
    /\ row[j].url \/ upload[j] = "media"
    /\ pipelines' = [pipelines EXCEPT ![j] = @ - 1]
    /\ SetStatus(j, "completed")
    /\ result' = result \cup {j}
    /\ SetUpload(j, "media")
    /\ UNCHANGED <<survivors, old, request, sweep, faults>>

\* It fails, perhaps after the download: mark_failed.  From here on the owner may retry
\* or delete, although the callback has yet to clean up and a SimpleWorker goes on
\* with the stage of the other branch.
PipelineFails(j) ==
    /\ pipelines[j] > 0 /\ row[j].status = "active"
    /\ pipelines' = [pipelines EXCEPT ![j] = @ - 1]
    /\ survivors' = survivors \cup {j}
    /\ SetStatus(j, "failed")
    /\ UNCHANGED upload \/ (row[j].url /\ SetUpload(j, "media"))
    /\ UNCHANGED <<result, old, request, sweep, faults>>

\* The other branch's last report, accepted before the counter moved, is mirrored into
\* the row after it, with every column.  Of a deleted row there is nothing to UPDATE, and
\* what it does to the row of a later attempt is Pipeline's subject: so a survivor
\* counts until the row is claimed or deleted.
SurvivorReports(j) ==
    /\ j \in survivors /\ row[j].status = "failed"
    /\ SetStatus(j, "active")
    /\ survivors' = survivors \ {j}
    /\ UNCHANGED <<files, pipelines, old, request, sweep, faults>>

\* Or there is no such report, and the stage ends.
SurvivorsEnd(j) ==
    /\ j \in survivors
    /\ survivors' = survivors \ {j}
    /\ UNCHANGED <<row, files, pipelines, old, request, sweep, faults>>

\* The reaper: an active job nobody works at, hours later.
Reap(j) ==
    /\ row[j].status = "active" /\ pipelines[j] = 0
    /\ \A r \in Requests : At(r, "enqueue") => request[r].job # j
    /\ SetStatus(j, "failed")
    /\ UNCHANGED <<files, pipelines, survivors, old, request, sweep, faults>>

\* The retention threshold passes the job.
Age(j) ==
    /\ row[j].status = "completed"
    /\ old' = old \cup {j}
    /\ UNCHANGED <<row, files, pipelines, survivors, request, sweep, faults>>

\* The web process restarts; its requests and the sweep end where they are.
Restart ==
    /\ Fault
    /\ request' = [r \in Requests |-> Idle]
    /\ sweep' = NoSweep
    /\ UNCHANGED <<row, files, pipelines, survivors, old>>

Submission(r) ==
    \/ \E j \in Jobs : UploadBegins(r, j) \/ SubmitUrl(r, j)
    \/ \E src, j \in Jobs : ReTranscribe(r, src, j) \/ ReTranscribeUrl(r, src, j)
    \/ UploadSkipped(r) \/ UploadStreamed(r) \/ Copied(r) \/ CopyFails(r) \/ Insert(r)

Retrying(r) ==
    \/ \E todo \in SUBSET Jobs : RetryBegins(r, todo)
    \/ \E j \in Jobs : RetryNext(r, j)
    \/ Claim(r) \/ Enqueued(r) \/ EnqueueFails(r)

Deletion(r) ==
    \/ \E todo \in SUBSET Jobs : DeleteBegins(r, todo)
    \/ \E j \in Jobs : DeleteNext(r, j)
    \/ Look(r) \/ Rmtree(r) \/ RmtreeFails(r)

Sweep == SweepBegins \/ SweepEnds \/ \E j \in Jobs : SweepLooks(j) \/ SweepRmtree(j)

Next ==
    \/ \E r \in Requests : Submission(r) \/ Retrying(r) \/ Deletion(r) \/ AllDone(r)
    \/ Sweep
    \/ \E j \in Jobs : PipelineCompletes(j) \/ PipelineFails(j) \/ SurvivorReports(j) \/ SurvivorsEnd(j) \/ Reap(j) \/ Age(j)
    \/ Restart

Spec == Init /\ [][Next]_vars

\* The sweep is a loop of the web process; nothing else need happen.
FairSpec == Spec /\ WF_vars(Sweep)

-----------------------------------------------------------------------------
(* Properties *)

\* However many retries are clicked, one pipeline is built or runs for a job: two
\* would write the same intermediate files (try_claim_retry).  What survives of a failed
\* attempt is not counted: it writes no file, and its other writes are fenced (Pipeline).
OnePipelinePerJob ==
    \A j \in Jobs :
        pipelines[j] + Cardinality({r \in Requests : At(r, "enqueue") /\ request[r].job = j}) <= 1

\* An uploaded job that runs, or that its owner may retry, has its audio, whatever
\* the sweep, other deletions and the job it was copied from do.
InputSurvives ==
    \A j \in Jobs : row[j].status \in {"active", "failed"} /\ ~row[j].url => upload[j] = "media"

\* A deletion and a retry exclude each other, and the row decides (delete_terminal_job):
\* files are reclaimed only of a job that is gone for good and of which no attempt is
\* built or runs, although a stage that survived a failed one may still, and its last
\* report may have turned the row active since it was found FAILED.
ReclaimOnlyDeleted ==
    \A r \in Requests : At(r, "look") \/ At(r, "rmtree") =>
        /\ row[request[r].job].status = "deleted"
        /\ pipelines[request[r].job] = 0
        /\ \A s \in Requests : At(s, "enqueue") => request[s].job # request[r].job

\* Every expired upload is reclaimed in the end, although each sweep removes only
\* SweepLimit directories and meets those it removed before (_run_retention_sweep).
UploadsReclaimed ==
    \A j \in Jobs : Expired(j) /\ upload[j] # "none" ~> ~(Expired(j) /\ upload[j] # "none")

\* The files a deletion left behind are reclaimed by the retention sweep.
\* (The comments say so, the code does not: run orphans.)
Orphaned(j) ==
    /\ row[j].status = "deleted" /\ (upload[j] # "none" \/ j \in result)
    /\ \A r \in Requests : request[r] \in Working => request[r].job # j

OrphansAreReclaimed == \A j \in Jobs : Orphaned(j) ~> ~Orphaned(j)
=============================================================================
