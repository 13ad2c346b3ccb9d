--------------------------- MODULE LibraryProofs ----------------------------
(***************************************************************************)
(* Theorems about Library, for any jobs, requests and limits.              *)
(***************************************************************************)
EXTENDS Library, FiniteSetTheorems, TLAPS

-----------------------------------------------------------------------------
(* The inductive invariant *)

WorkLabels == {"stream", "insert", "copy", "claim", "enqueue", "look", "rmtree"}

Submitting(r) == request[r].pc \in {"stream", "insert", "copy"}
Reclaiming(r) == request[r].pc \in {"look", "rmtree"}
SameJob(r, s) == request[r].job = request[s].job

\* A job that is being submitted has no row yet, one request, and in the end its audio.
SubmissionsAreNew ==
    \A r \in Requests : Submitting(r) =>
        /\ row[request[r].job].status = "absent"
        /\ At(r, "insert") => upload[request[r].job] = "media"

OneSubmitter ==
    \A r, s \in Requests : Submitting(r) /\ Submitting(s) /\ SameJob(r, s) => r = s

\* A job is enqueued by one request at a time, and while no pipeline of it runs.
EnqueuedIsActive ==
    \A r \in Requests : At(r, "enqueue") =>
        row[request[r].job].status = "active" /\ pipelines[request[r].job] = 0

OneEnqueuer ==
    \A r, s \in Requests : At(r, "enqueue") /\ At(s, "enqueue") /\ SameJob(r, s) => r = s

RunningIsActive ==
    \A j \in Jobs : pipelines[j] <= 1 /\ (pipelines[j] > 0 => row[j].status = "active")

\* Deletion is final, and the sweep is at jobs that are completed or deleted since.
ReclaimedIsDeleted ==
    \A r \in Requests : Reclaiming(r) => row[request[r].job].status = "deleted"

SweptIsDone ==
    \A j \in sweep.todo \cup sweep.job : row[j].status \in {"completed", "deleted"}

\* TypeOK bounds the count of a sweep, which grows when an rmtree that was below the
\* limit returns.
SweepBelowLimit == sweep.pc = "rmtree" => sweep.removed < SweepLimit

Ownership ==
    /\ SubmissionsAreNew /\ OneSubmitter
    /\ EnqueuedIsActive /\ OneEnqueuer /\ RunningIsActive
    /\ ReclaimedIsDeleted /\ SweptIsDone /\ InputSurvives

LibraryInv == TypeOK /\ SweepBelowLimit /\ Ownership

-----------------------------------------------------------------------------
(* Types *)

LEMMA WorkingRequest ==
    ASSUME TypeOK, NEW r \in Requests, request[r].pc \in WorkLabels
    PROVE  /\ request[r] \in Working
           /\ request[r].job \in Jobs /\ request[r].source \in Jobs /\ request[r].todo \subseteq Jobs
<1>1. request[r] \in {Idle} \cup Choosing \cup Working
  BY DEF TypeOK
<1>2. request[r] \notin {Idle} \cup Choosing
  BY DEF WorkLabels, Idle, Choosing
<1> QED BY <1>1, <1>2 DEF Working

LEMMA ChoosingRequest ==
    ASSUME TypeOK, NEW r \in Requests, request[r].pc \in {"retry", "delete"}
    PROVE  request[r].todo \subseteq Jobs
<1>1. request[r] \in {Idle} \cup Choosing \cup Working
  BY DEF TypeOK
<1>2. request[r] \notin {Idle} \cup Working
  BY DEF Idle, Working
<1> QED BY <1>1, <1>2 DEF Choosing

LEMMA WorkAtType ==
    ASSUME NEW label \in WorkLabels, NEW j \in Jobs, NEW src \in Jobs, NEW todo \in SUBSET Jobs
    PROVE  WorkAt(label, j, src, todo) \in Working
BY DEF WorkAt, Working, WorkLabels

RequestType == request \in [Requests -> {Idle} \cup Choosing \cup Working]

LEMMA AssignType ==
    ASSUME TypeOK, NEW r \in Requests, NEW x \in {Idle} \cup Choosing \cup Working,
           request' = [request EXCEPT ![r] = x]
    PROVE  RequestType'
BY DEF TypeOK, RequestType, Idle, Choosing, Working

LEMMA GotoType ==
    ASSUME TypeOK, NEW r \in Requests, request[r].pc \in WorkLabels, NEW label \in WorkLabels, Goto(r, label)
    PROVE  RequestType'
<1>1. request[r] \in Working
  BY WorkingRequest
<1>2. [request[r] EXCEPT !.pc = label] \in Working
  BY <1>1 DEF Working, WorkLabels
<1>3. request' = [request EXCEPT ![r] = [request[r] EXCEPT !.pc = label]]
  BY DEF Goto, TypeOK
<1> QED BY <1>2, <1>3, AssignType

LEMMA GoOnType ==
    ASSUME TypeOK, NEW r \in Requests, request[r].pc \in WorkLabels, NEW loop \in {"retry", "delete"}, GoOn(r, loop)
    PROVE  RequestType'
<1>1. [pc |-> loop, todo |-> request[r].todo] \in Choosing
  BY WorkingRequest DEF Choosing
<1> QED BY <1>1, AssignType DEF GoOn

LEMMA FinishType ==
    ASSUME TypeOK, NEW r \in Requests, Finish(r)
    PROVE  RequestType'
BY AssignType DEF Finish

\* One step per action; the type of the request comes from the lemmas above.
LEMMA SubmissionTypes ==
    ASSUME TypeOK, NEW r \in Requests, Submission(r)
    PROVE  TypeOK'
<1> SUFFICES RequestType' /\ row' \in [Jobs -> [status : Statuses, url : BOOLEAN]]
                          /\ upload' \in [Jobs -> Uploads] /\ UNCHANGED <<result, pipelines, survivors, old, sweep>>
                          /\ faults' \in 0..MaxFaults
  BY DEF TypeOK, RequestType
<1> USE DEF Statuses, Uploads
<1>1. ASSUME NEW j \in Jobs, UploadBegins(r, j)
      PROVE  RequestType' /\ row' = row /\ upload' \in [Jobs -> Uploads] /\ faults' = faults
  <2>1. WorkAt("stream", j, j, {}) \in Working
    BY WorkAtType DEF WorkLabels
  <2> QED BY <1>1, <2>1, AssignType DEF UploadBegins, SetUpload, TypeOK
<1>2. ASSUME NEW j \in Jobs, SubmitUrl(r, j)
      PROVE  /\ RequestType' /\ row' \in [Jobs -> [status : Statuses, url : BOOLEAN]]
             /\ upload' \in [Jobs -> Uploads] /\ faults' = faults
  <2>1. WorkAt("enqueue", j, j, {}) \in Working
    BY WorkAtType DEF WorkLabels
  <2> QED BY <1>2, <2>1, AssignType DEF SubmitUrl, SetUpload, TypeOK
<1>3. ASSUME NEW src \in Jobs, NEW j \in Jobs, ReTranscribe(r, src, j)
      PROVE  RequestType' /\ row' = row /\ upload' \in [Jobs -> Uploads] /\ faults' = faults
  <2>1. WorkAt("copy", j, src, {}) \in Working
    BY WorkAtType DEF WorkLabels
  <2> QED BY <1>3, <2>1, AssignType DEF ReTranscribe, SetUpload, TypeOK
<1>4. CASE UploadSkipped(r)
  BY <1>4, FinishType DEF UploadSkipped, SetUpload, TypeOK
<1>5. CASE UploadStreamed(r)
  <2>1. RequestType'
    BY <1>5, GotoType DEF UploadStreamed, At, WorkLabels
  <2> QED BY <1>5, <2>1 DEF UploadStreamed, SetUpload, TypeOK
<1>6. CASE Copied(r)
  <2>1. WorkAt("insert", request[r].job, request[r].job, {}) \in Working
    BY <1>6, WorkAtType, WorkingRequest DEF Copied, At, WorkLabels
  <2> QED BY <1>6, <2>1, AssignType DEF Copied, SetUpload, TypeOK
<1>7. CASE CopyFails(r)
  <2>1. RequestType' /\ upload' \in [Jobs -> Uploads]
    BY <1>7, FinishType DEF CopyFails, SetUpload, TypeOK
  <2>2. faults' \in 0..MaxFaults
    BY <1>7, LibraryAssumption DEF CopyFails, Fault, NoFault, TypeOK, LibraryAssumption
  <2> QED BY <1>7, <2>1, <2>2 DEF CopyFails, TypeOK
<1>8. CASE Insert(r)
  <2>1. RequestType'
    BY <1>8, GotoType DEF Insert, At, WorkLabels
  <2> QED BY <1>8, <2>1 DEF Insert, files, TypeOK
<1> QED
  BY <1>1, <1>2, <1>3, <1>4, <1>5, <1>6, <1>7, <1>8
  DEF Submission, ReTranscribeUrl, UploadBegins, SubmitUrl, ReTranscribe, UploadSkipped, UploadStreamed,
      Copied, CopyFails, Insert, TypeOK, files

LEMMA RetryingTypes ==
    ASSUME TypeOK, NEW r \in Requests, Retrying(r) \/ AllDone(r)
    PROVE  TypeOK'
<1> USE DEF Statuses
<1>1. ASSUME NEW todo \in SUBSET Jobs, RetryBegins(r, todo)
      PROVE  TypeOK'
  <2>1. RequestType'
    BY <1>1, AssignType DEF RetryBegins, Choosing
  <2> QED BY <1>1, <2>1 DEF RetryBegins, files, TypeOK, RequestType
<1>2. ASSUME NEW j \in Jobs, RetryNext(r, j)
      PROVE  TypeOK'
  <2>1. request[r].todo \ {j} \in SUBSET Jobs
    BY <1>2, ChoosingRequest DEF RetryNext, At
  <2>2. /\ WorkAt("claim", j, j, request[r].todo \ {j}) \in Working
        /\ [pc |-> "retry", todo |-> request[r].todo \ {j}] \in Choosing
    BY <2>1, WorkAtType DEF WorkLabels, Choosing
  <2>3. RequestType'
    BY <1>2, <2>2, AssignType DEF RetryNext
  <2> QED BY <1>2, <2>3 DEF RetryNext, files, TypeOK, RequestType
<1>3. CASE Claim(r)
  <2>1. RequestType'
    BY <1>3, GotoType, GoOnType DEF Claim, At, WorkLabels
  <2> QED BY <1>3, <2>1 DEF Claim, SetStatus, files, TypeOK, RequestType
<1>4. CASE Enqueued(r)
  <2>1. RequestType' /\ request[r].job \in Jobs
    BY <1>4, GoOnType, WorkingRequest DEF Enqueued, At, WorkLabels
  <2>2. pipelines' \in [Jobs -> Nat]
    BY <1>4, <2>1 DEF Enqueued, TypeOK
  <2> QED BY <1>4, <2>1, <2>2 DEF Enqueued, files, TypeOK, RequestType
<1>5. CASE EnqueueFails(r)
  <2>1. RequestType'
    BY <1>5, GoOnType DEF EnqueueFails, At, WorkLabels
  <2>2. faults' \in 0..MaxFaults
    BY <1>5, LibraryAssumption DEF EnqueueFails, Fault, TypeOK, LibraryAssumption
  <2> QED BY <1>5, <2>1, <2>2 DEF EnqueueFails, SetStatus, files, TypeOK, RequestType
<1>6. CASE AllDone(r)
  <2>1. RequestType'
    BY <1>6, FinishType DEF AllDone
  <2> QED BY <1>6, <2>1 DEF AllDone, files, TypeOK, RequestType
<1> QED BY <1>1, <1>2, <1>3, <1>4, <1>5, <1>6 DEF Retrying

LEMMA DeletionTypes ==
    ASSUME TypeOK, NEW r \in Requests, Deletion(r)
    PROVE  TypeOK'
<1> USE DEF Statuses, Uploads
<1>1. ASSUME NEW todo \in SUBSET Jobs, DeleteBegins(r, todo)
      PROVE  TypeOK'
  <2>1. RequestType'
    BY <1>1, AssignType DEF DeleteBegins, Choosing
  <2> QED BY <1>1, <2>1 DEF DeleteBegins, files, TypeOK, RequestType
<1>2. ASSUME NEW j \in Jobs, DeleteNext(r, j)
      PROVE  TypeOK'
  <2>1. request[r].todo \ {j} \in SUBSET Jobs
    BY <1>2, ChoosingRequest DEF DeleteNext, At
  <2>2. /\ WorkAt("look", j, j, request[r].todo \ {j}) \in Working
        /\ [pc |-> "delete", todo |-> request[r].todo \ {j}] \in Choosing
    BY <2>1, WorkAtType DEF WorkLabels, Choosing
  <2>3. RequestType'
    BY <1>2, <2>2, AssignType DEF DeleteNext
  <2> QED BY <1>2, <2>3 DEF DeleteNext, SetStatus, files, TypeOK, RequestType
<1>3. CASE Look(r)
  <2>1. RequestType'
    BY <1>3, GotoType, GoOnType DEF Look, At, WorkLabels
  <2> QED BY <1>3, <2>1 DEF Look, TypeOK, RequestType
<1>4. CASE Rmtree(r)
  <2>1. RequestType'
    BY <1>4, GoOnType DEF Rmtree, At, WorkLabels
  <2> QED BY <1>4, <2>1 DEF Rmtree, SetUpload, TypeOK, RequestType
<1>5. CASE RmtreeFails(r)
  <2>1. RequestType'
    BY <1>5, GoOnType DEF RmtreeFails, At, WorkLabels
  <2>2. faults' \in 0..MaxFaults
    BY <1>5, LibraryAssumption DEF RmtreeFails, Fault, NoFault, TypeOK, LibraryAssumption
  <2>3. upload' \in [Jobs -> Uploads]
    BY <1>5 DEF RmtreeFails, SetUpload, TypeOK
  <2> QED BY <1>5, <2>1, <2>2, <2>3 DEF RmtreeFails, TypeOK, RequestType
<1> QED BY <1>1, <1>2, <1>3, <1>4, <1>5 DEF Deletion

LEMMA SweepTypes ==
    ASSUME TypeOK, SweepBelowLimit, Sweep
    PROVE  TypeOK' /\ SweepBelowLimit'
<1> USE LibraryAssumption DEF LibraryAssumption, Uploads, SweepBelowLimit
<1>1. CASE SweepBegins
  <2>1. sweep' = [pc |-> "sweeping", job |-> {}, todo |-> {j \in Jobs : Expired(j)}, removed |-> 0]
    BY <1>1 DEF SweepBegins, NoSweep
  <2>2. {j \in Jobs : Expired(j)} \in SUBSET Jobs /\ {} \in SUBSET Jobs /\ 0 \in 0..SweepLimit
    OBVIOUS
  <2>3. sweep' \in [pc : {"idle", "sweeping", "rmtree"}, job : SUBSET Jobs,
                    todo : SUBSET Jobs, removed : 0..SweepLimit]
    BY <2>1, <2>2
  <2> QED BY <1>1, <2>1, <2>3 DEF SweepBegins, files, TypeOK
<1>2. CASE SweepEnds
  BY <1>2 DEF SweepEnds, NoSweep, files, TypeOK
<1>3. ASSUME NEW j \in Jobs, SweepLooks(j)
      PROVE  TypeOK' /\ SweepBelowLimit'
  BY <1>3 DEF SweepLooks, SweepGoesOn, Inspected, files, TypeOK
<1>4. ASSUME NEW j \in Jobs, SweepRmtree(j)
      PROVE  TypeOK' /\ SweepBelowLimit'
  <2>1. upload' \in [Jobs -> Uploads] /\ faults' \in 0..MaxFaults
    BY <1>4 DEF SweepRmtree, SetUpload, Fault, NoFault, TypeOK
  <2>2. sweep.removed + 1 \in 0..SweepLimit
    BY <1>4 DEF SweepRmtree, TypeOK
  <2>3. \/ sweep' = [sweep EXCEPT !.pc = "sweeping", !.job = {}, !.removed = sweep.removed + 1]
        \/ sweep' = [sweep EXCEPT !.pc = "sweeping", !.job = {}]
    BY <1>4 DEF SweepRmtree
  <2>4. \A n \in 0..SweepLimit :
            [sweep EXCEPT !.pc = "sweeping", !.job = {}, !.removed = n]
              \in [pc : {"idle", "sweeping", "rmtree"}, job : SUBSET Jobs,
                   todo : SUBSET Jobs, removed : 0..SweepLimit]
    BY DEF TypeOK
  <2>5. /\ sweep'.pc = "sweeping"
        /\ sweep' \in [pc : {"idle", "sweeping", "rmtree"}, job : SUBSET Jobs,
                       todo : SUBSET Jobs, removed : 0..SweepLimit]
    BY <2>2, <2>3, <2>4 DEF TypeOK
  <2> QED BY <1>4, <2>1, <2>5 DEF SweepRmtree, TypeOK
<1> QED BY <1>1, <1>2, <1>3, <1>4 DEF Sweep

\* What a pipeline, its survivors, the reaper and time do to a job.
SystemStep(j) ==
    \/ PipelineCompletes(j) \/ PipelineFails(j)
    \/ SurvivorReports(j) \/ SurvivorsEnd(j)
    \/ Reap(j) \/ Age(j)

LEMMA SystemTypes ==
    ASSUME TypeOK, Restart \/ \E j \in Jobs : SystemStep(j)
    PROVE  TypeOK'
<1> USE LibraryAssumption DEF LibraryAssumption, Statuses, Uploads
<1>1. ASSUME NEW j \in Jobs, PipelineCompletes(j)
      PROVE  TypeOK'
  BY <1>1 DEF PipelineCompletes, SetStatus, SetUpload, TypeOK
<1>2. ASSUME NEW j \in Jobs, PipelineFails(j)
      PROVE  TypeOK'
  BY <1>2 DEF PipelineFails, SetStatus, SetUpload, TypeOK
<1>3. ASSUME NEW j \in Jobs, SurvivorReports(j) \/ SurvivorsEnd(j)
      PROVE  TypeOK'
  BY <1>3 DEF SurvivorReports, SurvivorsEnd, SetStatus, files, TypeOK
<1>4. ASSUME NEW j \in Jobs, Reap(j) \/ Age(j)
      PROVE  TypeOK'
  BY <1>4 DEF Reap, Age, SetStatus, files, TypeOK
<1>5. CASE Restart
  BY <1>5 DEF Restart, Fault, NoSweep, files, TypeOK
<1> QED BY <1>1, <1>2, <1>3, <1>4, <1>5 DEF SystemStep

LEMMA StepTypes ==
    ASSUME TypeOK, SweepBelowLimit, [Next]_vars
    PROVE  TypeOK' /\ SweepBelowLimit'
<1>1. CASE UNCHANGED vars
  BY <1>1 DEF vars, files, TypeOK, SweepBelowLimit
<1>2. ASSUME NEW r \in Requests, Submission(r) \/ Retrying(r) \/ Deletion(r) \/ AllDone(r)
      PROVE  TypeOK' /\ SweepBelowLimit'
  <2>1. sweep' = sweep
    BY <1>2 DEF Submission, UploadBegins, SubmitUrl, ReTranscribe, ReTranscribeUrl, UploadSkipped,
        UploadStreamed, Copied, CopyFails, Insert, Retrying, RetryBegins, RetryNext, Claim, Enqueued,
        EnqueueFails, Deletion, DeleteBegins, DeleteNext, Look, Rmtree, RmtreeFails, AllDone
  <2> QED BY <1>2, <2>1, SubmissionTypes, RetryingTypes, DeletionTypes DEF SweepBelowLimit
<1>3. CASE Sweep
  BY <1>3, SweepTypes
<1>4. CASE Restart \/ \E j \in Jobs : SystemStep(j)
  <2>1. sweep' = sweep \/ sweep'.pc = "idle"
    BY <1>4 DEF Restart, NoSweep, SystemStep, PipelineCompletes, PipelineFails, SurvivorReports,
        SurvivorsEnd, Reap, Age
  <2> QED BY <1>4, <2>1, SystemTypes DEF SweepBelowLimit
<1> QED BY <1>1, <1>2, <1>3, <1>4 DEF Next, SystemStep

\* Type correctness, for any number of jobs, requests and faults.
THEOREM LibraryTypes == Spec => []TypeOK
<1>1. Init => TypeOK /\ SweepBelowLimit
  BY LibraryAssumption DEF LibraryAssumption, Init, TypeOK, NoSweep, Statuses, Uploads, SweepBelowLimit
<1>2. TypeOK /\ SweepBelowLimit /\ [Next]_vars => TypeOK' /\ SweepBelowLimit'
  BY StepTypes
<1> QED BY <1>1, <1>2, PTL DEF Spec

-----------------------------------------------------------------------------
(* Who may touch a job *)

\* What a step of one request does to the others, and to its own place.
Moves(r, x) == request'[r] = x /\ \A s \in Requests \ {r} : request'[s] = request[s]

LEMMA AssignMoves ==
    ASSUME TypeOK, NEW r \in Requests, NEW x, request' = [request EXCEPT ![r] = x]
    PROVE  Moves(r, x)
BY DEF TypeOK, Moves

LEMMA GotoMoves ==
    ASSUME TypeOK, NEW r \in Requests, request[r].pc \in WorkLabels, NEW label, Goto(r, label)
    PROVE  Moves(r, WorkAt(label, request[r].job, request[r].source, request[r].todo))
<1>1. request[r] \in Working
  BY WorkingRequest
<1>2. [request[r] EXCEPT !.pc = label] = WorkAt(label, request[r].job, request[r].source, request[r].todo)
  BY <1>1 DEF Working, WorkAt
<1>3. request' = [request EXCEPT ![r] = [request[r] EXCEPT !.pc = label]]
  BY DEF Goto, TypeOK
<1> QED BY <1>2, <1>3, AssignMoves

\* A step that takes a request to a place where it owns no job, and changes no row,
\* disturbs nobody.
Bystander(x) == x.pc \in {"idle", "retry", "delete", "claim"}

LEMMA BystanderMoves ==
    ASSUME TypeOK, Ownership, NEW r \in Requests, NEW x, Bystander(x), Moves(r, x),
           UNCHANGED <<row, upload, pipelines, sweep>>
    PROVE  Ownership'
<1> USE DEF Moves, Bystander, Ownership
<1>1. \A s \in Requests : Submitting(s)' \/ At(s, "enqueue")' \/ Reclaiming(s)' => s # r
  BY DEF Submitting, At, Reclaiming
<1>2. SubmissionsAreNew' /\ OneSubmitter'
  BY <1>1 DEF SubmissionsAreNew, OneSubmitter, Submitting, SameJob, At
<1>3. EnqueuedIsActive' /\ OneEnqueuer' /\ RunningIsActive'
  BY <1>1 DEF EnqueuedIsActive, OneEnqueuer, RunningIsActive, SameJob, At
<1>4. ReclaimedIsDeleted'
  BY <1>1 DEF ReclaimedIsDeleted, Reclaiming
<1>5. SweptIsDone' /\ InputSurvives'
  BY DEF SweptIsDone, InputSurvives
<1> QED BY <1>2, <1>3, <1>4, <1>5

\* Nobody works at a fresh job.
LEMMA FreshIsFree ==
    ASSUME TypeOK, Ownership, NEW j \in Jobs, Fresh(j)
    PROVE  /\ \A s \in Requests : request[s].pc \in WorkLabels => request[s].job # j
           /\ pipelines[j] = 0 /\ j \notin sweep.todo \cup sweep.job
<1>1. \A s \in Requests : request[s].pc \in WorkLabels => request[s].job # j
  BY WorkingRequest DEF Fresh
<1>2. pipelines[j] = 0
  BY DEF Ownership, RunningIsActive, Fresh, TypeOK
<1>3. j \notin sweep.todo \cup sweep.job
  BY DEF Ownership, SweptIsDone, Fresh
<1> QED BY <1>1, <1>2, <1>3

\* A submission begins, at a job that is free, and only its upload changes.
LEMMA SubmissionBegins ==
    ASSUME TypeOK, Ownership, NEW r \in Requests, NEW j \in Jobs, NEW src \in Jobs, Fresh(j), At(r, "idle"),
           NEW label \in {"stream", "copy"}, NEW content, SetUpload(j, content),
           Moves(r, WorkAt(label, j, src, {})), UNCHANGED <<row, pipelines, sweep>>
    PROVE  Ownership'
<1> USE DEF Moves, Ownership, WorkAt
<1>1. \A s \in Requests : request[s].pc \in WorkLabels => request[s].job # j
  BY FreshIsFree
<1>2. SubmissionsAreNew'
  <2> SUFFICES ASSUME NEW s \in Requests, Submitting(s)'
               PROVE  /\ row[request'[s].job].status = "absent"
                      /\ request'[s].pc = "insert" => upload'[request'[s].job] = "media"
    BY DEF SubmissionsAreNew, At
  <2>1. CASE s = r
    BY <2>1 DEF Fresh
  <2>2. CASE s # r
    <3>1. Submitting(s) /\ request[s].job \in Jobs /\ request[s].job # j
      BY <1>1, <2>2, WorkingRequest DEF Submitting, WorkLabels
    <3> QED BY <2>2, <3>1 DEF SubmissionsAreNew, At, SetUpload, TypeOK
  <2> QED BY <2>1, <2>2
<1>6. OneSubmitter'
  BY <1>1 DEF OneSubmitter, Submitting, SameJob, WorkLabels
<1>3. EnqueuedIsActive' /\ OneEnqueuer' /\ RunningIsActive'
  BY DEF EnqueuedIsActive, OneEnqueuer, RunningIsActive, SameJob, At
<1>4. ReclaimedIsDeleted'
  BY DEF ReclaimedIsDeleted, Reclaiming
<1>5. SweptIsDone' /\ InputSurvives'
  BY DEF SweptIsDone, InputSurvives, Fresh, SetUpload, TypeOK
<1> QED BY <1>2, <1>3, <1>4, <1>5, <1>6

\* The step from copying or inserting a new job to its row, or the end of it.
LEMMA SubmissionOwnership ==
    ASSUME TypeOK, Ownership, NEW r \in Requests, Submission(r)
    PROVE  Ownership'
<1> DEFINE job == request[r].job
<1>1. ASSUME NEW j \in Jobs, UploadBegins(r, j)
      PROVE  Ownership'
  <2>1. Moves(r, WorkAt("stream", j, j, {}))
    BY <1>1, AssignMoves DEF UploadBegins
  <2> QED BY <1>1, <2>1, SubmissionBegins DEF UploadBegins
<1>2. ASSUME NEW src \in Jobs, NEW j \in Jobs, ReTranscribe(r, src, j)
      PROVE  Ownership'
  <2>1. Moves(r, WorkAt("copy", j, src, {}))
    BY <1>2, AssignMoves DEF ReTranscribe
  <2> QED BY <1>2, <2>1, SubmissionBegins DEF ReTranscribe
<1>3. ASSUME NEW j \in Jobs, SubmitUrl(r, j)
      PROVE  Ownership'
  <2> USE <1>3 DEF Ownership
  <2>1. Moves(r, WorkAt("enqueue", j, j, {}))
    BY AssignMoves DEF SubmitUrl
  <2>2. \A s \in Requests \ {r} : request'[s] = request[s] /\ (request[s].pc \in WorkLabels =>
            /\ request[s].job \in Jobs \ {j} /\ row'[request[s].job] = row[request[s].job]
            /\ upload'[request[s].job] = upload[request[s].job])
    BY <2>1, FreshIsFree, WorkingRequest DEF SubmitUrl, SetUpload, TypeOK, Moves
  <2>3. request'[r].pc = "enqueue" /\ request'[r].job = j /\ row'[j].status = "active" /\ row'[j].url
    BY <2>1 DEF SubmitUrl, TypeOK, Moves, WorkAt
  <2>4. SubmissionsAreNew' /\ OneSubmitter'
    BY <2>2, <2>3 DEF SubmissionsAreNew, OneSubmitter, Submitting, SameJob, At, WorkLabels
  <2>5. EnqueuedIsActive' /\ OneEnqueuer'
    BY <2>2, <2>3, FreshIsFree DEF SubmitUrl, EnqueuedIsActive, OneEnqueuer, SameJob, At, WorkLabels
  <2>6. RunningIsActive'
    BY FreshIsFree DEF SubmitUrl, RunningIsActive, TypeOK
  <2>7. ReclaimedIsDeleted'
    BY <2>2, <2>3 DEF ReclaimedIsDeleted, Reclaiming, WorkLabels
  <2>8. SweptIsDone'
    BY FreshIsFree DEF SubmitUrl, SweptIsDone, TypeOK
  <2>9. InputSurvives'
    BY <2>3 DEF SubmitUrl, SetUpload, InputSurvives, TypeOK
  <2> QED BY <2>4, <2>5, <2>6, <2>7, <2>8, <2>9
<1>4. CASE UploadStreamed(r) \/ Copied(r) \/ UploadSkipped(r) \/ CopyFails(r)
  <2> USE DEF Ownership
  <2>1. /\ Submitting(r) /\ job \in Jobs /\ row[job].status = "absent"
        /\ UNCHANGED <<row, pipelines, sweep>>
    BY <1>4, WorkingRequest
    DEF SubmissionsAreNew, UploadStreamed, Copied, UploadSkipped, CopyFails, At, Submitting, WorkLabels
  <2>2. upload' = upload \/ \E content : SetUpload(job, content)
    BY <1>4 DEF UploadStreamed, Copied, UploadSkipped, CopyFails
  <2>3. \A i \in Jobs \ {job} : upload'[i] = upload[i]
    BY <2>2 DEF SetUpload, TypeOK
  <2>4. \/ Moves(r, Idle)
        \/ /\ \E src, todo : Moves(r, WorkAt("insert", job, src, todo))
           /\ upload'[job] = "media"
    <3>1. CASE UploadStreamed(r)
      BY <2>1, <3>1, GotoMoves DEF UploadStreamed, At, WorkLabels, SetUpload, TypeOK
    <3>2. CASE Copied(r)
      BY <2>1, <3>2, AssignMoves DEF Copied, SetUpload, TypeOK
    <3>3. CASE UploadSkipped(r) \/ CopyFails(r)
      BY <3>3, AssignMoves DEF UploadSkipped, CopyFails, Finish
    <3> QED BY <1>4, <3>1, <3>2, <3>3
  <2>5. \A s \in Requests \ {r} : request'[s] = request[s]
            /\ (Submitting(s) => request[s].job \in Jobs \ {job})
    BY <2>1, <2>4, WorkingRequest DEF Moves, OneSubmitter, SameJob, Submitting, WorkLabels
  <2>6. \/ request'[r].pc = "idle"
        \/ request'[r].pc = "insert" /\ request'[r].job = job /\ upload'[job] = "media"
    <3>1. ASSUME NEW src, NEW todo, Moves(r, WorkAt("insert", job, src, todo))
          PROVE  request'[r].pc = "insert" /\ request'[r].job = job
      <4>1. request'[r] = [pc |-> "insert", job |-> job, source |-> src, todo |-> todo]
        BY <3>1 DEF Moves, WorkAt
      <4> QED BY <4>1
    <3>2. Moves(r, Idle) => request'[r].pc = "idle"
      BY DEF Moves, Idle
    <3> QED BY <2>4, <3>1, <3>2
  <2>7. SubmissionsAreNew' /\ OneSubmitter'
    BY <2>1, <2>3, <2>5, <2>6 DEF SubmissionsAreNew, OneSubmitter, Submitting, SameJob, At
  <2>8. EnqueuedIsActive' /\ OneEnqueuer' /\ RunningIsActive' /\ ReclaimedIsDeleted'
    BY <2>1, <2>5, <2>6 DEF EnqueuedIsActive, OneEnqueuer, RunningIsActive, ReclaimedIsDeleted,
        Reclaiming, SameJob, At
  <2>9. SweptIsDone' /\ InputSurvives'
    BY <2>1, <2>3 DEF SweptIsDone, InputSurvives
  <2> QED BY <2>7, <2>8, <2>9
<1>5. CASE Insert(r)
  <2> USE DEF Ownership
  <2>1. /\ Submitting(r) /\ job \in Jobs /\ row[job].status = "absent" /\ upload[job] = "media"
        /\ UNCHANGED <<upload, pipelines, sweep>>
        /\ row' = [row EXCEPT ![job] = [status |-> "active", url |-> FALSE]]
    BY <1>5, WorkingRequest DEF SubmissionsAreNew, Insert, At, Submitting, WorkLabels, files
  <2>2. Moves(r, WorkAt("enqueue", job, request[r].source, request[r].todo))
    BY <1>5, GotoMoves DEF Insert, At, WorkLabels
  <2>3. /\ request'[r].pc = "enqueue" /\ request'[r].job = job
        /\ \A s \in Requests \ {r} : request'[s] = request[s]
            /\ (request[s].pc \in WorkLabels => request[s].job \in Jobs)
            /\ (Submitting(s) => request[s].job # job)
    BY <2>1, <2>2, WorkingRequest DEF Moves, WorkAt, OneSubmitter, SameJob
  <2>4. \A s \in Requests : At(s, "enqueue") \/ Reclaiming(s) => request[s].job # job
    BY <2>1 DEF EnqueuedIsActive, ReclaimedIsDeleted
  <2>5. row'[job].status = "active" /\ \A i \in Jobs \ {job} : row'[i] = row[i]
    BY <2>1 DEF TypeOK
  <2>6. SubmissionsAreNew' /\ OneSubmitter'
    BY <2>1, <2>3, <2>5 DEF SubmissionsAreNew, OneSubmitter, Submitting, SameJob, At, WorkLabels
  <2>7. pipelines[job] = 0
    BY <2>1 DEF RunningIsActive, TypeOK
  <2>8. EnqueuedIsActive' /\ OneEnqueuer' /\ RunningIsActive'
    BY <2>1, <2>3, <2>4, <2>5, <2>7 DEF EnqueuedIsActive, OneEnqueuer, RunningIsActive, SameJob, At, WorkLabels
  <2>9. ReclaimedIsDeleted'
    BY <2>3, <2>4, <2>5 DEF ReclaimedIsDeleted, Reclaiming, WorkLabels
  <2>10. SweptIsDone' /\ InputSurvives'
    BY <2>1, <2>5 DEF SweptIsDone, InputSurvives, TypeOK
  <2> QED BY <2>6, <2>8, <2>9, <2>10
<1> QED BY <1>1, <1>2, <1>3, <1>4, <1>5 DEF Submission, ReTranscribeUrl

\* A request goes on with the ids it has left.
LEMMA GoOnMoves ==
    ASSUME TypeOK, NEW r \in Requests, NEW loop \in {"retry", "delete"}, GoOn(r, loop)
    PROVE  request'[r].pc = loop /\ \A s \in Requests \ {r} : request'[s] = request[s]
BY DEF GoOn, TypeOK

LEMMA RetryingOwnership ==
    ASSUME TypeOK, Ownership, NEW r \in Requests, Retrying(r) \/ AllDone(r)
    PROVE  Ownership'
<1> DEFINE job == request[r].job
<1> USE DEF Ownership
<1>1. ASSUME NEW todo \in SUBSET Jobs, RetryBegins(r, todo)
      PROVE  Ownership'
  <2>1. Moves(r, [pc |-> "retry", todo |-> todo])
    BY <1>1, AssignMoves DEF RetryBegins
  <2> QED BY <1>1, <2>1, BystanderMoves DEF RetryBegins, Bystander, files
<1>2. ASSUME NEW j \in Jobs, RetryNext(r, j)
      PROVE  Ownership'
  <2>1. \E x : Moves(r, x) /\ Bystander(x)
    <3>1. CASE row[j].status = "failed"
      <4>1. Moves(r, WorkAt("claim", j, j, request[r].todo \ {j}))
        BY <1>2, <3>1, AssignMoves DEF RetryNext
      <4> QED BY <4>1 DEF Bystander, WorkAt
    <3>2. CASE row[j].status # "failed"
      <4>1. Moves(r, [pc |-> "retry", todo |-> request[r].todo \ {j}])
        BY <1>2, <3>2, AssignMoves DEF RetryNext
      <4> QED BY <4>1 DEF Bystander
    <3> QED BY <3>1, <3>2
  <2> QED BY <1>2, <2>1, BystanderMoves DEF RetryNext, files
<1>3. CASE AllDone(r)
  <2>1. Moves(r, Idle)
    BY <1>3, AssignMoves DEF AllDone, Finish
  <2> QED BY <1>3, <2>1, BystanderMoves DEF AllDone, Bystander, Idle, files
<1>4. CASE Claim(r) /\ ~Claimable(job)
  <2>1. Moves(r, [pc |-> "retry", todo |-> request[r].todo])
    BY <1>4, AssignMoves DEF Claim, GoOn
  <2> QED BY <1>4, <2>1, BystanderMoves DEF Claim, Bystander, files
<1>5. CASE Claim(r) /\ Claimable(job)
  <2>1. /\ job \in Jobs /\ row[job].status = "failed"
        /\ UNCHANGED <<upload, pipelines, sweep>>
        /\ row' = [row EXCEPT ![job].status = "active"]
    BY <1>5, WorkingRequest DEF Claim, Claimable, At, SetStatus, WorkLabels, files
  <2>2. Moves(r, WorkAt("enqueue", job, request[r].source, request[r].todo))
    BY <1>5, GotoMoves DEF Claim, At, WorkLabels
  <2>3. /\ request'[r].pc = "enqueue" /\ request'[r].job = job
        /\ \A s \in Requests \ {r} : request'[s] = request[s]
            /\ (request[s].pc \in WorkLabels => request[s].job \in Jobs)
    BY <2>2, WorkingRequest DEF Moves, WorkAt
  <2>4. \A s \in Requests : Submitting(s) \/ At(s, "enqueue") \/ Reclaiming(s) => request[s].job # job
    BY <2>1 DEF SubmissionsAreNew, EnqueuedIsActive, ReclaimedIsDeleted
  <2>5. /\ row'[job].status = "active" /\ row'[job].url = row[job].url
        /\ \A i \in Jobs \ {job} : row'[i] = row[i]
    BY <2>1 DEF TypeOK
  <2>6. SubmissionsAreNew' /\ OneSubmitter'
    BY <2>1, <2>3, <2>4, <2>5 DEF SubmissionsAreNew, OneSubmitter, Submitting, SameJob, At, WorkLabels
  <2>7. pipelines[job] = 0
    BY <2>1 DEF RunningIsActive, TypeOK
  <2>8. EnqueuedIsActive' /\ OneEnqueuer' /\ RunningIsActive'
    BY <2>1, <2>3, <2>4, <2>5, <2>7 DEF EnqueuedIsActive, OneEnqueuer, RunningIsActive, SameJob, At, WorkLabels
  <2>9. ReclaimedIsDeleted'
    BY <2>3, <2>4, <2>5 DEF ReclaimedIsDeleted, Reclaiming, WorkLabels
  <2>10. SweptIsDone' /\ InputSurvives'
    BY <2>1, <2>5 DEF SweptIsDone, InputSurvives, TypeOK
  <2> QED BY <2>6, <2>8, <2>9, <2>10
<1>6. CASE Enqueued(r) \/ EnqueueFails(r)
  <2>1. /\ job \in Jobs /\ row[job].status = "active" /\ pipelines[job] = 0 /\ At(r, "enqueue")
        /\ UNCHANGED <<upload, sweep>>
    BY <1>6, WorkingRequest DEF EnqueuedIsActive, Enqueued, EnqueueFails, At, WorkLabels, files
  <2>2. request'[r].pc = "retry" /\ \A s \in Requests \ {r} : request'[s] = request[s]
    BY <1>6, GoOnMoves DEF Enqueued, EnqueueFails
  <2>3. /\ \A s \in Requests : Submitting(s) \/ Reclaiming(s) => request[s].job # job
        /\ \A s \in Requests \ {r} : At(s, "enqueue") => request[s].job # job
        /\ \A s \in Requests : request[s].pc \in WorkLabels => request[s].job \in Jobs
    BY <2>1, WorkingRequest DEF SubmissionsAreNew, ReclaimedIsDeleted, OneEnqueuer, SameJob
  <2>4. /\ \A i \in Jobs \ {job} : row'[i] = row[i] /\ pipelines'[i] = pipelines[i]
        /\ row'[job].url = row[job].url
        /\ \/ row'[job].status = "active" /\ pipelines'[job] = 1
           \/ row'[job].status = "failed" /\ pipelines'[job] = 0
    BY <1>6, <2>1 DEF Enqueued, EnqueueFails, SetStatus, TypeOK
  <2>5. SubmissionsAreNew' /\ OneSubmitter'
    BY <2>1, <2>2, <2>3, <2>4 DEF SubmissionsAreNew, OneSubmitter, Submitting, SameJob, At, WorkLabels
  <2>6. EnqueuedIsActive' /\ OneEnqueuer'
    BY <2>2, <2>3, <2>4 DEF EnqueuedIsActive, OneEnqueuer, SameJob, At, WorkLabels
  <2>7. RunningIsActive'
    BY <2>4 DEF RunningIsActive
  <2>8. ReclaimedIsDeleted'
    BY <2>2, <2>3, <2>4 DEF ReclaimedIsDeleted, Reclaiming, WorkLabels
  <2>9. SweptIsDone' /\ InputSurvives'
    BY <2>1, <2>4 DEF SweptIsDone, InputSurvives, TypeOK
  <2> QED BY <2>5, <2>6, <2>7, <2>8, <2>9
<1> QED BY <1>1, <1>2, <1>3, <1>4, <1>5, <1>6 DEF Retrying

LEMMA DeletionOwnership ==
    ASSUME TypeOK, Ownership, NEW r \in Requests, Deletion(r)
    PROVE  Ownership'
<1> DEFINE job == request[r].job
<1> USE DEF Ownership
<1>1. ASSUME NEW todo \in SUBSET Jobs, DeleteBegins(r, todo)
      PROVE  Ownership'
  <2>1. Moves(r, [pc |-> "delete", todo |-> todo])
    BY <1>1, AssignMoves DEF DeleteBegins
  <2> QED BY <1>1, <2>1, BystanderMoves DEF DeleteBegins, Bystander, files
<1>2. ASSUME NEW j \in Jobs, DeleteNext(r, j), ~Deletable(j)
      PROVE  Ownership'
  <2>1. Moves(r, [pc |-> "delete", todo |-> request[r].todo \ {j}])
    BY <1>2, AssignMoves DEF DeleteNext
  <2> QED BY <1>2, <2>1, BystanderMoves DEF DeleteNext, Bystander, files
<1>3. ASSUME NEW j \in Jobs, DeleteNext(r, j), Deletable(j)
      PROVE  Ownership'
  <2>1. /\ row[j].status \in {"completed", "failed"} /\ UNCHANGED <<upload, pipelines, sweep>>
        /\ row' = [row EXCEPT ![j].status = "deleted"]
    BY <1>3 DEF DeleteNext, Deletable, SetStatus, files
  <2>2. Moves(r, WorkAt("look", j, j, request[r].todo \ {j}))
    BY <1>3, AssignMoves DEF DeleteNext
  <2>3. /\ request'[r].pc = "look" /\ request'[r].job = j
        /\ \A s \in Requests \ {r} : request'[s] = request[s]
            /\ (request[s].pc \in WorkLabels => request[s].job \in Jobs)
    BY <2>2, WorkingRequest DEF Moves, WorkAt
  <2>4. row'[j].status = "deleted" /\ \A i \in Jobs \ {j} : row'[i] = row[i]
    BY <2>1 DEF TypeOK
  <2>5. \A s \in Requests : Submitting(s) \/ At(s, "enqueue") => request[s].job # j
    BY <2>1 DEF SubmissionsAreNew, EnqueuedIsActive
  <2>6. SubmissionsAreNew' /\ OneSubmitter'
    BY <2>1, <2>3, <2>4, <2>5 DEF SubmissionsAreNew, OneSubmitter, Submitting, SameJob, At, WorkLabels
  <2>7. EnqueuedIsActive' /\ OneEnqueuer'
    BY <2>1, <2>3, <2>4, <2>5 DEF EnqueuedIsActive, OneEnqueuer, SameJob, At, WorkLabels
  <2>8. RunningIsActive'
    BY <2>1, <2>4 DEF RunningIsActive, TypeOK
  <2>9. ReclaimedIsDeleted'
    BY <2>3, <2>4 DEF ReclaimedIsDeleted, Reclaiming, WorkLabels
  <2>10. SweptIsDone' /\ InputSurvives'
    BY <2>1, <2>4 DEF SweptIsDone, InputSurvives, TypeOK
  <2> QED BY <2>6, <2>7, <2>8, <2>9, <2>10
<1>4. CASE Look(r) \/ Rmtree(r) \/ RmtreeFails(r)
  <2>1. /\ Reclaiming(r) /\ job \in Jobs /\ row[job].status = "deleted"
        /\ UNCHANGED <<row, pipelines, sweep>>
    BY <1>4, WorkingRequest DEF ReclaimedIsDeleted, Look, Rmtree, RmtreeFails, At, Reclaiming, WorkLabels
  <2>2. \A i \in Jobs \ {job} : upload'[i] = upload[i]
    BY <1>4 DEF Look, Rmtree, RmtreeFails, SetUpload, TypeOK
  <2>3. /\ \/ request'[r].pc = "delete"
           \/ request'[r].pc = "rmtree" /\ request'[r].job = job
        /\ \A s \in Requests \ {r} : request'[s] = request[s]
    <3>1. CASE Look(r) /\ Goto(r, "rmtree")
      <4>1. Moves(r, WorkAt("rmtree", job, request[r].source, request[r].todo))
        BY <3>1, GotoMoves DEF Look, At, WorkLabels
      <4> QED BY <4>1 DEF Moves, WorkAt
    <3>2. CASE GoOn(r, "delete")
      BY <3>2, GoOnMoves
    <3> QED BY <1>4, <3>1, <3>2 DEF Look, Rmtree, RmtreeFails
  <2>4. \A s \in Requests : Submitting(s) => request[s].job \in Jobs \ {job}
    BY <2>1, WorkingRequest DEF SubmissionsAreNew, Submitting, WorkLabels
  <2>5. SubmissionsAreNew' /\ OneSubmitter'
    BY <2>1, <2>2, <2>3, <2>4 DEF SubmissionsAreNew, OneSubmitter, Submitting, SameJob, At
  <2>6. EnqueuedIsActive' /\ OneEnqueuer' /\ RunningIsActive' /\ ReclaimedIsDeleted'
    BY <2>1, <2>3 DEF EnqueuedIsActive, OneEnqueuer, RunningIsActive, ReclaimedIsDeleted,
        Reclaiming, SameJob, At
  <2>7. SweptIsDone' /\ InputSurvives'
    BY <2>1, <2>2 DEF SweptIsDone, InputSurvives
  <2> QED BY <2>5, <2>6, <2>7
<1> QED BY <1>1, <1>2, <1>3, <1>4 DEF Deletion

LEMMA SweepOwnership ==
    ASSUME TypeOK, Ownership, Sweep
    PROVE  Ownership'
<1> USE DEF Ownership
<1>1. UNCHANGED <<row, pipelines, request>>
  BY DEF Sweep, SweepBegins, SweepEnds, SweepLooks, SweepRmtree
<1>2. SweptIsDone'
  <2>1. ASSUME NEW j \in Jobs, SweepLooks(j)
        PROVE  SweptIsDone'
    BY <1>1, <2>1 DEF SweepLooks, Inspected, SweptIsDone, TypeOK
  <2>2. ASSUME NEW j \in Jobs, SweepRmtree(j)
        PROVE  SweptIsDone'
    BY <1>1, <2>2 DEF SweepRmtree, SweptIsDone, TypeOK
  <2>3. CASE SweepBegins
    BY <1>1, <2>3 DEF SweepBegins, NoSweep, Expired, SweptIsDone
  <2>4. CASE SweepEnds
    BY <1>1, <2>4 DEF SweepEnds, NoSweep, SweptIsDone
  <2> QED BY <2>1, <2>2, <2>3, <2>4 DEF Sweep
<1>3. \A i \in Jobs : row[i].status \notin {"completed", "deleted"} => upload'[i] = upload[i]
  <2>1. ASSUME NEW j \in Jobs, SweepRmtree(j)
        PROVE  /\ row[j].status \in {"completed", "deleted"}
               /\ \A i \in Jobs \ {j} : upload'[i] = upload[i]
    BY <2>1 DEF SweepRmtree, SweptIsDone, SetUpload, TypeOK
  <2>2. upload' = upload \/ \E j \in Jobs : SweepRmtree(j)
    BY DEF Sweep, SweepBegins, SweepEnds, SweepLooks, files
  <2> QED BY <2>1, <2>2
<1>4. InputSurvives'
  BY <1>1, <1>3 DEF InputSurvives
<1>5. SubmissionsAreNew'
  <2>1. \A r \in Requests : Submitting(r) => request[r].job \in Jobs
    BY WorkingRequest DEF Submitting, WorkLabels
  <2> QED BY <1>1, <1>3, <2>1 DEF SubmissionsAreNew, Submitting, At
<1>6. OneSubmitter' /\ EnqueuedIsActive' /\ OneEnqueuer' /\ RunningIsActive' /\ ReclaimedIsDeleted'
  BY <1>1 DEF OneSubmitter, EnqueuedIsActive, OneEnqueuer, RunningIsActive, ReclaimedIsDeleted,
      Submitting, Reclaiming, SameJob, At
<1> QED BY <1>2, <1>4, <1>5, <1>6

\* A pipeline ends, or the reaper gives a job up: the job was active, and nobody else
\* had it.
LEMMA EndOwnership ==
    ASSUME TypeOK, Ownership, NEW j \in Jobs, PipelineCompletes(j) \/ PipelineFails(j) \/ Reap(j)
    PROVE  Ownership'
<1> USE DEF Ownership
<1>1. row[j].status = "active" /\ UNCHANGED <<request, sweep>>
  BY DEF PipelineCompletes, PipelineFails, Reap, RunningIsActive
<1>2. /\ \A r \in Requests : Submitting(r) \/ At(r, "enqueue") \/ Reclaiming(r) => request[r].job # j
      /\ \A r \in Requests : request[r].pc \in WorkLabels => request[r].job \in Jobs
  BY <1>1, WorkingRequest DEF PipelineCompletes, PipelineFails, Reap, SubmissionsAreNew, EnqueuedIsActive,
      ReclaimedIsDeleted
<1>3. \A i \in Jobs \ {j} : row'[i] = row[i] /\ upload'[i] = upload[i] /\ pipelines'[i] = pipelines[i]
  BY DEF PipelineCompletes, PipelineFails, Reap, SetStatus, SetUpload, files, TypeOK
<1>4. pipelines'[j] = 0
  BY DEF PipelineCompletes, PipelineFails, Reap, RunningIsActive, TypeOK
<1>5. /\ row'[j].url = row[j].url
      /\ \/ row'[j].status = "completed"
         \/ row'[j].status = "failed" /\ (row[j].url \/ upload'[j] = upload[j])
  BY <1>1 DEF PipelineCompletes, PipelineFails, Reap, SetStatus, SetUpload, files, TypeOK
<1>6. SubmissionsAreNew' /\ OneSubmitter'
  BY <1>1, <1>2, <1>3 DEF SubmissionsAreNew, OneSubmitter, Submitting, SameJob, At, WorkLabels
<1>7. EnqueuedIsActive' /\ OneEnqueuer'
  BY <1>1, <1>2, <1>3 DEF EnqueuedIsActive, OneEnqueuer, SameJob, At, WorkLabels
<1>8. RunningIsActive'
  BY <1>3, <1>4 DEF RunningIsActive
<1>9. ReclaimedIsDeleted'
  BY <1>1, <1>2, <1>3 DEF ReclaimedIsDeleted, Reclaiming, WorkLabels
<1>10. SweptIsDone' /\ InputSurvives'
  BY <1>1, <1>3, <1>5 DEF SweptIsDone, InputSurvives, TypeOK
<1> QED BY <1>6, <1>7, <1>8, <1>9, <1>10

\* A survivor's report makes a FAILED job look active: nobody builds, runs or reclaims it.
LEMMA SurvivorOwnership ==
    ASSUME TypeOK, Ownership, NEW j \in Jobs, SurvivorReports(j)
    PROVE  Ownership'
<1> USE DEF Ownership
<1>1. row[j].status = "failed" /\ UNCHANGED <<upload, pipelines, request, sweep>>
  BY DEF SurvivorReports, files
<1>2. /\ \A r \in Requests : Submitting(r) \/ At(r, "enqueue") \/ Reclaiming(r) => request[r].job # j
      /\ \A r \in Requests : request[r].pc \in WorkLabels => request[r].job \in Jobs
  BY <1>1, WorkingRequest DEF SubmissionsAreNew, EnqueuedIsActive, ReclaimedIsDeleted
<1>3. /\ row'[j].status = "active" /\ row'[j].url = row[j].url
      /\ \A i \in Jobs \ {j} : row'[i] = row[i]
  BY DEF SurvivorReports, SetStatus, TypeOK
<1>4. SubmissionsAreNew' /\ OneSubmitter'
  BY <1>1, <1>2, <1>3 DEF SubmissionsAreNew, OneSubmitter, Submitting, SameJob, At, WorkLabels
<1>5. EnqueuedIsActive' /\ OneEnqueuer' /\ RunningIsActive'
  BY <1>1, <1>2, <1>3 DEF EnqueuedIsActive, OneEnqueuer, RunningIsActive, SameJob, At, WorkLabels
<1>6. ReclaimedIsDeleted'
  BY <1>1, <1>2, <1>3 DEF ReclaimedIsDeleted, Reclaiming, WorkLabels
<1>7. SweptIsDone' /\ InputSurvives'
  BY <1>1, <1>3 DEF SweptIsDone, InputSurvives, TypeOK
<1> QED BY <1>4, <1>5, <1>6, <1>7

LEMMA StepOwnership ==
    ASSUME TypeOK, Ownership, [Next]_vars
    PROVE  Ownership'
<1> USE DEF Ownership
<1>1. CASE UNCHANGED vars \/ \E j \in Jobs : Age(j) \/ SurvivorsEnd(j)
  BY <1>1 DEF vars, files, Age, SurvivorsEnd, SubmissionsAreNew, OneSubmitter, EnqueuedIsActive, OneEnqueuer,
      RunningIsActive, ReclaimedIsDeleted, SweptIsDone, InputSurvives, Submitting, Reclaiming, SameJob, At
<1>2. CASE Restart
  <2>1. \A r \in Requests : request'[r].pc = "idle"
    BY <1>2 DEF Restart, Idle
  <2>2. sweep'.todo \cup sweep'.job = {}
    BY <1>2 DEF Restart, NoSweep
  <2> QED
    BY <1>2, <2>1, <2>2 DEF Restart, files, SubmissionsAreNew, OneSubmitter, EnqueuedIsActive, OneEnqueuer,
        RunningIsActive, ReclaimedIsDeleted, SweptIsDone, InputSurvives, Submitting, Reclaiming, At
<1> QED
  BY <1>1, <1>2, SubmissionOwnership, RetryingOwnership, DeletionOwnership, SweepOwnership, EndOwnership,
     SurvivorOwnership
  DEF Next

\* The invariant behind the theorems below.
THEOREM LibraryInvariant == Spec => []LibraryInv
<1>1. Init => LibraryInv
  <2> SUFFICES ASSUME Init
               PROVE  LibraryInv
    OBVIOUS
  <2>1. TypeOK /\ SweepBelowLimit
    BY LibraryAssumption DEF LibraryAssumption, Init, TypeOK, NoSweep, Statuses, Uploads, SweepBelowLimit
  <2>2. \A r \in Requests : request[r].pc = "idle"
    BY DEF Init, Idle
  <2>3. Ownership
    BY <2>2 DEF Init, NoSweep, Ownership, SubmissionsAreNew, OneSubmitter, EnqueuedIsActive, OneEnqueuer,
        RunningIsActive, ReclaimedIsDeleted, SweptIsDone, InputSurvives, Submitting, Reclaiming, At
  <2> QED BY <2>1, <2>3 DEF LibraryInv
<1>2. LibraryInv /\ [Next]_vars => LibraryInv'
  BY StepTypes, StepOwnership DEF LibraryInv
<1> QED BY <1>1, <1>2, PTL DEF Spec

\* However many retries and submissions are in flight, a job has one pipeline at most,
\* built or running.
THEOREM LibraryOnePipeline == Spec => []OnePipelinePerJob
<1>1. LibraryInv => OnePipelinePerJob
  <2> SUFFICES ASSUME LibraryInv, NEW j \in Jobs
               PROVE  pipelines[j] + Cardinality({r \in Requests : At(r, "enqueue") /\ request[r].job = j}) <= 1
    BY DEF OnePipelinePerJob
  <2> DEFINE builders == {r \in Requests : At(r, "enqueue") /\ request[r].job = j}
  <2>1. pipelines[j] \in Nat /\ pipelines[j] <= 1
    BY DEF LibraryInv, Ownership, RunningIsActive, TypeOK
  <2>2. CASE builders = {}
    <3>1. Cardinality(builders) = 0
      BY <2>2, FS_EmptySet
    <3> QED BY <2>1, <3>1
  <2>3. ASSUME NEW r \in builders
        PROVE  builders = {r} /\ pipelines[j] = 0
    BY DEF LibraryInv, Ownership, OneEnqueuer, EnqueuedIsActive, SameJob
  <2>4. CASE builders # {}
    <3>1. PICK r \in builders : TRUE
      BY <2>4
    <3>2. Cardinality(builders) = 1 /\ pipelines[j] = 0
      BY <2>3, FS_Singleton
    <3> QED BY <3>2
  <2> QED BY <2>2, <2>4
<1> QED BY <1>1, LibraryInvariant, PTL

\* The audio of an uploaded job is there as long as the job runs or may be retried.
THEOREM LibraryInputSurvives == Spec => []InputSurvives
<1>1. LibraryInv => InputSurvives
  BY DEF LibraryInv, Ownership
<1> QED BY <1>1, LibraryInvariant, PTL

\* A deletion reclaims only what no retry can reach any more: the row is gone for good,
\* and no attempt is built or runs, whatever a failed one has left running.
THEOREM LibraryReclaimsDeleted == Spec => []ReclaimOnlyDeleted
<1>1. LibraryInv => ReclaimOnlyDeleted
  <2> SUFFICES ASSUME LibraryInv, NEW r \in Requests, Reclaiming(r)
               PROVE  /\ row[request[r].job].status = "deleted"
                      /\ pipelines[request[r].job] = 0
                      /\ \A s \in Requests : At(s, "enqueue") => request[s].job # request[r].job
    BY DEF ReclaimOnlyDeleted, Reclaiming, At
  <2>1. row[request[r].job].status = "deleted" /\ request[r].job \in Jobs
    BY WorkingRequest DEF LibraryInv, Ownership, ReclaimedIsDeleted, Reclaiming, WorkLabels
  <2>2. pipelines[request[r].job] = 0
    BY <2>1 DEF LibraryInv, Ownership, RunningIsActive, TypeOK
  <2> QED BY <2>1, <2>2 DEF LibraryInv, Ownership, EnqueuedIsActive
<1> QED BY <1>1, LibraryInvariant, PTL
=============================================================================
