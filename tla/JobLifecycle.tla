---------------------------- MODULE JobLifecycle ----------------------------
(***************************************************************************)
(* What the pipeline promises about one job, as its owner sees it: the     *)
(* status column of the row and which attempt the transcript on disk       *)
(* belongs to.  An attempt ends COMPLETED or FAILED exactly once, it is    *)
(* COMPLETED only with a transcript of its own already saved, and a        *)
(* terminal job changes only when its owner retries a FAILED one.          *)
(***************************************************************************)
VARIABLES
    status,      \* core/models.py JobStatus
    transcript   \* "none", "stale": an earlier attempt's, "current": this attempt's

Statuses == {"queued", "processing", "completed", "failed"}
Active == {"queued", "processing"}
Terminal == Statuses \ Active

Init == status = "queued" /\ transcript = "none"

Start == /\ status = "queued" /\ status' = "processing"
         /\ UNCHANGED transcript

\* The transcript is written while the attempt is still running ...
Save == /\ status = "processing" /\ transcript' = "current"
        /\ UNCHANGED status

\* ... and only then is the attempt declared complete.
Complete == /\ status = "processing" /\ transcript = "current"
            /\ status' = "completed"
            /\ UNCHANGED transcript

Fail == /\ status \in Active /\ status' = "failed"
        /\ UNCHANGED transcript

Retry == /\ status = "failed" /\ status' = "queued"
         /\ transcript' = IF transcript = "none" THEN "none" ELSE "stale"

Next == Start \/ Save \/ Complete \/ Fail \/ Retry

Spec == Init /\ [][Next]_<<status, transcript>>

\* Every attempt ends.  Nothing obliges the owner to retry.
FairSpec == Spec /\ WF_<<status, transcript>>(Complete \/ Fail)

TypeOK == status \in Statuses /\ transcript \in {"none", "stale", "current"}
=============================================================================
