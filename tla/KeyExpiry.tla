----------------------------- MODULE KeyExpiry ------------------------------
(***************************************************************************)
(* The pipeline state keys of one attempt in Redis, which expire           *)
(* PIPELINE_STATE_TTL_SECONDS after they were last armed, while the job    *)
(* waits in a backlog or runs.  The stale-job reaper reads "no live work"  *)
(* from a missing key, and re-arms the keys of every stale job it spares.  *)
(*                                                                         *)
(* Time is discrete, and the reaper has a round in every unit of it (its   *)
(* interval is a minute, the other times are hours).  The sub-jobs are the *)
(* longest chain of the DAG, so one at a time waits or runs.               *)
(***************************************************************************)
EXTENDS Naturals

CONSTANTS
    Stages,        \* length of the chain
    StageTimeout,  \* job_timeout_max
    StaleTimeout,  \* settings.stale_job_timeout
    StateTtl,      \* PIPELINE_STATE_TTL_SECONDS
    MaxMissed      \* bound on rounds the reaper misses

\* The TTL outlives a chain whose every stage waits until just before the reaper takes the
\* job for stale and then runs to its timeout.  The defaults do so (168 h against 6 times
\* 8.5 h and 8 h and a round), but nothing validates it: from JOB_TIMEOUT_MAX = 14 h on
\* they do not.
ASSUME KeyExpiryAssumption ==
    /\ Stages \in Nat \ {0} /\ StageTimeout \in Nat /\ StaleTimeout \in Nat /\ MaxMissed \in Nat
    /\ StateTtl \in Nat /\ StateTtl > Stages * (StageTimeout + StaleTimeout + 1) + MaxMissed

VARIABLES
    attempt,   \* its sub-job at hand: stage, where it is, how long it has run, its context
    verdict,   \* the job: active, or how it ended
    idle,      \* how long ago jobs.updated_at was written, as far as it matters
    ttl,       \* what is left of the time to live of each key; 0: expired
    due,       \* whether a round of the reaper is due
    missed     \* rounds it may still miss

expiryVars == <<attempt, verdict, idle, ttl, due, missed>>

Keys == {"generation", "subjobs", "context"}

KeyExpiryTypeOK ==
    /\ attempt \in [stage : 1..Stages, at : {"queued", "started", "lost"}, ran : 0..StageTimeout,
                    loaded : BOOLEAN]
    /\ verdict \in {"active", "completed", "failed", "reaped"}
    /\ idle \in 0..StaleTimeout + 1
    /\ ttl \in [Keys -> 0..StateTtl]
    /\ due \in BOOLEAN
    /\ missed \in 0..MaxMissed

\* enqueue_pipeline has armed all three.
KeyExpiryInit ==
    /\ attempt = [stage |-> 1, at |-> "queued", ran |-> 0, loaded |-> FALSE]
    /\ verdict = "active"
    /\ idle = 0
    /\ ttl = [k \in Keys |-> StateTtl]
    /\ due = FALSE
    /\ missed = MaxMissed

Active == verdict = "active"

-----------------------------------------------------------------------------

\* Time passes.  RQ's death penalty ends a sub-job at its timeout.
Tick ==
    /\ Active /\ ~due
    /\ attempt.at = "started" => attempt.ran < StageTimeout
    /\ attempt' = IF attempt.at = "started" THEN [attempt EXCEPT !.ran = @ + 1] ELSE attempt
    /\ idle' = IF idle > StaleTimeout THEN idle ELSE idle + 1
    /\ ttl' = [k \in Keys |-> IF ttl[k] = 0 THEN 0 ELSE ttl[k] - 1]
    /\ due' = TRUE
    /\ UNCHANGED <<verdict, missed>>

\* A worker takes the sub-job and loads the context; the first one writes PROCESSING.
StartSubjob ==
    /\ Active /\ attempt.at = "queued"
    /\ attempt' = [attempt EXCEPT !.at = "started", !.ran = 0, !.loaded = ttl["context"] > 0]
    /\ idle' = IF attempt.stage = 1 THEN 0 ELSE idle
    /\ UNCHANGED <<verdict, ttl, due, missed>>

\* A report that is mirrored into the row.
MirrorReport ==
    /\ Active /\ attempt.at = "started"
    /\ idle' = 0
    /\ UNCHANGED <<attempt, verdict, ttl, due, missed>>

\* update_if_generation_matches arms the context hash, and creates it if it is gone; a
\* later stage cannot do its work without what the earlier ones put there.
FinishSubjob ==
    /\ Active /\ attempt.at = "started"
    /\ attempt.stage > 1 => attempt.loaded
    /\ ttl' = [ttl EXCEPT !["context"] = StateTtl]
    /\ IF attempt.stage = Stages
       THEN verdict' = "completed" /\ UNCHANGED attempt
       ELSE /\ attempt' = [attempt EXCEPT !.stage = @ + 1, !.at = "queued", !.ran = 0, !.loaded = FALSE]
            /\ UNCHANGED verdict
    /\ UNCHANGED <<idle, due, missed>>

\* The stage raises or is killed, and finalize_failure ends the job.
SubjobFails ==
    /\ Active /\ attempt.at = "started"
    /\ verdict' = "failed"
    /\ UNCHANGED <<attempt, idle, ttl, due, missed>>

\* RQ loses the sub-job, or its failure callback fails: nothing works on the job any more.
SubjobLost ==
    /\ Active /\ attempt.at # "lost"
    /\ attempt' = [attempt EXCEPT !.at = "lost"]
    /\ UNCHANGED <<verdict, idle, ttl, due, missed>>

-----------------------------------------------------------------------------
(* The reaper *)

\* list_stale_active_job_ids
IsStaleCandidate == Active /\ idle > StaleTimeout

\* is_pipeline_dead
IsPipelineDead == ttl["generation"] = 0 \/ ttl["subjobs"] = 0 \/ attempt.at = "lost"

\* Mutant: the set of sub-jobs is forgotten.
RefreshedTtl_CounterOnly == [ttl EXCEPT !["generation"] = StateTtl]

\* _refresh_pipeline_state_ttl
RefreshedTtl == [ttl EXCEPT !["generation"] = StateTtl, !["subjobs"] = StateTtl]

\* recover_stale_pipeline_jobs
ReaperRound ==
    /\ due
    /\ IF IsStaleCandidate /\ IsPipelineDead
       THEN verdict' = "reaped" /\ ttl' = [ttl EXCEPT !["generation"] = StateTtl]
       ELSE /\ ttl' = IF IsStaleCandidate THEN RefreshedTtl ELSE ttl
            /\ UNCHANGED verdict
    /\ due' = FALSE
    /\ UNCHANGED <<attempt, idle, missed>>

\* Redis or the frontend is away, and the round is skipped.
MissRound ==
    /\ due /\ missed > 0
    /\ missed' = missed - 1
    /\ due' = FALSE
    /\ UNCHANGED <<attempt, verdict, idle, ttl>>

KeyExpiryStep ==
    \/ Tick \/ StartSubjob \/ MirrorReport \/ FinishSubjob \/ SubjobFails \/ SubjobLost
    \/ ReaperRound \/ MissRound

KeyExpirySpec == KeyExpiryInit /\ [][KeyExpiryStep]_expiryVars

-----------------------------------------------------------------------------
(* Properties *)

\* The reaper never fails a job that still has a sub-job to run, however long its
\* backlog and however its waits, reports and missed rounds fall together.
LiveIsSpared ==
    verdict = "reaped" => attempt.at = "lost"
=============================================================================
