----------------------------- MODULE Migrations -----------------------------
(***************************************************************************)
(* init_db of storage/migrations.py: every connection the frontend and the *)
(* workers open brings the schema up to date before it is used.  SQLite    *)
(* commits each statement by itself, so openers that start together        *)
(* interleave between any two statements, and a crash leaves whatever the  *)
(* statements so far have made.  Data is not modelled, only the schema.    *)
(***************************************************************************)
EXTENDS Naturals, Sequences

CONSTANTS
    Openers,      \* the processes that open the database
    MaxOpenFaults \* bound on crashes, and on statements that give up waiting for the lock

ASSUME MigrationsAssumption == MaxOpenFaults \in Nat

VARIABLES
    schema,       \* the tables' columns and the indexes in the database file
    opener,       \* how far each process is in init_db
    openFaults    \* faults left to inject

migrationVars == <<schema, opener, openFaults>>

\* Columns every release has had, and what SCHEMA_SQL creates today: all but
\* share_token, which a migration adds to new databases too.
BaseColumns == {"id", "filename", "status", "language"}
SchemaColumns == BaseColumns \cup
    {"model_name", "enable_diarization", "convert_to_traditional", "batch_id", "source_url",
     "llm_correction_enabled", "owner_id", "source_job_id", "batch_title", "quality_warning"}

AddColumn(c) == [op |-> "column", name |-> c, on |-> {}]
CreateIndex(i, columns) == [op |-> "index", name |-> i, on |-> columns]
DropIndex(i) == [op |-> "drop", name |-> i, on |-> {}]

MigrationList ==
    << AddColumn("model_name"), AddColumn("enable_diarization"), AddColumn("convert_to_traditional"),
       AddColumn("batch_id"), AddColumn("source_url"), AddColumn("llm_correction_enabled"),
       AddColumn("owner_id"), CreateIndex("idx_jobs_owner_id", {"owner_id"}),
       AddColumn("source_job_id"), AddColumn("batch_title"), AddColumn("quality_warning"),
       DropIndex("idx_jobs_source_job_id"),
       CreateIndex("idx_jobs_status_updated_at", {"status"}),
       CreateIndex("idx_jobs_batch_id", {"batch_id"}),
       CreateIndex("idx_jobs_owner_created_at", {"owner_id"}),
       AddColumn("share_token"), CreateIndex("idx_jobs_share_token", {"share_token"}) >>

Steps == 1..Len(MigrationList)
Named(op) == {MigrationList[k].name : k \in {s \in Steps : MigrationList[s].op = op}}

\* What every database is to end with, a new one and a migrated one alike.
CurrentSchema == [jobs |-> SchemaColumns \cup Named("column"), users |-> TRUE,
                  indexes |-> Named("index") \cup {"idx_users_active_admin"}]

\* A file that does not exist yet.
NoSchema == [jobs |-> {}, users |-> FALSE, indexes |-> {}]

\* What a release with the first k migrations left behind.  The index on
\* source_job_id shipped with that column, was taken off the list and is now dropped.
Release(k) ==
    LET done(op) == {MigrationList[s].name : s \in {s \in 1..k : MigrationList[s].op = op}}
    IN  [jobs |-> BaseColumns \cup done("column"), users |-> k >= 7, indexes |-> done("index")]

Releases ==
    {NoSchema} \cup {Release(k) : k \in Steps} \cup
    {[Release(k) EXCEPT !.indexes = @ \cup {"idx_jobs_source_job_id"}] :
        k \in 9..11}

\* closed: no connection; jobs, users, users_index: the statements of SCHEMA_SQL;
\* check, apply: at migration number step; aborted: init_db raised error.
Migrating == {"jobs", "users", "users_index", "check", "apply"}
Closed == [pc |-> "closed", step |-> 0, error |-> ""]

MigrationsTypeOK ==
    /\ schema \in [jobs : SUBSET (CurrentSchema.jobs), users : BOOLEAN,
                   indexes : SUBSET (CurrentSchema.indexes \cup {"idx_jobs_source_job_id"})]
    /\ opener \in [Openers ->
            [pc : Migrating \cup {"closed", "ready", "aborted"},
             step : 0..Len(MigrationList) + 1,
             error : {"", "locked", "duplicate column", "no such column"}]]
    /\ openFaults \in 0..MaxOpenFaults

MigrationsInit ==
    /\ schema \in Releases
    /\ opener = [o \in Openers |-> Closed]
    /\ openFaults = MaxOpenFaults

-----------------------------------------------------------------------------

OpenerAt(o, label) == opener[o].pc = label
OpenerGoto(o, label) == opener' = [opener EXCEPT ![o].pc = label]

OpenFault == openFaults > 0 /\ openFaults' = openFaults - 1

\* JobDatabase.__init__: a process, also one that crashed or was restarted, opens a
\* connection.
Open(o) ==
    /\ opener[o].pc \in {"closed", "aborted"}
    /\ opener' = [opener EXCEPT ![o] = [Closed EXCEPT !.pc = "jobs"]]
    /\ UNCHANGED <<schema, openFaults>>

\* The connection is closed after its use; the next stage task opens another.
Close(o) ==
    /\ OpenerAt(o, "ready")
    /\ opener' = [opener EXCEPT ![o] = Closed]
    /\ UNCHANGED <<schema, openFaults>>

\* The process dies between two statements.
OpenerDies(o) ==
    /\ opener[o].pc \in Migrating
    /\ OpenFault
    /\ opener' = [opener EXCEPT ![o] = Closed]
    /\ UNCHANGED schema

\* The three statements of SCHEMA_SQL.
CreateJobs(o) ==
    /\ OpenerAt(o, "jobs")
    /\ schema' = IF schema.jobs = {} THEN [schema EXCEPT !.jobs = SchemaColumns] ELSE schema
    /\ OpenerGoto(o, "users")
    /\ UNCHANGED openFaults

CreateUsers(o) ==
    /\ OpenerAt(o, "users")
    /\ schema' = [schema EXCEPT !.users = TRUE]
    /\ OpenerGoto(o, "users_index")
    /\ UNCHANGED openFaults

IndexUsers(o) ==
    /\ OpenerAt(o, "users_index")
    /\ schema' = [schema EXCEPT !.indexes = @ \cup {"idx_users_active_admin"}]
    /\ opener' = [opener EXCEPT ![o].pc = "check", ![o].step = 1]
    /\ UNCHANGED openFaults

\* _run_migrations goes on with the next one, or is through.
Advance(o) ==
    LET k == opener[o].step
    IN  opener' = [opener EXCEPT ![o].pc = IF k = Len(MigrationList) THEN "ready" ELSE "check",
                                 ![o].step = k + 1]

\* Mutant: a drop counts as applied while the index is there.
AlreadyApplied_Inverted(m) == m.op \in {"index", "drop"} /\ m.name \in schema.indexes

\* _is_already_applied reads sqlite_master for the index migrations only.
AlreadyApplied(m) ==
    \/ m.op = "index" /\ m.name \in schema.indexes
    \/ m.op = "drop" /\ m.name \notin schema.indexes

Check(o) ==
    /\ OpenerAt(o, "check")
    /\ IF AlreadyApplied(MigrationList[opener[o].step])
       THEN Advance(o)
       ELSE OpenerGoto(o, "apply")
    /\ UNCHANGED <<schema, openFaults>>

\* What SQLite answers to the statement of m: "duplicate column" to a column that
\* is there, an error to an index on a column that is not.
Answer(m) ==
    IF m.op = "column" /\ m.name \in schema.jobs THEN "duplicate column"
    ELSE IF m.op = "index" /\ m.name \notin schema.indexes /\ ~ m.on \subseteq schema.jobs
    THEN "no such column"
    ELSE "ok"

Effect(m) ==
    CASE m.op = "column" -> [schema EXCEPT !.jobs = @ \cup {m.name}]
      [] m.op = "index"  -> [schema EXCEPT !.indexes = @ \cup {m.name}]
      [] m.op = "drop"   -> [schema EXCEPT !.indexes = @ \ {m.name}]

Abort(o, error) == opener' = [opener EXCEPT ![o].pc = "aborted", ![o].error = error]

\* Mutant: after "duplicate column" the migration is looked at once more.
Execute_Rechecks(o) ==
    LET m == MigrationList[opener[o].step]
    IN  /\ OpenerAt(o, "apply")
        /\ CASE Answer(m) = "ok" -> schema' = Effect(m) /\ Advance(o)
             [] Answer(m) = "duplicate column" -> OpenerGoto(o, "check") /\ UNCHANGED schema
             [] OTHER -> Abort(o, Answer(m)) /\ UNCHANGED schema
        /\ UNCHANGED openFaults

\* "duplicate column" is swallowed: somebody else was faster, or an earlier release.
Execute(o) ==
    LET m == MigrationList[opener[o].step]
    IN  /\ OpenerAt(o, "apply")
        /\ CASE Answer(m) = "ok" -> schema' = Effect(m) /\ Advance(o)
             [] Answer(m) = "duplicate column" -> Advance(o) /\ UNCHANGED schema
             [] OTHER -> Abort(o, Answer(m)) /\ UNCHANGED schema
        /\ UNCHANGED openFaults

\* busy_timeout ran out at a statement: OperationalError, "database is locked".
Locked(o) ==
    /\ opener[o].pc \in Migrating
    /\ OpenFault
    /\ Abort(o, "locked")
    /\ UNCHANGED schema

InitDb(o) ==
    \/ Open(o) \/ CreateJobs(o) \/ CreateUsers(o) \/ IndexUsers(o)
    \/ Check(o) \/ Execute(o)

MigrationsNext == \E o \in Openers : InitDb(o) \/ Close(o) \/ OpenerDies(o) \/ Locked(o)

\* compose restarts what stops, and an opener that is left alone goes on.
MigrationsFairness == \A o \in Openers : WF_migrationVars(InitDb(o))

MigrationsSpec == MigrationsInit /\ [][MigrationsNext]_migrationVars

-----------------------------------------------------------------------------
(* Properties *)

\* init_db ends in one of two ways, whichever release the file comes from, whoever else
\* migrates it at the moment and whatever a start that died half-way has left: with the
\* current schema, the same for a new and a migrated database and not undone by a slower
\* opener, or with SQLite's lock timeout, never an error of its own statements.
InitDbOutcome ==
    \A o \in Openers : /\ opener[o].pc = "ready" => schema = CurrentSchema
                       /\ opener[o].pc = "aborted" => opener[o].error = "locked"
=============================================================================
