-------------------------- MODULE ComponentsProofs --------------------------
(***************************************************************************)
(* The migrations, for any openers and any faults; and what the theorems   *)
(* about the seven components say of a behaviour of MCComponents.          *)
(***************************************************************************)
EXTENDS MCComponents, MediaProofs, TimingProofs

(***************************************************************************)
(* Migrations: for any release, openers and faults.                        *)
(***************************************************************************)

Op(k) == MigrationList[k].op
Name(k) == MigrationList[k].name
On(k) == MigrationList[k].on

UsersIndex == "idx_users_active_admin"
Dropped == "idx_jobs_source_job_id"

\* What is used of the list: an index comes after its columns, only one index is ever
\* dropped, and nothing creates it.
LEMMA TheMigrations ==
    /\ Len(MigrationList) = 17
    /\ \A k \in 1..17 :
          \/ Op(k) = "column" /\ Name(k) \in CurrentSchema.jobs
          \/ /\ Op(k) = "index" /\ Name(k) \in CurrentSchema.indexes \ {Dropped, UsersIndex}
             /\ \A c \in On(k) : c \in BaseColumns \/ \E j \in 1..k - 1 : Op(j) = "column" /\ Name(j) = c
          \/ Op(k) = "drop" /\ Name(k) = Dropped
    /\ SchemaColumns \subseteq BaseColumns \cup Named("column")
    /\ CurrentSchema.indexes = Named("index") \cup {UsersIndex} /\ CurrentSchema.users = TRUE
    /\ CurrentSchema.jobs = SchemaColumns \cup Named("column")
    /\ Op(12) = "drop"
    /\ UsersIndex # Dropped
<1>1. Len(MigrationList) = 17
  BY DEF MigrationList
<1>2. /\ Op(1) = "column" /\ Name(1) = "model_name"
      /\ Op(2) = "column" /\ Name(2) = "enable_diarization"
      /\ Op(3) = "column" /\ Name(3) = "convert_to_traditional"
      /\ Op(4) = "column" /\ Name(4) = "batch_id"
      /\ Op(5) = "column" /\ Name(5) = "source_url"
      /\ Op(6) = "column" /\ Name(6) = "llm_correction_enabled"
      /\ Op(7) = "column" /\ Name(7) = "owner_id"
      /\ Op(8) = "index" /\ Name(8) = "idx_jobs_owner_id" /\ On(8) = {"owner_id"}
      /\ Op(9) = "column" /\ Name(9) = "source_job_id"
      /\ Op(10) = "column" /\ Name(10) = "batch_title"
      /\ Op(11) = "column" /\ Name(11) = "quality_warning"
      /\ Op(12) = "drop" /\ Name(12) = Dropped
      /\ Op(13) = "index" /\ Name(13) = "idx_jobs_status_updated_at" /\ On(13) = {"status"}
      /\ Op(14) = "index" /\ Name(14) = "idx_jobs_batch_id" /\ On(14) = {"batch_id"}
      /\ Op(15) = "index" /\ Name(15) = "idx_jobs_owner_created_at" /\ On(15) = {"owner_id"}
      /\ Op(16) = "column" /\ Name(16) = "share_token"
      /\ Op(17) = "index" /\ Name(17) = "idx_jobs_share_token" /\ On(17) = {"share_token"}
  BY DEF Op, Name, On, MigrationList, AddColumn, CreateIndex, DropIndex, Dropped
<1>3. \A k \in 1..17 : k \in {1, 2, 3, 4, 5, 6, 7, 8, 9, 10, 11, 12, 13, 14, 15, 16, 17}
  OBVIOUS
<1>4. \A op : Named(op) = {Name(k) : k \in {s \in 1..17 : Op(s) = op}}
  BY <1>1 DEF Named, Name, Op, Steps
<1>5. \A k \in 1..17 : Name(k) \in Named(Op(k))
  BY <1>4
<1>6. /\ CurrentSchema.jobs = SchemaColumns \cup Named("column")
      /\ CurrentSchema.indexes = Named("index") \cup {UsersIndex} /\ CurrentSchema.users = TRUE
  BY DEF CurrentSchema, UsersIndex
<1>7. SchemaColumns \subseteq BaseColumns \cup Named("column")
  <2>1. /\ 1 \in 1..17 /\ 2 \in 1..17 /\ 3 \in 1..17 /\ 4 \in 1..17 /\ 5 \in 1..17 /\ 6 \in 1..17
        /\ 7 \in 1..17 /\ 9 \in 1..17 /\ 10 \in 1..17 /\ 11 \in 1..17
    OBVIOUS
  <2>2. {"model_name", "enable_diarization", "convert_to_traditional", "batch_id", "source_url",
         "llm_correction_enabled", "owner_id", "source_job_id", "batch_title", "quality_warning"}
        \subseteq Named("column")
    BY <1>2, <1>5, <2>1
  <2> QED BY <2>2 DEF SchemaColumns
<1>8. ASSUME NEW k \in 1..17, Op(k) = "column"
      PROVE  Name(k) \in CurrentSchema.jobs
  BY <1>5, <1>6, <1>8
<1>9. ASSUME NEW k \in 1..17, Op(k) = "index"
      PROVE  /\ Name(k) \in CurrentSchema.indexes \ {Dropped, UsersIndex}
             /\ \A c \in On(k) : c \in BaseColumns \/ \E j \in 1..k - 1 : Op(j) = "column" /\ Name(j) = c
  <2>1. Name(k) \in Named("index")
    BY <1>5, <1>9
  <2>2. k = 8 \/ k = 13 \/ k = 14 \/ k = 15 \/ k = 17
    BY <1>2, <1>3, <1>9
  <2>3. Name(k) \notin {Dropped, UsersIndex}
    BY <1>2, <2>2 DEF Dropped, UsersIndex
  <2>4. \/ k \in {8, 15} /\ On(k) = {"owner_id"} /\ 7 \in 1..k - 1
        \/ On(k) = {"status"}
        \/ On(k) = {"batch_id"} /\ 4 \in 1..k - 1
        \/ On(k) = {"share_token"} /\ 16 \in 1..k - 1
    BY <1>2, <2>2
  <2>5. \A c \in On(k) : c \in BaseColumns \/ \E j \in 1..k - 1 : Op(j) = "column" /\ Name(j) = c
    BY <1>2, <2>4 DEF BaseColumns
  <2> QED BY <1>6, <2>1, <2>3, <2>5
<1>10. \A k \in 1..17 : Op(k) \in {"column", "index"} \/ (Op(k) = "drop" /\ Name(k) = Dropped)
  BY <1>2, <1>3
<1>11. ASSUME NEW k \in 1..17
       PROVE  \/ Op(k) = "column" /\ Name(k) \in CurrentSchema.jobs
              \/ /\ Op(k) = "index" /\ Name(k) \in CurrentSchema.indexes \ {Dropped, UsersIndex}
                 /\ \A c \in On(k) : c \in BaseColumns \/ \E j \in 1..k - 1 : Op(j) = "column" /\ Name(j) = c
              \/ Op(k) = "drop" /\ Name(k) = Dropped
  BY <1>8, <1>9, <1>10
<1>12. UsersIndex # Dropped
  BY DEF UsersIndex, Dropped
<1>13. Op(12) = "drop"
  BY <1>2
<1> QED BY <1>1, <1>6, <1>7, <1>11, <1>12, <1>13

-----------------------------------------------------------------------------
(* The inductive invariant *)

SchemaType ==
    /\ DOMAIN schema = {"jobs", "users", "indexes"}
    /\ schema = [jobs |-> schema.jobs, users |-> schema.users, indexes |-> schema.indexes]
    /\ schema.jobs \subseteq CurrentSchema.jobs /\ schema.users \in BOOLEAN
    /\ schema.indexes \subseteq CurrentSchema.indexes \cup {Dropped}
    /\ schema.jobs = {} \/ BaseColumns \subseteq schema.jobs

OpenerRecords ==
    [pc : Migrating \cup {"closed", "ready", "aborted"}, step : 0..18,
     error : {"", "locked", "duplicate column", "no such column"}]

OpenerType == opener \in [Openers -> OpenerRecords]

\* The effect of migration k is there.  Nothing takes it away again.
Applied(k) ==
    /\ Op(k) = "column" => Name(k) \in schema.jobs
    /\ Op(k) = "index" => Name(k) \in schema.indexes
    /\ Op(k) = "drop" => Dropped \notin schema.indexes

\* What an opener has passed is done.
HasDone(o) ==
    /\ opener[o].pc \in {"users", "users_index", "check", "apply", "ready"} => schema.jobs # {}
    /\ opener[o].pc \in {"users_index", "check", "apply", "ready"} => schema.users
    /\ opener[o].pc \in {"check", "apply", "ready"} =>
          /\ UsersIndex \in schema.indexes
          /\ \A k \in 1..17 : k < opener[o].step => Applied(k)
    /\ opener[o].pc \in {"check", "apply"} => opener[o].step \in 1..17
    /\ opener[o].pc = "ready" => opener[o].step = 18
    /\ opener[o].pc = "aborted" => opener[o].error = "locked"

MigrationsInv == SchemaType /\ OpenerType /\ \A o \in Openers : HasDone(o)

-----------------------------------------------------------------------------

\* The schema only grows, the dropped index aside.
Grows ==
    /\ schema.jobs \subseteq schema'.jobs /\ (schema.users => schema'.users)
    /\ schema.indexes \ {Dropped} \subseteq schema'.indexes
    /\ schema'.indexes \subseteq schema.indexes \cup (CurrentSchema.indexes \ {Dropped})

LEMMA AppliedStays ==
    ASSUME NEW k \in 1..17, Grows, Applied(k)
    PROVE  Applied(k)'
BY TheMigrations DEF Grows, Applied

LEMMA PassedStays ==
    ASSUME NEW o, HasDone(o), Grows, opener'[o] = opener[o]
    PROVE  HasDone(o)'
<1>1. \A k \in 1..17 : Applied(k) => Applied(k)'
  BY AppliedStays
<1>2. UsersIndex \in schema.indexes => UsersIndex \in schema'.indexes
  BY TheMigrations DEF Grows
<1> QED BY <1>1, <1>2 DEF HasDone, Grows

\* A step of o keeps the invariant if it keeps what o itself has passed.
LEMMA OneMoves ==
    ASSUME MigrationsInv, SchemaType', OpenerType', Grows, NEW o \in Openers, HasDone(o)',
           \A p \in Openers \ {o} : opener'[p] = opener[p]
    PROVE  MigrationsInv'
BY PassedStays DEF MigrationsInv

\* The answer to a migration whose predecessors are applied: never an error.
LEMMA AnswerIsKnown ==
    ASSUME SchemaType, NEW k \in 1..17, schema.jobs # {}, \A j \in 1..17 : j < k => Applied(j)
    PROVE  Answer(MigrationList[k]) = "ok" \/ (Answer(MigrationList[k]) = "duplicate column" /\ Applied(k))
<1>1. CASE Op(k) = "index"
  <2>1. On(k) \subseteq schema.jobs
    <3> SUFFICES ASSUME NEW c \in On(k)
                 PROVE  c \in schema.jobs
      OBVIOUS
    <3>1. CASE c \in BaseColumns
      BY <3>1 DEF SchemaType
    <3>2. CASE \E j \in 1..k - 1 : Op(j) = "column" /\ Name(j) = c
      <4>1. PICK j \in 1..k - 1 : Op(j) = "column" /\ Name(j) = c
        BY <3>2
      <4>2. j \in 1..17 /\ j < k
        OBVIOUS
      <4> QED BY <4>1, <4>2 DEF Applied
    <3> QED BY <1>1, <3>1, <3>2, TheMigrations
  <2> QED BY <1>1, <2>1 DEF Answer, Op, Name, On
<1>2. CASE Op(k) # "index"
  BY <1>2, TheMigrations DEF Answer, Applied, Op, Name
<1> QED BY <1>1, <1>2

LEMMA EffectApplies ==
    ASSUME SchemaType, NEW k \in 1..17, schema.jobs # {}, schema' = Effect(MigrationList[k])
    PROVE  SchemaType' /\ Grows /\ Applied(k)'
<1> USE DEF SchemaType, Grows, Applied
<1>1. CASE Op(k) = "column"
  <2>1. schema' = [schema EXCEPT !.jobs = schema.jobs \cup {Name(k)}]
    BY <1>1 DEF Effect, Op, Name
  <2>2. /\ schema'.jobs = schema.jobs \cup {Name(k)}
        /\ schema'.users = schema.users /\ schema'.indexes = schema.indexes
    BY <2>1
  <2> QED BY <1>1, <2>1, <2>2, TheMigrations
<1>2. CASE Op(k) = "index"
  <2>1. schema' = [schema EXCEPT !.indexes = schema.indexes \cup {Name(k)}]
    BY <1>2 DEF Effect, Op, Name
  <2>2. /\ schema'.indexes = schema.indexes \cup {Name(k)}
        /\ schema'.users = schema.users /\ schema'.jobs = schema.jobs
    BY <2>1
  <2> QED BY <1>2, <2>1, <2>2, TheMigrations
<1>3. CASE Op(k) = "drop"
  <2>1. schema' = [schema EXCEPT !.indexes = schema.indexes \ {Name(k)}]
    BY <1>3 DEF Effect, Op, Name
  <2>2. /\ schema'.indexes = schema.indexes \ {Name(k)}
        /\ schema'.users = schema.users /\ schema'.jobs = schema.jobs
    BY <2>1
  <2> QED BY <1>3, <2>1, <2>2, TheMigrations
<1> QED BY <1>1, <1>2, <1>3, TheMigrations

LEMMA AdvanceMoves ==
    ASSUME OpenerType, NEW o \in Openers, opener[o].pc \in {"check", "apply"}, opener[o].step \in 1..17, Advance(o)
    PROVE  /\ OpenerType' /\ \A p \in Openers \ {o} : opener'[p] = opener[p]
           /\ opener'[o].step = opener[o].step + 1
           /\ \/ opener'[o].pc = "ready" /\ opener[o].step = 17
              \/ opener'[o].pc = "check" /\ opener[o].step < 17
<1>1. CASE opener[o].step = 17
  <2>1. opener' = [opener EXCEPT ![o] = [opener[o] EXCEPT !.pc = "ready", !.step = 18]]
    <3>1. opener' = [opener EXCEPT ![o].pc = "ready", ![o].step = 18]
      BY <1>1, TheMigrations DEF Advance
    <3> QED BY <3>1 DEF OpenerType
  <2>2. [opener[o] EXCEPT !.pc = "ready", !.step = 18] \in OpenerRecords
    <3>1. opener[o] \in OpenerRecords /\ 18 \in 0..18
      BY DEF OpenerType
    <3> QED BY <3>1 DEF OpenerRecords
  <2> QED BY <1>1, <2>1, <2>2 DEF OpenerType
<1>2. CASE opener[o].step # 17
  <2>1. opener' = [opener EXCEPT ![o] = [opener[o] EXCEPT !.pc = "check", !.step = opener[o].step + 1]]
    <3>1. opener' = [opener EXCEPT ![o].pc = "check", ![o].step = opener[o].step + 1]
      BY <1>2, TheMigrations DEF Advance
    <3> QED BY <3>1 DEF OpenerType
  <2>2. [opener[o] EXCEPT !.pc = "check", !.step = opener[o].step + 1] \in OpenerRecords
    <3>1. opener[o] \in OpenerRecords /\ opener[o].step + 1 \in 0..18 /\ "check" \in Migrating
      BY DEF OpenerType, Migrating
    <3> QED BY <3>1 DEF OpenerRecords
  <2> QED BY <1>2, <2>1, <2>2 DEF OpenerType
<1> QED BY <1>1, <1>2

-----------------------------------------------------------------------------
(* The steps of init_db *)

LEMMA RestsMoves ==
    ASSUME OpenerType, NEW o \in Openers, NEW x \in OpenerRecords, opener' = [opener EXCEPT ![o] = x]
    PROVE  OpenerType' /\ opener'[o] = x /\ \A p \in Openers \ {o} : opener'[p] = opener[p]
BY DEF OpenerType

LEMMA GotoOpener ==
    ASSUME OpenerType, NEW o \in Openers, NEW label \in Migrating \cup {"closed", "ready", "aborted"},
           OpenerGoto(o, label)
    PROVE  /\ OpenerType' /\ \A p \in Openers \ {o} : opener'[p] = opener[p]
           /\ opener'[o].pc = label /\ opener'[o].step = opener[o].step
BY DEF OpenerGoto, OpenerType, OpenerRecords

LEMMA AbortOpener ==
    ASSUME OpenerType, NEW o \in Openers, Abort(o, "locked")
    PROVE  /\ OpenerType' /\ \A p \in Openers \ {o} : opener'[p] = opener[p]
           /\ opener'[o].pc = "aborted" /\ opener'[o].error = "locked"
<1>1. opener' = [opener EXCEPT ![o] = [opener[o] EXCEPT !.pc = "aborted", !.error = "locked"]]
  BY DEF Abort, OpenerType
<1>2. [opener[o] EXCEPT !.pc = "aborted", !.error = "locked"] \in OpenerRecords
  BY DEF OpenerType, OpenerRecords
<1> QED BY <1>1, <1>2 DEF OpenerType

LEMMA CheckKeeps ==
    ASSUME MigrationsInv, NEW o \in Openers, Check(o)
    PROVE  MigrationsInv'
<1> DEFINE k == opener[o].step
<1> USE DEF MigrationsInv, HasDone
<1>1. k \in 1..17 /\ opener[o].pc = "check" /\ UNCHANGED schema
  BY DEF Check, OpenerAt
<1>2. SchemaType' /\ Grows /\ \A j \in 1..17 : Applied(j)' = Applied(j)
  BY <1>1 DEF SchemaType, Grows, Applied
<1>3. CASE AlreadyApplied(MigrationList[k])
  <2>1. Applied(k)
    BY <1>1, <1>3, TheMigrations DEF AlreadyApplied, Applied, Op, Name
  <2>2. Advance(o)
    BY <1>3 DEF Check
  <2>3. \A j \in 1..17 : j < k + 1 => Applied(j)'
    BY <1>1, <1>2, <2>1
  <2>4. HasDone(o)'
    BY <1>1, <2>2, <2>3, AdvanceMoves
  <2> QED BY <1>1, <1>2, <2>2, <2>4, AdvanceMoves, OneMoves
<1>4. CASE ~AlreadyApplied(MigrationList[k])
  <2>1. OpenerGoto(o, "apply")
    BY <1>4 DEF Check
  <2>2. /\ OpenerType' /\ opener'[o].pc = "apply" /\ opener'[o].step = k
        /\ \A p \in Openers \ {o} : opener'[p] = opener[p]
    BY <2>1, GotoOpener DEF Migrating
  <2>3. HasDone(o)'
    BY <1>1, <1>2, <2>2
  <2> QED BY <1>2, <2>2, <2>3, OneMoves
<1> QED BY <1>3, <1>4

LEMMA ExecuteKeeps ==
    ASSUME MigrationsInv, NEW o \in Openers, Execute(o)
    PROVE  MigrationsInv'
<1> USE DEF MigrationsInv
<1>7. opener[o].step \in 1..17
  BY DEF Execute, OpenerAt, HasDone
<1>0. PICK k \in 1..17 : k = opener[o].step
  BY <1>7
<1> DEFINE m == MigrationList[k]
<1>1. /\ k = opener[o].step /\ opener[o].pc = "apply" /\ schema.jobs # {} /\ schema.users /\ UsersIndex \in schema.indexes
      /\ \A j \in 1..17 : j < k => Applied(j)
  BY <1>0 DEF Execute, OpenerAt, HasDone
<1>2. Answer(m) = "ok" \/ (Answer(m) = "duplicate column" /\ Applied(k))
  BY <1>1, AnswerIsKnown
<1>3. Advance(o) /\ SchemaType' /\ Grows /\ Applied(k)'
  <2>1. CASE Answer(m) = "ok"
    <3>1. schema' = Effect(m) /\ Advance(o)
      BY <1>1, <2>1 DEF Execute
    <3> QED BY <1>1, <3>1, EffectApplies
  <2>2. CASE Answer(m) = "duplicate column" /\ Applied(k)
    <3>1. UNCHANGED schema /\ Advance(o)
      BY <1>1, <2>2 DEF Execute
    <3>2. SchemaType' /\ Grows
      BY <3>1 DEF SchemaType, Grows
    <3> QED BY <1>1, <2>2, <3>1, <3>2, AppliedStays
  <2> QED BY <1>2, <2>1, <2>2
<1>4. \A j \in 1..17 : j < k + 1 => Applied(j)'
  BY <1>1, <1>3, AppliedStays
<1>5. schema'.jobs # {} /\ schema'.users /\ UsersIndex \in schema'.indexes
  BY <1>1, <1>3, TheMigrations DEF Grows
<1>6. HasDone(o)'
  BY <1>1, <1>3, <1>4, <1>5, AdvanceMoves DEF HasDone
<1> QED BY <1>1, <1>3, <1>6, AdvanceMoves, OneMoves

LEMMA InitDbKeeps ==
    ASSUME MigrationsInv, NEW o \in Openers, InitDb(o) \/ Close(o) \/ OpenerDies(o) \/ Locked(o)
    PROVE  MigrationsInv'
<1> USE DEF MigrationsInv
<1>1. UNCHANGED schema => SchemaType' /\ Grows
  BY DEF SchemaType, Grows
<1>2. CASE Open(o) \/ Close(o) \/ OpenerDies(o)
  <2>1. PICK x \in {Closed, [Closed EXCEPT !.pc = "jobs"]} : opener' = [opener EXCEPT ![o] = x]
    BY <1>2 DEF Open, Close, OpenerDies
  <2>2. x \in OpenerRecords /\ x.pc \in {"closed", "jobs"}
    <3>1. 0 \in 0..18 /\ "jobs" \in Migrating
      BY DEF Migrating
    <3>2. \/ x = [pc |-> "closed", step |-> 0, error |-> ""]
          \/ x = [pc |-> "jobs", step |-> 0, error |-> ""]
      BY DEF Closed
    <3>3. x.pc \in {"closed", "jobs"}
      <4>1. CASE x = [pc |-> "closed", step |-> 0, error |-> ""]
        BY <4>1
      <4>2. CASE x = [pc |-> "jobs", step |-> 0, error |-> ""]
        BY <4>2
      <4> QED BY <3>2, <4>1, <4>2
    <3>4. [pc |-> "closed", step |-> 0, error |-> ""] \in OpenerRecords
      BY <3>1 DEF OpenerRecords
    <3>5. [pc |-> "jobs", step |-> 0, error |-> ""] \in OpenerRecords
      BY <3>1 DEF OpenerRecords
    <3> QED BY <3>2, <3>3, <3>4, <3>5
  <2>3. OpenerType' /\ opener'[o] = x /\ \A p \in Openers \ {o} : opener'[p] = opener[p]
    BY <2>1, <2>2, RestsMoves
  <2>4. HasDone(o)'
    BY <2>2, <2>3 DEF HasDone
  <2> QED BY <1>1, <1>2, <2>3, <2>4, OneMoves DEF Open, Close, OpenerDies
<1>3. CASE CreateJobs(o)
  <2>1. OpenerType' /\ opener'[o].pc = "users" /\ \A p \in Openers \ {o} : opener'[p] = opener[p]
    BY <1>3, GotoOpener DEF CreateJobs, Migrating
  <2>2. SchemaType' /\ Grows /\ schema'.jobs # {}
    <3>1. CASE schema.jobs = {}
      <4>1. schema' = [schema EXCEPT !.jobs = SchemaColumns]
        BY <1>3, <3>1 DEF CreateJobs
      <4>2. BaseColumns \subseteq SchemaColumns /\ SchemaColumns # {} /\ SchemaColumns \subseteq CurrentSchema.jobs
        BY TheMigrations DEF SchemaColumns
      <4>3. schema'.jobs = SchemaColumns /\ schema'.users = schema.users /\ schema'.indexes = schema.indexes
        BY <4>1 DEF SchemaType
      <4> QED BY <3>1, <4>1, <4>2, <4>3 DEF SchemaType, Grows
    <3>2. CASE schema.jobs # {}
      BY <1>1, <1>3, <3>2 DEF CreateJobs
    <3> QED BY <3>1, <3>2
  <2>3. HasDone(o)'
    BY <2>1, <2>2 DEF HasDone
  <2> QED BY <2>1, <2>2, <2>3, OneMoves
<1>4. CASE CreateUsers(o)
  <2>1. OpenerType' /\ opener'[o].pc = "users_index" /\ \A p \in Openers \ {o} : opener'[p] = opener[p]
    BY <1>4, GotoOpener DEF CreateUsers, Migrating
  <2>2. /\ schema' = [schema EXCEPT !.users = TRUE]
        /\ schema'.jobs = schema.jobs /\ schema'.users = TRUE /\ schema'.indexes = schema.indexes
    BY <1>4 DEF CreateUsers, SchemaType
  <2>3. SchemaType' /\ Grows
    BY <2>2 DEF SchemaType, Grows
  <2>4. HasDone(o)'
    BY <1>4, <2>1, <2>2 DEF HasDone, CreateUsers, OpenerAt
  <2> QED BY <2>1, <2>3, <2>4, OneMoves
<1>5. CASE IndexUsers(o)
  <2>1. opener' = [opener EXCEPT ![o] = [opener[o] EXCEPT !.pc = "check", !.step = 1]]
    BY <1>5 DEF IndexUsers, OpenerType
  <2>2. [opener[o] EXCEPT !.pc = "check", !.step = 1] \in OpenerRecords
    <3>1. opener[o] \in OpenerRecords /\ 1 \in 0..18 /\ "check" \in Migrating
      BY DEF OpenerType, Migrating
    <3> QED BY <3>1 DEF OpenerRecords
  <2>3. /\ OpenerType' /\ \A p \in Openers \ {o} : opener'[p] = opener[p]
        /\ opener'[o].pc = "check" /\ opener'[o].step = 1
    BY <2>1, <2>2, RestsMoves DEF OpenerType, OpenerRecords
  <2>4. /\ schema' = [schema EXCEPT !.indexes = schema.indexes \cup {UsersIndex}]
        /\ schema'.jobs = schema.jobs /\ schema'.users = schema.users
        /\ schema'.indexes = schema.indexes \cup {UsersIndex}
    BY <1>5 DEF IndexUsers, SchemaType, UsersIndex
  <2>5. SchemaType' /\ Grows
    BY <2>4, TheMigrations DEF SchemaType, Grows
  <2>6. HasDone(o)'
    BY <1>5, <2>3, <2>4 DEF HasDone, IndexUsers, OpenerAt
  <2> QED BY <2>3, <2>5, <2>6, OneMoves
<1>6. CASE Locked(o)
  <2>1. Abort(o, "locked") /\ UNCHANGED schema
    BY <1>6 DEF Locked
  <2>2. HasDone(o)'
    BY <2>1, AbortOpener DEF HasDone
  <2> QED BY <1>1, <2>1, <2>2, AbortOpener, OneMoves
<1> QED BY <1>2, <1>3, <1>4, <1>5, <1>6, CheckKeeps, ExecuteKeeps DEF InitDb

\* The inductive invariant: the effects of the migrations that an opener has passed are there.
THEOREM MigrationsCorrect == MigrationsSpec => []MigrationsInv
<1>1. MigrationsInit => MigrationsInv
  <2> SUFFICES ASSUME MigrationsInit
               PROVE  MigrationsInv
    OBVIOUS
  <2>1. SchemaType
    <3>1. CASE schema = NoSchema
      BY <3>1 DEF NoSchema, SchemaType
    <3>2. ASSUME NEW n \in Steps, schema = Release(n) \/ schema = [Release(n) EXCEPT !.indexes = @ \cup {Dropped}]
          PROVE  SchemaType
      <4> DEFINE done(op) == {MigrationList[i].name : i \in {s \in 1..n : MigrationList[s].op = op}}
      <4>1. ASSUME NEW op
            PROVE  done(op) \subseteq Named(op)
        <5>1. n \in 1..17 /\ \A i \in 1..n : i \in Steps
          BY TheMigrations DEF Steps
        <5> QED BY <5>1 DEF Named
      <4>2. Release(n) = [jobs |-> BaseColumns \cup done("column"), users |-> n >= 7, indexes |-> done("index")]
        BY DEF Release
      <4>3. BaseColumns \cup done("column") \subseteq CurrentSchema.jobs /\ done("index") \subseteq CurrentSchema.indexes
        BY <4>1, TheMigrations DEF SchemaColumns
      <4>4. PICK columns : columns = BaseColumns \cup done("column")
        OBVIOUS
      <4>5. PICK indexes : indexes = done("index")
        OBVIOUS
      <4>6. columns \subseteq CurrentSchema.jobs /\ BaseColumns \subseteq columns /\ indexes \subseteq CurrentSchema.indexes
        BY <4>3, <4>4, <4>5
      <4>7. PICK users \in BOOLEAN : Release(n) = [jobs |-> columns, users |-> users, indexes |-> indexes]
        <5> HIDE DEF done
        <5>1. CASE n >= 7
          <6>1. Release(n) = [jobs |-> columns, users |-> TRUE, indexes |-> indexes]
            BY <4>2, <4>4, <4>5, <5>1
          <6> QED BY <6>1
        <5>2. CASE ~(n >= 7)
          <6>1. (n >= 7) = FALSE
            BY <5>2
          <6>2. Release(n) = [jobs |-> columns, users |-> FALSE, indexes |-> indexes]
            BY <4>2, <4>4, <4>5, <6>1, Zenon
          <6> QED BY <6>2
        <5> QED BY <5>1, <5>2
      <4>8. CASE schema = Release(n)
        BY <4>6, <4>7, <4>8 DEF SchemaType
      <4>9. CASE schema = [Release(n) EXCEPT !.indexes = @ \cup {Dropped}]
        <5>1. schema = [jobs |-> columns, users |-> users, indexes |-> indexes \cup {Dropped}]
          BY <4>7, <4>9
        <5> QED BY <4>6, <5>1 DEF SchemaType
      <4> QED BY <3>2, <4>8, <4>9
    <3> QED BY <3>1, <3>2, TheMigrations DEF MigrationsInit, Releases, Dropped, Steps
  <2>2. \A o \in Openers : opener[o].pc = "closed"
    BY DEF MigrationsInit, Closed
  <2>3. OpenerType
    <3>1. Closed \in OpenerRecords
      <4>1. 0 \in 0..18
        OBVIOUS
      <4> QED BY <4>1 DEF Closed, OpenerRecords
    <3> QED BY <3>1 DEF MigrationsInit, OpenerType
  <2> QED BY <2>1, <2>2, <2>3 DEF MigrationsInv, HasDone
<1>2. MigrationsInv /\ [MigrationsNext]_migrationVars => MigrationsInv'
  <2> SUFFICES ASSUME MigrationsInv, [MigrationsNext]_migrationVars
               PROVE  MigrationsInv'
    OBVIOUS
  <2>1. CASE UNCHANGED migrationVars
    BY <2>1 DEF migrationVars, MigrationsInv, SchemaType, OpenerType, HasDone, Applied
  <2> QED BY <2>1, InitDbKeeps DEF MigrationsNext
<1> QED BY <1>1, <1>2, PTL DEF MigrationsSpec

\* Whatever openers there are, whatever faults and whichever release the file is from,
\* init_db ends with the current schema or with SQLite's lock timeout.
THEOREM InitDbAlwaysEnds == MigrationsSpec => []InitDbOutcome
<1>1. MigrationsInv => InitDbOutcome
  <2> SUFFICES ASSUME MigrationsInv, NEW o \in Openers, opener[o].pc = "ready"
               PROVE  schema = CurrentSchema
    BY DEF MigrationsInv, HasDone, InitDbOutcome
  <2>1. /\ schema.jobs # {} /\ schema.users = TRUE /\ UsersIndex \in schema.indexes
        /\ \A k \in 1..17 : Applied(k)
    BY DEF MigrationsInv, HasDone, SchemaType
  <2>2. Named("column") \subseteq schema.jobs /\ Named("index") \subseteq schema.indexes
    <3>1. ASSUME NEW op, NEW name \in Named(op)
          PROVE  \E k \in 1..17 : Op(k) = op /\ Name(k) = name
      BY TheMigrations DEF Named, Steps, Op, Name
    <3>2. ASSUME NEW name \in Named("column")
          PROVE  name \in schema.jobs
      BY <2>1, <3>1 DEF Applied
    <3>3. ASSUME NEW name \in Named("index")
          PROVE  name \in schema.indexes
      BY <2>1, <3>1 DEF Applied
    <3> QED BY <3>2, <3>3
  <2>3. Dropped \notin schema.indexes
    BY <2>1, TheMigrations DEF Applied
  <2>4. schema.jobs = CurrentSchema.jobs /\ schema.indexes = CurrentSchema.indexes
    BY <2>1, <2>2, <2>3, TheMigrations DEF MigrationsInv, SchemaType
  <2>5. CurrentSchema = [jobs |-> CurrentSchema.jobs, users |-> CurrentSchema.users, indexes |-> CurrentSchema.indexes]
    BY DEF CurrentSchema
  <2> QED BY <2>1, <2>4, <2>5, TheMigrations DEF MigrationsInv, SchemaType
<1> QED BY <1>1, MigrationsCorrect, PTL

\* The database and the openers keep their types: no column or index but those of the list.
THEOREM MigrationsTypes == MigrationsSpec => []MigrationsTypeOK
<1> DEFINE Faults == openFaults \in 0..MaxOpenFaults
<1>1. MigrationsInit => Faults
  BY MigrationsAssumption DEF MigrationsInit, MigrationsAssumption
<1>2. Faults /\ [MigrationsNext]_migrationVars => Faults'
  <2> SUFFICES ASSUME Faults, [MigrationsNext]_migrationVars PROVE Faults'
    OBVIOUS
  <2>1. openFaults' = openFaults \/ (openFaults > 0 /\ openFaults' = openFaults - 1)
    BY DEF MigrationsNext, InitDb, Open, CreateJobs, CreateUsers, IndexUsers, Check, Execute, Close, OpenerDies,
        Locked, OpenFault, migrationVars
  <2> QED BY <2>1, MigrationsAssumption DEF MigrationsAssumption
<1>3. MigrationsInv /\ Faults => MigrationsTypeOK
  <2> SUFFICES ASSUME MigrationsInv, Faults PROVE MigrationsTypeOK
    OBVIOUS
  <2>1. schema \in [jobs : SUBSET (CurrentSchema.jobs), users : BOOLEAN,
                    indexes : SUBSET (CurrentSchema.indexes \cup {Dropped})]
    BY DEF MigrationsInv, SchemaType
  <2>2. 0..Len(MigrationList) + 1 = 0..18
    BY TheMigrations
  <2> QED BY <2>1, <2>2 DEF MigrationsInv, OpenerType, OpenerRecords, MigrationsTypeOK, Dropped
<1> QED BY <1>1, <1>2, <1>3, MigrationsCorrect, PTL DEF MigrationsSpec

-----------------------------------------------------------------------------
(***************************************************************************)
(* MCComponents: the components side by side.                              *)
(***************************************************************************)

\* A step is one of the component in focus, and none of the others.
LEMMA OneMovesAtATime ==
    ASSUME [ComponentsNext]_allVars
    PROVE  /\ [MigrationsNext]_migrationVars /\ [LlmStep]_llmVars /\ [DownloadStep]_downloadVars
           /\ [IntakeStep]_intakeVars /\ [ProgressStep]_progressVars /\ [TimeoutsStep]_timeoutVars
           /\ [KeyExpiryStep]_expiryVars
           /\ focus' = focus
<1>1. CASE UNCHANGED allVars
  BY <1>1 DEF allVars
<1>2. CASE ComponentsNext
  BY <1>2 DEF ComponentsNext, MigrationsMove, LlmMoves, DownloadMoves, IntakeMoves, ProgressMoves, TimeoutsMove,
              ExpiryMoves
<1> QED BY <1>1, <1>2

\* What a component does in a behaviour of the composition is a behaviour of its own.
THEOREM ComponentsAreAlone ==
    ComponentsSpec =>
        /\ MigrationsSpec /\ LlmSpec /\ DownloadSpec /\ IntakeSpec /\ ProgressSpec /\ TimeoutsSpec /\ KeyExpirySpec
        /\ [](focus \in Components)
<1>1. ComponentsInit =>
          /\ MigrationsInit /\ LlmInit /\ DownloadInit /\ IntakeInit /\ ProgressInit /\ TimeoutsInit /\ KeyExpiryInit
          /\ focus \in Components
  BY DEF ComponentsInit
<1>2. ComponentsSpec => ComponentsInit /\ [][ComponentsNext]_allVars
  BY PTL DEF ComponentsSpec
<1>3. (focus \in Components) /\ focus' = focus => (focus \in Components)'
  OBVIOUS
<1> QED
  BY <1>1, <1>2, <1>3, OneMovesAtATime, PTL
  DEF MigrationsSpec, LlmSpec, DownloadSpec, IntakeSpec, ProgressSpec, TimeoutsSpec, KeyExpirySpec

\* Every component keeps its types, whichever of them is at work.
THEOREM ComponentsTypes == ComponentsSpec => []ComponentsTypeOK
<1>1. /\ MigrationsTypeOK /\ LlmTypeOK /\ DownloadTypeOK /\ IntakeTypeOK /\ ProgressTypeOK /\ TimeoutsTypeOK
      /\ KeyExpiryTypeOK /\ focus \in Components
      => ComponentsTypeOK
  BY DEF ComponentsTypeOK
<1> QED
  BY <1>1, ComponentsAreAlone, MigrationsTypes, LlmTypes, DownloadTypes, IntakeTypes, ProgressTypes, TimeoutsTypes,
     KeyExpiryTypes, PTL

\* The other invariants that the run of MCComponents checks.
ComponentsCorrect ==
    /\ InitDbOutcome
    /\ ChunksAreAllOrNothing /\ StoredAsReported
    /\ MediaIsOfThisRun /\ ErrorsAreClassified
    /\ RoutingAgrees /\ OneJobPerVideo /\ ToastAddsUp
    /\ BandsPartition /\ StageShowsItsEnd
    /\ TimeoutsAreBounded /\ GpuTimeoutFitsAudio
    /\ LiveIsSpared

\* Each component keeps in the composition what its own theorems promise: a database that
\* opens, chunks and transcripts, media of this run, a job per video, and the bar and the
\* timeouts the user and the reaper go by.
THEOREM ComponentsStayCorrect ==
    ComponentsSpec => []ComponentsCorrect /\ BarNeverRewinds /\ EndedTaskIsSilent
<1> QED
  BY ComponentsAreAlone, InitDbAlwaysEnds, ChunksAlwaysAllOrNothing, AlwaysStoredAsReported, MediaAlwaysOfThisRun,
     ErrorsAlwaysClassified, RoutingAlwaysAgrees, OneJobPerVideoAlways, ToastAlwaysAddsUp, BandsAlwaysPartition,
     FinishedStageIsShown, TimeoutsAlwaysBounded, GpuTimeoutAlwaysFits, LiveIsAlwaysSpared, BarNeverMovesBack,
     EndedTaskAlwaysSilent, PTL
  DEF ComponentsCorrect
=============================================================================
