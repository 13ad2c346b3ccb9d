---------------------------- MODULE MCComponents ----------------------------
(***************************************************************************)
(* Seven components that share no state with one another, model-checked in *)
(* one run.  A behaviour is about one of them, the focus: its module moves *)
(* from any of its initial states, and the other six rest in one.          *)
(***************************************************************************)
EXTENDS Migrations, LlmCorrection, Download, Intake, Progress, Timeouts, KeyExpiry

VARIABLE focus

Components == {"migrations", "llm", "download", "intake", "progress", "timeouts", "expiry"}
allVars == <<focus, migrationVars, llmVars, downloadVars, intakeVars, progressVars, timeoutVars, expiryVars>>

AllShapes == [download : BOOLEAN, diarize : BOOLEAN, llm : BOOLEAN]

\* Accepted settings that differ in which clamp bites, and one operator's mistakes.
SomeSettings ==
    [floor : {0, 2}, default : {3, 9}, max : {4, 8}, multiplier : {0, 5, 30}, buffer : {2}, expiry : {6, 10}]

\* Every kind of line by itself, and batches that meet the duplicates and the limits.
Ids == {"a", "bad", "none"}
Lines ==
    [scheme : {"https"}, host : YouTubeHosts, path : {"root", "watch", "segment", "playlist", "shorts", "embed"},
     seg : Ids, v : Ids, list : {"list1", "mix", "bad", "none"}, id : {"none"}]
    \cup [scheme : {"https"}, host : DriveHosts, path : {"root", "d", "document", "uc"},
          seg : Ids, v : {"none"}, list : {"none"}, id : Ids]
    \cup [scheme : {"https"}, host : TwitterHosts, path : {"root", "segment", "status"},
          seg : Ids, v : {"none"}, list : {"none"}, id : {"none"}]
    \cup {[PlaylistUrl("list1") EXCEPT !.host = h] : h \in {"other", "malformed"}}
    \cup {[PlaylistUrl("list1") EXCEPT !.scheme = "ftp", !.host = h] : h \in Hosts}

SomeLines == {WatchUrl("a"), [WatchUrl("a") EXCEPT !.list = "list1"], PlaylistUrl("list1"),
              PlaylistUrl("mix"), DriveUrl("a"), NoUrl,
              [NoUrl EXCEPT !.host = "youtu.be", !.path = "segment", !.seg = "b"]}

SomeSubmissions ==
    {<<>>} \cup {<<u>> : u \in Lines} \cup {<<u, w>> : u, w \in SomeLines}
    \cup {<<PlaylistUrl("list1"), PlaylistUrl("list2"), WatchUrl("a")>>,
          <<PlaylistUrl("list1"), PlaylistUrl("mix"), PlaylistUrl("list1")>>,
          <<WatchUrl("a"), WatchUrl("a"), WatchUrl("b")>>,
          <<NoUrl, NoUrl, NoUrl, NoUrl>>}

ComponentsInit ==
    /\ focus \in Components
    /\ focus # "migrations" => schema = NoSchema
    /\ focus # "llm" => llmInput = [warning |-> FALSE, zh |-> TRUE, url |-> TRUE, segments |-> 1]
    /\ focus # "download" => download = [source |-> "youtube", run |-> 0, try |-> 0, pc |-> "idle",
                                         reported |-> FALSE, outcome |-> ""]
    /\ focus # "intake" => lines = <<WatchUrl("a")>>
    /\ focus # "progress" => shape = [download |-> TRUE, diarize |-> TRUE, llm |-> TRUE]
    /\ focus # "timeouts" =>
          /\ settings = [floor |-> 2, default |-> 3, max |-> 4, multiplier |-> 30, buffer |-> 2, expiry |-> 6]
          /\ audio = 1 /\ fromUrl = TRUE
    /\ MigrationsInit /\ LlmInit /\ DownloadInit /\ IntakeInit /\ ProgressInit /\ TimeoutsInit
    /\ KeyExpiryInit

MigrationsMove ==
    /\ focus = "migrations" /\ MigrationsNext
    /\ UNCHANGED <<focus, llmVars, downloadVars, intakeVars, progressVars, timeoutVars, expiryVars>>
LlmMoves ==
    /\ focus = "llm" /\ LlmStep
    /\ UNCHANGED <<focus, migrationVars, downloadVars, intakeVars, progressVars, timeoutVars, expiryVars>>
DownloadMoves ==
    /\ focus = "download" /\ DownloadStep
    /\ UNCHANGED <<focus, migrationVars, llmVars, intakeVars, progressVars, timeoutVars, expiryVars>>
IntakeMoves ==
    /\ focus = "intake" /\ IntakeStep
    /\ UNCHANGED <<focus, migrationVars, llmVars, downloadVars, progressVars, timeoutVars, expiryVars>>
ProgressMoves ==
    /\ focus = "progress" /\ ProgressStep
    /\ UNCHANGED <<focus, migrationVars, llmVars, downloadVars, intakeVars, timeoutVars, expiryVars>>
TimeoutsMove ==
    /\ focus = "timeouts" /\ TimeoutsStep
    /\ UNCHANGED <<focus, migrationVars, llmVars, downloadVars, intakeVars, progressVars, expiryVars>>
ExpiryMoves ==
    /\ focus = "expiry" /\ KeyExpiryStep
    /\ UNCHANGED <<focus, migrationVars, llmVars, downloadVars, intakeVars, progressVars, timeoutVars>>

ComponentsNext ==
    \/ MigrationsMove \/ LlmMoves \/ DownloadMoves \/ IntakeMoves \/ ProgressMoves
    \/ TimeoutsMove \/ ExpiryMoves

\* What is begun goes on: a worker's stage, a request, and an opener that is restarted.
ComponentsSpec ==
    /\ ComponentsInit /\ [][ComponentsNext]_allVars
    /\ \A o \in Openers : WF_migrationVars(focus = "migrations" /\ InitDb(o))
    /\ WF_llmVars(focus = "llm" /\ LlmStep)
    /\ WF_downloadVars(focus = "download" /\ DownloadWorks)
    /\ WF_intakeVars(focus = "intake" /\ IntakeStep)

-----------------------------------------------------------------------------

\* The types of the modules' variables.
ComponentsTypeOK ==
    /\ focus \in Components
    /\ MigrationsTypeOK /\ LlmTypeOK /\ DownloadTypeOK
    /\ IntakeTypeOK /\ ProgressTypeOK /\ TimeoutsTypeOK /\ KeyExpiryTypeOK

\* Nothing works for ever: the openers settle on the current schema in spite of the
\* restarts, a correction and a download stage return or raise, also when every attempt
\* of yt-dlp fails, and a submission is answered.
WorkEnds ==
    /\ focus = "migrations" ~> [](schema = CurrentSchema)
    /\ focus = "llm" ~> LlmEnded
    /\ focus = "download" ~> [](DownloadEnded)
    /\ focus = "intake" ~> IntakeEnded
=============================================================================
