------------------------------ MODULE Download ------------------------------
(***************************************************************************)
(* DownloadStage of pipeline/download.py: the runs of one URL job's        *)
(* download stage, one after the other in the same download directory.     *)
(* yt-dlp and gdown are environment: what they answer, and what they leave *)
(* in the directory when they fail or are killed, is any of the cases the  *)
(* code tells apart.  A file is abstracted to the run that wrote it.       *)
(***************************************************************************)
EXTENDS Naturals, Sequences, SequencesExt

CONSTANTS
    DownloadSources,  \* kinds of URL: "gdrive", "twitter", "youtube"
    MaxDownloads,     \* bound on the runs of the stage: the job's retries
    MaxTries          \* _MAX_DOWNLOAD_ATTEMPTS

ASSUME DownloadAssumption ==
    /\ DownloadSources \subseteq {"gdrive", "twitter", "youtube"}
    /\ MaxDownloads \in Nat
    /\ MaxTries \in Nat \ {0}

VARIABLES
    download,  \* the current run: its source, number, attempt and outcome
    videos,    \* the download directory: which run wrote video.mp4, its parts ...
    driveFile, \* ... and what gdown put there
    raised,    \* the exceptions yt-dlp has raised in this run
    media      \* context["input_path"]: the file the run settled for

downloadVars == <<download, videos, driveFile, raised, media>>

\* video.mp4.part, video.f137.mp4 (one track, not merged yet) and video.mp4.
VideoFiles == {"part", "track", "merged"}
NoVideos == [f \in VideoFiles |-> 0]
NoMedia == [file |-> "none", run |-> 0]
DriveFiles == {"none", "empty", "huge", "alien", "usable"}

\* Which of the two marker lists the message of an exception matches.
Raisable == [restricted : BOOLEAN, retryable : BOOLEAN]

DownloadErrors == {"rejected", "failed", "restricted", "transient", "timeout"}

DownloadTypeOK ==
    /\ download \in [source : DownloadSources, run : 0..MaxDownloads, try : 0..MaxTries,
                     pc : {"idle", "probe", "fetch", "resolve", "drive", "inspect", "ended"},
                     reported : BOOLEAN, outcome : {"", "done"} \cup DownloadErrors]
    /\ videos \in [VideoFiles -> 0..MaxDownloads]
    /\ driveFile \in DriveFiles
    /\ raised \in BoundedSeq(Raisable, MaxTries)
    /\ media \in [file : VideoFiles \cup DriveFiles, run : 0..MaxDownloads]

DownloadInit ==
    /\ download \in [source : DownloadSources, run : {0}, try : {0}, pc : {"idle"},
                     reported : {FALSE}, outcome : {""}]
    /\ videos = NoVideos
    /\ driveFile = "none"
    /\ raised = << >>
    /\ media = NoMedia

-----------------------------------------------------------------------------

DownloadAt(label) == download.pc = label

EndDownload(outcome) == download' = [download EXCEPT !.pc = "ended", !.outcome = outcome]

\* Mutant: what an earlier run left stays in the directory.
ClearStale_Skipped == UNCHANGED videos

\* A reaped job is retried in the same directory: unlink every video.*
ClearStale == videos' = NoVideos

\* execute: the job's first attempt, or a retry of it.  initialize has emptied
\* the context.
StartDownload ==
    /\ download.pc \in {"idle", "ended"} /\ download.run < MaxDownloads
    /\ raised' = << >> /\ media' = NoMedia
    /\ IF download.source = "gdrive"
       THEN download' = [download EXCEPT !.run = @ + 1, !.pc = "drive", !.outcome = ""]
            /\ UNCHANGED videos
       ELSE download' = [download EXCEPT !.run = @ + 1, !.pc = "probe", !.try = 1, !.outcome = ""]
            /\ ClearStale
    /\ UNCHANGED driveFile

\* yt-dlp leaves these files of this run in the directory.
Leaves(files) ==
    videos' = [f \in VideoFiles |-> IF f \in files THEN download.run ELSE videos[f]]

\* The worker is killed: the run is over, the directory stays as it is.
DownloadKilled(files) ==
    /\ download.pc \notin {"idle", "ended"}
    /\ DownloadAt("fetch") \/ files = {}
    /\ Leaves(files)
    /\ download' = [download EXCEPT !.pc = "idle"]
    /\ UNCHANGED <<driveFile, raised, media>>

\* Mutant: a transient marker wins over a login wall.
Classify_RetryFirst(e) ==
    IF e.retryable THEN "transient"
    ELSE IF download.source = "twitter" /\ e.restricted THEN "restricted"
    ELSE "failed"

\* What an exception of yt-dlp is: nothing can be done, the user can, or try again.
Classify(e) ==
    IF download.source = "twitter" /\ e.restricted THEN "restricted"
    ELSE IF e.retryable THEN "transient"
    ELSE "failed"

\* _extract_with_retries: only a transient failure has a next attempt.
YtDlpRaises(e) ==
    /\ raised' = Append(raised, e)
    /\ IF Classify(e) = "transient" /\ download.try < MaxTries
       THEN download' = [download EXCEPT !.try = @ + 1, !.pc = "probe"]
       ELSE EndDownload(Classify(e))

\* extract_info(download=False) raises ...
ProbeRaises(e) ==
    /\ DownloadAt("probe")
    /\ YtDlpRaises(e)
    /\ UNCHANGED <<videos, driveFile, media>>

\* ... or says nothing, a live or upcoming stream, too long, or a video to take.
ProbeAnswers(info) ==
    /\ DownloadAt("probe")
    /\ IF info = "video"
       THEN download' = [download EXCEPT !.pc = "fetch"]
       ELSE EndDownload("rejected")
    /\ UNCHANGED <<videos, driveFile, raised, media>>

\* extract_info(download=True) raises half-way ...
FetchRaises(e, files) ==
    /\ DownloadAt("fetch")
    /\ Leaves(files)
    /\ YtDlpRaises(e)
    /\ UNCHANGED <<driveFile, media>>

\* ... returns None, or an info dict that does or does not name the merged file.
FetchReturnsNothing ==
    /\ DownloadAt("fetch")
    /\ EndDownload("rejected")
    /\ UNCHANGED <<videos, driveFile, raised, media>>

FetchReturns(files, reported) ==
    /\ DownloadAt("fetch")
    /\ Leaves(files)
    /\ reported => "merged" \in files
    /\ download' = [download EXCEPT !.pc = "resolve", !.reported = reported]
    /\ UNCHANGED <<driveFile, raised, media>>

\* The glob of _resolve_downloaded_path.
Candidates == {f \in VideoFiles \ {"part"} : videos[f] # 0}

\* sorted(): "video.f137.mp4" comes before "video.mp4" and "video.mp4.part".
First(candidates) ==
    CHOOSE f \in candidates :
        \A g \in candidates : f = "track" \/ g = f \/ (f = "merged" /\ g = "part")

Resolve ==
    /\ DownloadAt("resolve")
    /\ IF download.reported \/ Candidates # {}
       THEN LET file == IF download.reported THEN "merged" ELSE First(Candidates)
            IN  media' = [file |-> file, run |-> videos[file]] /\ EndDownload("done")
       ELSE EndDownload("rejected") /\ UNCHANGED media
    /\ UNCHANGED <<videos, driveFile, raised>>

\* gdown raises, returns None, or puts a file of some kind into the directory.
DriveFails(outcome) ==
    /\ DownloadAt("drive")
    /\ EndDownload(outcome)
    /\ UNCHANGED <<videos, driveFile, raised, media>>

DriveReturns(file) ==
    /\ DownloadAt("drive")
    /\ driveFile' = file
    /\ download' = [download EXCEPT !.pc = "inspect"]
    /\ UNCHANGED <<videos, raised, media>>

\* unlink before the exception, for a file that is no use to anybody.
Removed(file) == file \in {"huge", "alien"}

\* Empty or gone, over max_upload_size, an unsupported suffix, or the job's media.
InspectDriveFile ==
    /\ DownloadAt("inspect")
    /\ driveFile' = IF Removed(driveFile) THEN "none" ELSE driveFile
    /\ IF driveFile = "usable"
       THEN EndDownload("done") /\ media' = [file |-> "usable", run |-> download.run]
       ELSE EndDownload("rejected") /\ UNCHANGED media
    /\ UNCHANGED <<videos, raised>>

\* BaseTimeoutException passes every handler.
DownloadTimesOut(files) ==
    /\ download.pc \in {"probe", "fetch", "drive"}
    /\ DownloadAt("fetch") \/ files = {}
    /\ Leaves(files)
    /\ EndDownload("timeout")
    /\ UNCHANGED <<driveFile, raised, media>>

DownloadWorks ==
    \/ \E e \in Raisable : ProbeRaises(e)
    \/ \E info \in {"none", "live", "long", "video"} : ProbeAnswers(info)
    \/ \E e \in Raisable, files \in SUBSET VideoFiles : FetchRaises(e, files)
    \/ FetchReturnsNothing
    \/ \E files \in SUBSET VideoFiles, reported \in BOOLEAN : FetchReturns(files, reported)
    \/ Resolve
    \/ \E outcome \in {"rejected", "failed"} : DriveFails(outcome)
    \/ \E file \in DriveFiles : DriveReturns(file)
    \/ InspectDriveFile
    \/ \E files \in SUBSET VideoFiles : DownloadTimesOut(files)

DownloadStep ==
    \/ StartDownload \/ DownloadWorks
    \/ \E files \in SUBSET VideoFiles : DownloadKilled(files)

DownloadEnded == download.pc \in {"idle", "ended"}

DownloadSpec == DownloadInit /\ [][DownloadStep]_downloadVars

-----------------------------------------------------------------------------
(* Properties *)

\* Preprocess is handed a file this very run has written, whole as far as its name
\* tells: never a .part file, nothing a killed run left behind, and nothing from
\* Drive that is empty, oversized or no media.
MediaIsOfThisRun ==
    download.outcome = "done" =>
        media.run = download.run /\ media.file \in {"track", "merged", "usable"}

\* How a yt-dlp run ends is decided by everything yt-dlp raised in it: it fails as
\* transient only when every one of MaxTries attempts did, and any other exception
\* ends the run at once, as what it is.
ErrorsAreClassified ==
    LET transient(e) == e.retryable /\ ~(download.source = "twitter" /\ e.restricted)
        spent == Len(raised) = MaxTries
    IN  /\ \A k \in 1..Len(raised) - 1 : transient(raised[k])
        /\ DownloadAt("ended") =>
              CASE download.outcome = "transient"  -> spent /\ transient(raised[MaxTries])
                [] download.outcome = "restricted" -> raised # << >> /\ Last(raised).restricted
                [] download.outcome = "failed" /\ download.source # "gdrive" ->
                        raised # << >> /\ ~transient(Last(raised))
                [] OTHER -> ~spent /\ \A k \in 1..Len(raised) : transient(raised[k])
=============================================================================
