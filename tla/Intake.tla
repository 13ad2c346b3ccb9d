------------------------------- MODULE Intake -------------------------------
(***************************************************************************)
(* A submission of URLs: upload_url_submit of web/routes/upload.py with    *)
(* the validators of core/url_validation.py and expand_playlist of         *)
(* web/playlist.py.  A submission is validated line by line, its playlists *)
(* are expanded at YouTube, and one job per video is inserted and          *)
(* enqueued.  A parsed URL is a record of the parts the validators look    *)
(* at; "none" is a part that is missing, "bad" an id of the wrong form.    *)
(* A filtered list (valid_tokens, unique_urls) is the set of the positions *)
(* that the filter keeps, and a loop over it is what is left of that set.  *)
(***************************************************************************)
EXTENDS Naturals, Sequences, SequencesExt, FiniteSets

CONSTANTS
    Submissions,  \* the textarea contents to try: sequences of URLs
    VideoIds,     \* well-formed ids of videos, posts and Drive files
    MaxBatch      \* MAX_BATCH_SIZE

-----------------------------------------------------------------------------
(* URLs: "malformed" is a host urlparse raises on; seg is the path segment *)
(* after the one that path names, or the only one.                         *)

YouTubeHosts == {"youtube", "youtu.be"}
DriveHosts == {"drive", "docs"}
TwitterHosts == {"x"}
Hosts == YouTubeHosts \cup DriveHosts \cup TwitterHosts \cup {"other", "malformed"}
Paths == {"root", "watch", "segment", "playlist", "shorts", "embed", "d", "document", "uc", "status"}
ListIds == {"list1", "list2"}
UnsupportedLists == {"mix", "watchlater"}

Urls == [scheme : {"https", "ftp"}, host : Hosts, path : Paths,
         seg : VideoIds \cup {"none", "bad"}, v : VideoIds \cup {"none", "bad"},
         list : ListIds \cup UnsupportedLists \cup {"none", "bad"},
         id : VideoIds \cup {"none", "bad"}]

ASSUME IntakeAssumption ==
    /\ MaxBatch \in Nat \ {0} /\ "bad" \notin VideoIds /\ "none" \notin VideoIds
    /\ Submissions \subseteq Seq(Urls)

NoUrl == [scheme |-> "https", host |-> "other", path |-> "root",
          seg |-> "none", v |-> "none", list |-> "none", id |-> "none"]

WatchUrl(v) == [NoUrl EXCEPT !.host = "youtube", !.path = "watch", !.v = v]
PlaylistUrl(list) == [NoUrl EXCEPT !.host = "youtube", !.path = "playlist", !.list = list]
DriveUrl(id) == [NoUrl EXCEPT !.host = "drive", !.path = "uc", !.id = id]
PostUrl(id) == [NoUrl EXCEPT !.host = "x", !.path = "status", !.seg = id]

Valid(url) == [error |-> "", url |-> url]
Invalid(error) == [error |-> error, url |-> NoUrl]

\* _extract_video_id: on youtu.be the first segment is the id, whatever it is.
VideoIdOf(u) ==
    CASE u.host = "youtu.be" -> IF u.path = "root" THEN "none"
                                ELSE IF u.path = "segment" THEN u.seg ELSE "bad"
      [] u.host # "youtu.be" /\ u.path = "shorts" -> u.seg
      [] u.host # "youtu.be" /\ u.path # "shorts" /\ u.v # "none" -> u.v
      [] u.host # "youtu.be" /\ u.path = "embed" /\ u.v = "none" -> u.seg
      [] OTHER -> "none"

\* validate_youtube_url
ValidateYouTube(u) ==
    IF u.scheme # "https" \/ u.host \notin YouTubeHosts THEN Invalid("url")
    ELSE IF u.path = "playlist" \/ (u.list # "none" /\ VideoIdOf(u) = "none") THEN Invalid("playlist")
    ELSE IF VideoIdOf(u) \in VideoIds THEN Valid(WatchUrl(VideoIdOf(u)))
    ELSE Invalid("url")

\* validate_youtube_playlist_url
ValidatePlaylist(u) ==
    IF u.scheme # "https" \/ u.host \notin YouTubeHosts THEN Invalid("url")
    ELSE IF u.list \in UnsupportedLists THEN Invalid("unsupported")
    ELSE IF u.list \in ListIds THEN Valid(PlaylistUrl(u.list))
    ELSE Invalid("url")

\* extract_gdrive_file_id
FileIdOf(u) == IF u.path \in {"d", "document"} /\ u.seg # "none" THEN u.seg ELSE u.id

\* validate_google_drive_url: documents of docs.google.com are no media files.
ValidateDrive(u) ==
    IF /\ u.scheme = "https" /\ u.host \in DriveHosts
       /\ ~(u.host = "docs" /\ u.path = "document")
       /\ FileIdOf(u) \in VideoIds
    THEN Valid(DriveUrl(FileIdOf(u)))
    ELSE Invalid("url")

\* validate_twitter_url with _extract_tweet_id
ValidateTwitter(u) ==
    IF u.scheme = "https" /\ u.host \in TwitterHosts /\ u.path = "status" /\ u.seg \in VideoIds
    THEN Valid(PostUrl(u.seg))
    ELSE Invalid("url")

\* The quick checks the route and DownloadStage branch on; none looks at the scheme.
IsGoogleDrive(u) == u.host \in DriveHosts
IsTwitter(u) == u.host \in TwitterHosts

\* Mutant: any list= makes the link a playlist.
IsPlaylist_AnyList(u) == u.host \in YouTubeHosts /\ (u.path = "playlist" \/ u.list # "none")

IsPlaylist(u) ==
    u.host \in YouTubeHosts /\ (u.path = "playlist" \/ (u.list # "none" /\ VideoIdOf(u) = "none"))

\* The branches of the route's loop over the lines.
Kind(u) ==
    IF IsGoogleDrive(u) THEN "gdrive"
    ELSE IF IsTwitter(u) THEN "twitter"
    ELSE IF IsPlaylist(u) THEN "playlist"
    ELSE "youtube"

Routed(u) ==
    CASE Kind(u) = "gdrive"   -> ValidateDrive(u)
      [] Kind(u) = "twitter"  -> ValidateTwitter(u)
      [] Kind(u) = "playlist" -> ValidatePlaylist(u)
      [] Kind(u) = "youtube"  -> ValidateYouTube(u)

\* DownloadStage.execute, when a worker takes the job's source_url up.
DownloaderOf(u) ==
    IF IsGoogleDrive(u) THEN "gdrive" ELSE IF IsTwitter(u) THEN "twitter" ELSE "youtube"

-----------------------------------------------------------------------------
VARIABLES
    lines,     \* the lines of the form, parsed
    intake,    \* where the request is
    expanded,  \* the playlists fetched so far: canonical URL -> videos, unavailable
    urls,      \* valid_urls
    jobs       \* the rows inserted

intakeVars == <<lines, intake, expanded, urls, jobs>>

Rejections == {"no_url", "too_many_urls", "unsupported_playlist", "all_invalid", "playlist_too_large",
               "playlist_empty", "playlist_unavailable", "playlist_fetch_failed"}

NoPlaylists == [u \in {} |-> <<>>]

IntakeTypeOK ==
    /\ lines \in Seq(Urls)
    /\ intake \in [pc : {"lines", "expand", "insert", "enqueue", "answered"}, left : SUBSET Nat,
                   outcome : {"", "error", "accepted"} \cup Rejections,
                   submitted : 0..MaxBatch, failed : 0..MaxBatch, deduped : Nat]
    /\ DOMAIN expanded \subseteq {PlaylistUrl(l) : l \in ListIds}
    /\ \A p \in DOMAIN expanded :
          expanded[p].videos \in BoundedSeq(VideoIds, MaxBatch) /\ expanded[p].unavailable \in 0..MaxBatch
    /\ Range(urls) \subseteq Urls
    /\ \A k \in 1..Len(jobs) : jobs[k].url \in Urls /\ jobs[k].status \in {"queued", "failed"}

IntakeInit ==
    /\ lines \in Submissions
    /\ intake = [pc |-> "lines", left |-> {}, outcome |-> "", submitted |-> 0, failed |-> 0, deduped |-> 0]
    /\ expanded = NoPlaylists
    /\ urls = <<>>
    /\ jobs = <<>>

IntakeAt(label) == intake.pc = label
AnswerRequest(outcome) == intake' = [intake EXCEPT !.pc = "answered", !.outcome = outcome]

\* valid_tokens: the lines that validate, each with its canonical URL.
ValidLines == {k \in 1..Len(lines) : Routed(lines[k]).error = ""}
Token(k) == Routed(lines[k]).url
IsPlaylistLine(k) == Kind(lines[k]) = "playlist"

\* The loops over the lines and over unique_urls take what is left in order.
TakesNext(k) == k \in intake.left /\ \A j \in intake.left : k <= j

\* No line, too many lines, no valid line, or on to the playlists.
ReadLines ==
    /\ IntakeAt("lines")
    /\ IF lines = <<>> THEN AnswerRequest("no_url")
       ELSE IF Len(lines) > MaxBatch THEN AnswerRequest("too_many_urls")
       ELSE IF ValidLines = {}
       THEN AnswerRequest(IF \E k \in 1..Len(lines) : Routed(lines[k]).error = "unsupported"
                          THEN "unsupported_playlist" ELSE "all_invalid")
       ELSE intake' = [intake EXCEPT !.pc = "expand", !.left = ValidLines]
    /\ UNCHANGED <<lines, expanded, urls, jobs>>

\* Mutant: one entry more than a batch may hold is let through.
PlaylistAnswer_OffByOne(videos, hidden) ==
    IF Len(videos) + hidden > MaxBatch + 1 THEN "playlist_too_large"
    ELSE IF videos = <<>> THEN "playlist_empty" ELSE ""

\* expand_playlist: the videos YouTube lists, and how many entries are private or no video.
PlaylistAnswer(videos, hidden) ==
    IF Len(videos) + hidden > MaxBatch THEN "playlist_too_large"
    ELSE IF videos = <<>> THEN "playlist_empty" ELSE ""

\* Mutant: a video that two lines name stays in the list twice.
Unique_KeepAll(list) == 1..Len(list)

\* dict.fromkeys: where each URL stands first.
Unique(list) == {k \in 1..Len(list) : \A j \in 1..k - 1 : list[j] # list[k]}

\* More tokens to go, or the checks and the deduplication of the whole list.
TakeToken(k, found) ==
    /\ urls' = urls \o found
    /\ IF intake.left # {k} THEN intake' = [intake EXCEPT !.left = @ \ {k}]
       ELSE IF Len(urls') > MaxBatch THEN AnswerRequest("too_many_urls")
       ELSE intake' = [intake EXCEPT !.pc = "insert", !.left = Unique(urls'),
                                     !.deduped = Len(urls') - Cardinality(Unique(urls'))]

WatchUrls(videos) == [k \in 1..Len(videos) |-> WatchUrl(videos[k])]

TakeUrl(k) ==
    /\ IntakeAt("expand") /\ TakesNext(k) /\ ~IsPlaylistLine(k)
    /\ TakeToken(k, <<Token(k)>>)
    /\ UNCHANGED <<lines, expanded, jobs>>

\* A playlist pasted twice is fetched once.
TakeKnownPlaylist(k) ==
    /\ IntakeAt("expand") /\ TakesNext(k) /\ IsPlaylistLine(k) /\ Token(k) \in DOMAIN expanded
    /\ TakeToken(k, WatchUrls(expanded[Token(k)].videos))
    /\ UNCHANGED <<lines, expanded, jobs>>

MustFetch(k) ==
    IntakeAt("expand") /\ TakesNext(k) /\ IsPlaylistLine(k) /\ Token(k) \notin DOMAIN expanded

FetchPlaylist(k, videos, hidden) ==
    /\ MustFetch(k)
    /\ IF PlaylistAnswer(videos, hidden) # ""
       THEN AnswerRequest(PlaylistAnswer(videos, hidden)) /\ UNCHANGED <<expanded, urls>>
       ELSE /\ expanded' = [p \in DOMAIN expanded \cup {Token(k)} |->
                                IF p = Token(k) THEN [videos |-> videos, unavailable |-> hidden]
                                ELSE expanded[p]]
            /\ TakeToken(k, WatchUrls(videos))
    /\ UNCHANGED <<lines, jobs>>

\* yt-dlp raises: the playlist is private or gone, or YouTube cannot be reached.
FetchPlaylistFails(k, error) ==
    /\ MustFetch(k)
    /\ AnswerRequest(error)
    /\ UNCHANGED <<lines, expanded, urls, jobs>>

\* insert_job of a QUEUED row ...
InsertJob(k) ==
    /\ IntakeAt("insert") /\ TakesNext(k)
    /\ jobs' = Append(jobs, [url |-> urls[k], status |-> "queued"])
    /\ intake' = [intake EXCEPT !.pc = "enqueue", !.left = @ \ {k}]
    /\ UNCHANGED <<lines, expanded, urls>>

\* ... or the database is locked: an error page, and the jobs before it stay.
InsertRaises ==
    /\ IntakeAt("insert") /\ intake.left # {}
    /\ AnswerRequest("error")
    /\ UNCHANGED <<lines, expanded, urls, jobs>>

EnqueueJob ==
    /\ IntakeAt("enqueue")
    /\ intake' = [intake EXCEPT !.pc = "insert", !.submitted = @ + 1]
    /\ UNCHANGED <<lines, expanded, urls, jobs>>

\* Mutant: the failed row is left QUEUED.
EnqueueJobFails_Unmarked ==
    /\ IntakeAt("enqueue")
    /\ intake' = [intake EXCEPT !.pc = "insert", !.failed = @ + 1]
    /\ UNCHANGED <<lines, expanded, urls, jobs>>

\* Redis is away: mark_enqueue_failed, and the loop goes on.
EnqueueJobFails ==
    /\ IntakeAt("enqueue")
    /\ jobs' = [jobs EXCEPT ![Len(jobs)].status = "failed"]
    /\ intake' = [intake EXCEPT !.pc = "insert", !.failed = @ + 1]
    /\ UNCHANGED <<lines, expanded, urls>>

\* ... unless the row cannot be updated either: an error page, and the row stays QUEUED.
MarkEnqueueFailedRaises ==
    /\ IntakeAt("enqueue")
    /\ AnswerRequest("error")
    /\ UNCHANGED <<lines, expanded, urls, jobs>>

\* set_flash and the redirect.
FinishSubmission ==
    /\ IntakeAt("insert") /\ intake.left = {}
    /\ AnswerRequest("accepted")
    /\ UNCHANGED <<lines, expanded, urls, jobs>>

IntakeStep ==
    \/ ReadLines
    \/ \E k \in intake.left :
          \/ TakeUrl(k) \/ TakeKnownPlaylist(k) \/ InsertJob(k)
          \/ \E error \in {"playlist_unavailable", "playlist_fetch_failed", "playlist_empty"} :
                FetchPlaylistFails(k, error)
          \* "playlist_items": at most one entry past the limit is asked for.
          \/ /\ MustFetch(k)
             /\ \E videos \in BoundedSeq(VideoIds, MaxBatch + 1), hidden \in 0..MaxBatch + 1 :
                   Len(videos) + hidden <= MaxBatch + 1 /\ FetchPlaylist(k, videos, hidden)
    \/ InsertRaises \/ EnqueueJob \/ EnqueueJobFails \/ MarkEnqueueFailedRaises \/ FinishSubmission

IntakeEnded == IntakeAt("answered")

IntakeSpec == IntakeInit /\ [][IntakeStep]_intakeVars

-----------------------------------------------------------------------------
(* Properties *)

\* What the route takes a line for, the validators, and DownloadStage that sees the
\* stored URL much later never disagree: a link is expanded as a playlist exactly
\* when the video validator would refuse it as one, the canonical URL is accepted
\* again as itself and of the same kind, and a job's URL goes to the downloader its
\* line was validated for.
RoutingAgrees ==
    \A k \in 1..Len(lines) :
        LET u == lines[k] IN
        /\ u.scheme = "https" /\ u.host \in YouTubeHosts =>
              (IsPlaylist(u) <=> ValidateYouTube(u).error = "playlist")
        /\ Routed(u).error = "" =>
              LET canonical == Routed(u).url
              IN  /\ Routed(canonical) = Routed(u) /\ Kind(canonical) = Kind(u)
                  /\ Kind(u) # "playlist" => DownloaderOf(canonical) = Kind(u)

\* The URLs that a valid line stands for: its own, or those of its playlist once fetched.
Found(k) ==
    IF ~IsPlaylistLine(k) THEN <<Token(k)>>
    ELSE IF Token(k) \in DOMAIN expanded THEN WatchUrls(expanded[Token(k)].videos)
    ELSE <<>>

Inserted == {jobs[j].url : j \in 1..Len(jobs)}
WithStatus(rows, status) == {j \in 1..Len(rows) : rows[j].status = status}

\* Every video a valid line names, directly or by a playlist, has one job once the
\* request is accepted, however often and in whatever form it was pasted; a rejected
\* submission, also one whose second playlist fails, has left no job behind.
OneJobPerVideo ==
    LET named == UNION {Range(Found(k)) : k \in ValidLines}
    IN  /\ Cardinality(Inserted) = Len(jobs) /\ Len(jobs) <= MaxBatch
        /\ Inserted \subseteq named
        /\ intake.outcome \in Rejections => jobs = <<>>
        /\ intake.outcome = "accepted" => Inserted = named

\* The toast accounts for every valid line and every playable playlist entry once, as
\* queued, failed or deduped; and the jobs it calls failed are the FAILED rows.
ToastAddsUp ==
    LET pasted == UNION {{k} \X (1..Len(Found(k))) : k \in ValidLines}
    IN  intake.outcome = "accepted" =>
            /\ intake.submitted + intake.failed + intake.deduped = Cardinality(pasted)
            /\ intake.failed = Cardinality(WithStatus(jobs, "failed"))
            /\ intake.submitted = Cardinality(WithStatus(jobs, "queued"))
=============================================================================
