--------------------------- MODULE UpdateRequests ---------------------------
(***************************************************************************)
(* The updater (src/src/updater.rs and the update part of src/src/app.rs):   *)
(* checks and downloads in threads of their own, one shared state and the     *)
(* generation that tells a late answer from a current one, then the script    *)
(* that replaces the program.                                              *)
(*                                                                         *)
(* A release is its number, 0 the one the process was started from; Torn is   *)
(* a file that was written in part or is not what the release's digest says.  *)
(***************************************************************************)
EXTENDS Naturals

CONSTANTS
    MaxRelease,     \* bound on the releases published
    MaxRequest      \* bound on update_request_id

Releases == 0 .. MaxRelease
Requests == 1 .. MaxRequest
Torn == MaxRelease + 1

VARIABLES
    latest,             \* the newest release on the server
    status, release,    \* update_state, and the release it is about
    answered,           \* the request that wrote update_state
    generation,         \* update_request_id
    thread, asset,      \* each request's thread, and the release it downloads
    reporter,           \* the requests whose progress thread runs
    show, dismissed,    \* show_update_dialog, update_dialog_dismissed
    archive,            \* what lies under the asset's name among the downloads
    extracted, staged,  \* the extracted binary and the script's copy; 0: none
    script,             \* where the update script is
    program, running    \* the executable, and what this process was started from

state == <<status, release, answered>>
threads == <<thread, asset, reporter>>
dialog == <<show, dismissed>>
files == <<archive, extracted, staged, script, program>>
vars == <<latest, state, generation, threads, dialog, files, running>>

Fresh ==
    /\ status = "idle" /\ release = 0 /\ answered = 0 /\ generation = 0
    /\ thread = [r \in Requests |-> "none"] /\ asset = [r \in Requests |-> 0]
    /\ reporter = {} /\ show = FALSE /\ dismissed = FALSE

Init ==
    /\ latest = 0 /\ Fresh
    /\ archive = 0 /\ extracted = 0 /\ staged = 0 /\ script = "none"
    /\ program = 0 /\ running = 0

-----------------------------------------------------------------------------
\* begin_update_request_if, once its condition holds.
Begin(next, about) ==
    /\ generation < MaxRequest
    /\ generation' = generation + 1
    /\ status' = next /\ release' = about /\ answered' = generation'

\* Mutated form of Current: only the state is looked at.
CurrentStatus(r, active) == status = active

\* What commit_update_state_if_current requires under the lock.
Current(r, active) == generation = r /\ status = active

Commit(r, active, next, about) ==
    IF Current(r, active)
    THEN status' = next /\ release' = about /\ answered' = r
    ELSE UNCHANGED state

\* trigger_update_check: the first frame, a button of the About window, or Retry.
Check ==
    /\ status \in {"idle", "checking", "current", "error"}
    /\ Begin("checking", 0)
    /\ thread' = [thread EXCEPT ![generation'] = "checking"]
    /\ show' = FALSE /\ dismissed' = FALSE
    /\ UNCHANGED <<latest, asset, reporter, files, running>>

\* check_for_update: the release seen, none newer, or an error.
CheckEnds(r) ==
    /\ thread[r] = "checking"
    /\ \/ latest > running /\ Commit(r, "checking", "available", latest)
       \/ latest <= running /\ Commit(r, "checking", "current", 0)
       \/ Commit(r, "checking", "error", 0)
    /\ thread' = [thread EXCEPT ![r] = "none"]
    /\ UNCHANGED <<latest, generation, asset, reporter, dialog, files, running>>

MayDownload == status = "available"

\* trigger_download, from either window.  An asset without a digest, or with a name
\* that is no file name, is an error.
Download ==
    /\ MayDownload
    /\ \/ Begin("error", 0) /\ UNCHANGED threads
       \/ /\ Begin("downloading", release)
          /\ thread' = [thread EXCEPT ![generation'] = "downloading"]
          /\ asset' = [asset EXCEPT ![generation'] = release]
          /\ reporter' = reporter \cup {generation'}
    /\ UNCHANGED <<latest, dialog, files, running>>

\* What a download that passed the comparison of digests has in its temporary file.
Digested(r) == {asset[r]}

\* download_file_with_progress: the verified file takes the asset's name at once.
Persist(r) ==
    /\ thread[r] = "downloading"
    /\ archive' \in Digested(r)
    /\ thread' = [thread EXCEPT ![r] = "persisted"]
    /\ UNCHANGED <<latest, state, generation, asset, reporter, dialog, extracted, staged,
                   script, program, running>>

\* The end of the download's thread.
DownloadEnds(r) ==
    /\ \/ thread[r] = "persisted" /\ Commit(r, "downloading", "downloaded", asset[r])
       \/ thread[r] = "downloading" /\ Commit(r, "downloading", "error", 0)
    /\ thread' = [thread EXCEPT ![r] = "none"]
    /\ UNCHANGED <<latest, generation, asset, reporter, dialog, files, running>>

\* The progress thread writes the state again, or ends.
Report(r) ==
    /\ r \in reporter
    /\ reporter' = IF Current(r, "downloading") THEN reporter ELSE reporter \ {r}
    /\ Commit(r, "downloading", "downloading", asset[r])
    /\ UNCHANGED <<latest, generation, thread, asset, dialog, files, running>>

\* App::update: what every frame does about the dialog.
Frame ==
    /\ show' = \/ show /\ status \in {"available", "downloading", "downloaded", "error"}
               \/ status = "available" /\ ~dismissed
    /\ UNCHANGED <<latest, state, generation, threads, dismissed, files, running>>

Dismiss ==
    /\ show
    /\ \/ /\ status \in {"available", "error"}
          /\ show' = FALSE /\ dismissed' = TRUE /\ UNCHANGED state
       \/ /\ status = "downloaded"
          /\ status' = "idle" /\ release' = 0 /\ answered' = generation
          /\ UNCHANGED dialog
    /\ UNCHANGED <<latest, generation, threads, files, running>>

-----------------------------------------------------------------------------
\* install_and_restart: extraction, script and launch; the process then ends, its
\* threads with it.  Each part may fail, which leaves what was extracted.
Install ==
    /\ show /\ status = "downloaded" /\ archive # 0
    /\ extracted' = archive
    /\ \/ /\ script = "none" /\ script' = "waiting"
          /\ status' = "exited" /\ release' = 0 /\ answered' = 0
          /\ thread' = [r \in Requests |-> "none"] /\ reporter' = {} /\ UNCHANGED asset
       \/ UNCHANGED <<script, state, threads>>
    /\ UNCHANGED <<latest, generation, dialog, archive, staged, program, running>>

\* The script copies the binary beside the program and sets its mode; a failure or a
\* kill leaves at most that copy.
Stages ==
    /\ script = "waiting"
    /\ \/ staged' = extracted /\ script' = "staged"
       \/ staged' \in {0, Torn, extracted} /\ script' = "none"
    /\ UNCHANGED <<latest, state, generation, threads, dialog, archive, extracted, program,
                   running>>

\* It moves the copy over the program, removes the extracted binary and starts it.
Replaces ==
    /\ script = "staged"
    /\ \/ program' = staged /\ staged' = 0 /\ extracted' \in {0, extracted}
       \/ UNCHANGED <<program, staged, extracted>>
    /\ script' = "none"
    /\ UNCHANGED <<latest, state, generation, threads, dialog, archive, running>>

\* A process is started, by the script or by the user.
Start ==
    /\ status = "exited" /\ program # Torn
    /\ status' = "idle" /\ release' = 0 /\ answered' = 0 /\ generation' = 0
    /\ thread' = [r \in Requests |-> "none"] /\ asset' = [r \in Requests |-> 0]
    /\ reporter' = {} /\ show' = FALSE /\ dismissed' = FALSE /\ running' = program
    /\ UNCHANGED <<latest, files>>

\* The user ends the process.
Quit ==
    /\ status # "exited" /\ status' = "exited" /\ release' = 0 /\ answered' = 0
    /\ thread' = [r \in Requests |-> "none"] /\ reporter' = {}
    /\ UNCHANGED <<latest, generation, asset, dialog, files, running>>

\* A release is published.
Publish ==
    /\ latest < MaxRelease /\ latest' = latest + 1
    /\ UNCHANGED <<state, generation, threads, dialog, files, running>>

\* Another window downloads a release under the same name.
DownloadElsewhere ==
    /\ archive' \in 1 .. latest
    /\ UNCHANGED <<latest, state, generation, threads, dialog, extracted, staged, script,
                   program, running>>

Next ==
    \/ Check \/ Download \/ Frame \/ Dismiss \/ Install \/ Stages \/ Replaces
    \/ Start \/ Quit \/ Publish \/ DownloadElsewhere
    \/ \E r \in Requests : CheckEnds(r) \/ Persist(r) \/ DownloadEnds(r) \/ Report(r)

Spec == Init /\ [][Next]_vars

-----------------------------------------------------------------------------
FlagsOK == show \in BOOLEAN /\ dismissed \in BOOLEAN

TypeOK ==
    /\ FlagsOK
    /\ latest \in Releases /\ release \in Releases /\ running \in Releases
    /\ status \in {"idle", "checking", "current", "available", "downloading",
                   "downloaded", "error", "exited"}
    /\ answered \in 0 .. generation /\ generation \in 0 .. MaxRequest
    /\ thread \in [Requests -> {"none", "checking", "downloading", "persisted"}]
    /\ asset \in [Requests -> Releases] /\ reporter \subseteq Requests
    /\ {archive, extracted, staged, program} \subseteq Releases \cup {Torn}
    /\ script \in {"none", "waiting", "staged"}

\* What the window shows is the answer to the last thing it asked, whatever threads of
\* earlier requests still run; and while a download is offered for installation no
\* thread is writing that file or will move the state away from it.
UpdateIsCurrent ==
    /\ status # "exited" => answered = generation
    /\ status = "downloaded" =>
         \A r \in Requests : thread[r] \notin {"downloading", "persisted"}

\* The program is at every moment one whole release whose digest was verified, although
\* any step of a download or of the script may be its last.
ProgramIsWhole == program # Torn

\* What both rest on: the request that downloads is the last one, and its state is shown;
\* and no file is torn but the copy of a script that was stopped.
DownloadIsLast ==
    \A r \in Requests : thread[r] \in {"downloading", "persisted"} =>
        r = generation /\ status = "downloading"

FilesAreWhole ==
    /\ Torn \notin {archive, extracted, program}
    /\ script = "staged" => staged # Torn

IInv == TypeOK /\ UpdateIsCurrent /\ DownloadIsLast /\ FilesAreWhole
=============================================================================
