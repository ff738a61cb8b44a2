------------------------ MODULE RepositoryOperations ------------------------
(***************************************************************************)
(* The window of the Git client and the threads that run its operations      *)
(* (src/src/app.rs): which operation may start, the poll of every frame with *)
(* its watchdog, answers that come late or never, confirmations, and the      *)
(* cleanup of a task's worktree that spans four of these operations.         *)
(*                                                                         *)
(* A frame polls each pending operation once, ends with three checks and     *)
(* then lets the user act.  Threads end, and other programs change the       *)
(* worktree and the task's record, at any time.                              *)
(***************************************************************************)
EXTENDS Naturals

CONSTANTS
    Slots,              \* places for operations that are pending or still run
    MaxGenerations,     \* bound on the repositories opened
    MaxRequests,        \* bound on log_search_request_id
    MaxVersions         \* bound on the states of the task's record

ASSUME ConstantsAssumption ==
    /\ Slots # {}
    /\ MaxGenerations \in Nat \ {0} /\ MaxRequests \in Nat /\ MaxVersions \in Nat \ {0}

\* "mutate" is every operation that ends in Success, or in something to look at.
Kinds == {"mutate", "removal", "clone", "refresh", "preview", "search"}
Ended == {"success", "error", "view", "clone", "data", "results", "dead"}
Listings == {"unread", "listed", "missing", "absent", "unreadable"}

VARIABLES
    \* App
    generation,     \* repo_generation; 0 while nothing is open
    home,           \* the generations that are the task's repository
    shown, shownFor, \* the task's worktree in self.worktrees, and for which generation
    commits,        \* the request whose text self.commits reflects; 0 when empty
    asked,          \* log_search_request_id
    ops,            \* pending_ops
    confirm, confirmFor, confirmTask,               \* pending_confirmation
    cleanup, cleanupFor, cleanupTask, cleanupMissing, \* pending_worktree_cleanup
    launch, launchFor, launchTask,                  \* pending_task_cleanup_launch
    context,        \* task_cleanup_operation: a version of the task, or 0
    needsRefresh,
    stage, visit,   \* where process_pending_ops is, and the operations left to poll
    \* the operations
    worker,         \* its thread: "none", "running", or its result
    kind, issued,   \* its operation, and its repo_generation
    late,           \* those with timed_out
    request,        \* a search's request_id
    report,         \* what a refresh read of the task's worktree
    \* outside
    worktree,       \* the task's worktree: its directory, and git's metadata
    version, known, \* the task's record in the file, and in memory
    cleaned         \* worktree_cleanup_completed_at

lists == <<shown, shownFor, commits>>
dialog == <<confirm, confirmFor, confirmTask>>
preview == <<cleanup, cleanupFor, cleanupTask, cleanupMissing>>
launching == <<launch, launchFor, launchTask>>
threads == <<worker, kind, issued, request, report>>
task == <<version, known, cleaned>>
vars == <<generation, home, shown, shownFor, commits, asked, ops, confirm, confirmFor,
          confirmTask, cleanup, cleanupFor, cleanupTask, cleanupMissing, launch,
          launchFor, launchTask, context, needsRefresh, stage, visit,
          worker, kind, issued, late, request, report, worktree, version, known, cleaned>>

Init ==
    /\ generation = 0 /\ home = {} /\ shown = "unread" /\ shownFor = 0
    /\ commits = 0 /\ asked = 0 /\ ops = {}
    /\ confirm = "none" /\ confirmFor = 0 /\ confirmTask = 0
    /\ cleanup = "none" /\ cleanupFor = 0 /\ cleanupTask = 0 /\ cleanupMissing = FALSE
    /\ launch = "none" /\ launchFor = 0 /\ launchTask = 0
    /\ context = 0 /\ needsRefresh = FALSE
    /\ stage = "user" /\ visit = {}
    /\ worker = [i \in Slots |-> "none"] /\ kind = [i \in Slots |-> "mutate"]
    /\ issued = [i \in Slots |-> 0] /\ late = {}
    /\ request = [i \in Slots |-> 0] /\ report = [i \in Slots |-> "unread"]
    /\ worktree = "listed" /\ version = 1 /\ known = 1 /\ cleaned = FALSE

-----------------------------------------------------------------------------
\* Starting an operation.

\* is_busy
Busy == ops # {} \/ confirm # "none" \/ cleanup # "none" \/ launch # "none"

\* The early returns of start_operation_inner_at.
MayStart(k) ==
    /\ generation # 0
    /\ confirm = "none"
    /\ cleanup = "none" \/ k = "preview"

\* Mutated form of Starts: a search gets the identity after its own.
StartsOffByOne(i, k, r) ==
    /\ worker[i] = "none"
    /\ ops' = ops \cup {i} /\ late' = late \ {i}
    /\ worker' = [worker EXCEPT ![i] = "running"]
    /\ kind' = [kind EXCEPT ![i] = k]
    /\ issued' = [issued EXCEPT ![i] = generation]
    /\ request' = [request EXCEPT ![i] = r + 1]
    /\ report' = [report EXCEPT ![i] = "unread"]

\* start_operation_inner_at in a free slot.
Starts(i, k, r) ==
    /\ worker[i] = "none"
    /\ ops' = ops \cup {i} /\ late' = late \ {i}
    /\ worker' = [worker EXCEPT ![i] = "running"]
    /\ kind' = [kind EXCEPT ![i] = k]
    /\ issued' = [issued EXCEPT ![i] = generation]
    /\ request' = [request EXCEPT ![i] = r]
    /\ report' = [report EXCEPT ![i] = "unread"]

DropsDialog == confirm' = "none" /\ confirmFor' = 0 /\ confirmTask' = 0
DropsLaunch == launch' = "none" /\ launchFor' = 0 /\ launchTask' = 0
DropsPreview ==
    cleanup' = "none" /\ cleanupFor' = 0 /\ cleanupTask' = 0 /\ cleanupMissing' = FALSE

\* What open_repo_path assigns, but for the launch.
Open(mine) ==
    /\ generation < MaxGenerations /\ asked < MaxRequests
    /\ generation' = generation + 1 /\ asked' = asked + 1
    /\ home' = IF mine THEN home \cup {generation'} ELSE home
    /\ shown' = "unread" /\ shownFor' = 0 /\ commits' = 0
    /\ DropsPreview /\ needsRefresh' = TRUE

\* The task of a cleanup is still the task in memory, and its repository is open.
Matches(t, memory) == t = memory /\ ~cleaned /\ generation \in home

\* A preview of the worktree, for task t or for none.
Previews(t, absent) ==
    /\ cleanup' = "waiting" /\ cleanupFor' = generation
    /\ cleanupTask' = t /\ cleanupMissing' = absent
    /\ needsRefresh' = FALSE
    /\ \E i \in Slots : Starts(i, "preview", 0)

\* start_task_cleanup_preview_for_current, with a worktree listed or without.
StartsCleanup(t, memory) ==
    \/ Matches(t, memory) /\ Previews(t, shown # "listed")
    \/ UNCHANGED <<preview, needsRefresh, ops, late, threads>>

-----------------------------------------------------------------------------
\* The user.

Acting == stage = "user" /\ UNCHANGED <<stage, visit, worktree, version, cleaned>>

\* Mutated form of Opens: a confirmation does not keep it from opening.
OpensUnderDialog ==
    /\ Acting /\ ops = {} /\ cleanup = "none" /\ launch = "none"
    /\ \E mine \in BOOLEAN : Open(mine)
    /\ DropsLaunch
    /\ UNCHANGED <<ops, dialog, context, late, threads, known>>

Opens ==
    /\ Acting /\ ~Busy
    /\ \E mine \in BOOLEAN : Open(mine)
    /\ DropsLaunch
    /\ UNCHANGED <<ops, dialog, context, late, threads, known>>

\* A button of a panel.
Mutates ==
    /\ Acting /\ ~Busy /\ MayStart("mutate")
    /\ \E i \in Slots : Starts(i, "mutate", 0)
    /\ UNCHANGED <<generation, home, lists, asked, dialog, preview, launching, context,
                   needsRefresh, known>>

\* start_clone
Clones ==
    /\ Acting /\ ~Busy
    /\ \E i \in Slots : Starts(i, "clone", 0)
    /\ UNCHANGED <<generation, home, lists, asked, dialog, preview, launching, context,
                   needsRefresh, known>>

\* refresh_all
Refreshes ==
    /\ Acting /\ ~Busy /\ MayStart("refresh")
    /\ needsRefresh' = FALSE
    /\ \E i \in Slots : Starts(i, "refresh", 0)
    /\ UNCHANGED <<generation, home, lists, asked, dialog, preview, launching, context, known>>

\* start_log_search, as the text changes, whatever else runs.
Searches ==
    /\ Acting /\ generation # 0 /\ asked < MaxRequests
    /\ asked' = asked + 1
    /\ IF MayStart("search") THEN \E i \in Slots : Starts(i, "search", asked + 1)
                             ELSE UNCHANGED <<ops, late, threads>>
    /\ UNCHANGED <<generation, home, lists, dialog, preview, launching, context,
                   needsRefresh, known>>

\* request_confirmation for an operation of a panel.
Asks ==
    /\ Acting /\ ~Busy /\ generation # 0
    /\ confirm' = "operation" /\ confirmFor' = generation /\ confirmTask' = 0
    /\ UNCHANGED <<generation, home, lists, asked, ops, preview, launching, context,
                   needsRefresh, late, threads, known>>

\* preview_worktree_cleanup
PreviewsListed ==
    /\ Acting /\ ~Busy /\ generation # 0 /\ shown \in {"listed", "missing"}
    /\ Previews(0, shown = "missing")
    /\ UNCHANGED <<generation, home, lists, asked, dialog, launching, context, known>>

\* preview_task_worktree_cleanup: in the task's repository, or once it is opened.
PreviewsTask ==
    /\ Acting /\ ~Busy /\ ~cleaned
    /\ known' = version
    /\ UNCHANGED <<dialog, context>>
    /\ \/ /\ generation \in home /\ StartsCleanup(known, version)
          /\ UNCHANGED <<generation, home, lists, asked, launching>>
       \/ /\ generation \notin home /\ Open(TRUE)
          /\ launch' = "waiting" /\ launchFor' = generation' /\ launchTask' = known
          /\ UNCHANGED <<ops, late, threads>>

\* confirm_pending_operation
Confirms ==
    /\ Acting /\ confirm # "none"
    /\ DropsDialog
    /\ \/ /\ confirmFor = generation
          /\ confirmTask # 0 => Matches(confirmTask, known)
          /\ context' = confirmTask
          /\ \E i \in Slots :
               Starts(i, IF confirm = "cleanup" THEN "removal" ELSE "mutate", 0)
       \/ /\ confirmFor # generation \/ confirmTask # 0    \* which can always fail
          /\ UNCHANGED <<context, ops, late, threads>>
    /\ UNCHANGED <<generation, home, lists, asked, preview, launching, needsRefresh, known>>

\* cancel_pending_confirmation
Cancels ==
    /\ Acting /\ confirm # "none"
    /\ DropsDialog
    /\ UNCHANGED <<generation, home, lists, asked, ops, preview, launching, context,
                   needsRefresh, late, threads, known>>

-----------------------------------------------------------------------------
\* process_pending_ops

Frame ==
    /\ stage = "user" /\ stage' = "poll" /\ visit' = ops
    /\ UNCHANGED <<generation, home, lists, asked, ops, dialog, preview, launching, context,
                   needsRefresh, late, threads, worktree, task>>

Polls(i) ==
    /\ stage = "poll" /\ i \in visit
    /\ visit' = visit \ {i}
    /\ UNCHANGED <<stage, worktree, version>>

\* No result, and no reason to give up.
Waits(i) ==
    /\ Polls(i) /\ worker[i] = "running"
    /\ UNCHANGED <<generation, home, lists, asked, ops, dialog, preview, launching, context,
                   needsRefresh, late, threads, known, cleaned>>

\* Mutated form of GivesUp: the operation is dropped.
GivesUpDropping(i) == late' = late /\ ops' = ops \ {i}

GivesUp(i) == late' = late \cup {i} /\ ops' = ops

\* The watchdog: nothing received, and no progress for too long.
TimesOut(i) ==
    /\ Polls(i) /\ worker[i] \in {"running", "dead"} /\ i \notin late
    /\ GivesUp(i)
    /\ IF kind[i] = "preview" THEN DropsPreview ELSE UNCHANGED preview
    /\ UNCHANGED <<generation, home, lists, asked, dialog, launching, context,
                   needsRefresh, threads, known, cleaned>>

\* finish_task_cleanup_from_result and finish_task_cleanup_with_error
TakesContext(i) == context' = 0

\* A result is received, and the operation taken off the list.
Receives(i, result) ==
    /\ Polls(i) /\ worker[i] = result
    /\ ops' = ops \ {i} /\ late' = late \ {i}
    /\ worker' = [worker EXCEPT ![i] = "none"]
    /\ kind' = [kind EXCEPT ![i] = "mutate"] /\ issued' = [issued EXCEPT ![i] = 0]
    /\ request' = [request EXCEPT ![i] = 0] /\ report' = [report EXCEPT ![i] = "unread"]
    /\ UNCHANGED dialog

\* Mutated form of Awaited: the wrong operation is awaited.
AwaitedAsPreview(i, for) == kind[i] = "preview" /\ launch # "none" /\ launchFor = for

\* A launch waits for this refresh.
Awaited(i, for) == kind[i] = "refresh" /\ launch # "none" /\ launchFor = for

\* record_task_cleanup_completion; the registry may not be writable.
Records(t) ==
    \/ t # 0 /\ version = t /\ cleaned' = TRUE /\ known' = version
    \/ UNCHANGED <<cleaned, known>>

Succeeds(i) ==
    /\ Receives(i, "success")
    /\ needsRefresh' = TRUE
    /\ Records(context) /\ TakesContext(i)
    /\ UNCHANGED <<generation, home, lists, asked, preview, launching>>

Fails(i) ==
    /\ Receives(i, "error")
    /\ IF kind[i] = "preview" THEN DropsPreview ELSE UNCHANGED preview
    /\ IF Awaited(i, IF i \in late THEN issued[i] ELSE generation) THEN DropsLaunch ELSE UNCHANGED launching
    /\ TakesContext(i)
    /\ UNCHANGED <<generation, home, lists, asked, needsRefresh, known, cleaned>>

\* The thread ended without an answer.
Dies(i) ==
    /\ Receives(i, "dead")
    /\ IF kind[i] = "preview" THEN DropsPreview ELSE UNCHANGED preview
    /\ IF Awaited(i, issued[i]) THEN DropsLaunch ELSE UNCHANGED launching
    /\ TakesContext(i)
    /\ UNCHANGED <<generation, home, lists, asked, needsRefresh, known, cleaned>>

\* A diff, or anything else that only shows something.
Views(i) ==
    /\ Receives(i, "view")
    /\ UNCHANGED <<generation, home, lists, asked, preview, launching, context,
                   needsRefresh, known, cleaned>>

\* CloneSuccess opens the clone, unless something else is pending.
Cloned(i) ==
    /\ Receives(i, "clone")
    /\ \/ /\ ops = {i} /\ confirm = "none" /\ cleanup = "none" /\ launch = "none"
          /\ Open(FALSE) /\ DropsLaunch
       \/ UNCHANGED <<generation, home, lists, asked, preview, launching, needsRefresh>>
    /\ UNCHANGED <<context, known, cleaned>>

Newest(i) == request[i] = asked

Searched(i) ==
    /\ Receives(i, "results")
    /\ commits' = IF i \notin late /\ Newest(i) THEN request[i] ELSE commits
    /\ UNCHANGED <<generation, home, shown, shownFor, asked, preview, launching, context,
                   needsRefresh, known, cleaned>>

\* RefreshData, dropped when it comes late or from another repository.
Refreshed(i) ==
    /\ Receives(i, "data")
    /\ IF i \notin late /\ issued[i] = generation
       THEN /\ shown' = report[i] /\ shownFor' = issued[i] /\ commits' = asked
            /\ cleanup' = IF kind[i] = "preview" /\ cleanup # "none" THEN "ready" ELSE cleanup
            /\ launch' = IF Awaited(i, generation) THEN "ready" ELSE launch
            /\ UNCHANGED <<cleanupFor, cleanupTask, cleanupMissing, launchFor, launchTask>>
       ELSE /\ IF i \in late /\ Awaited(i, issued[i]) THEN DropsLaunch ELSE UNCHANGED launching
            /\ IF i \notin late /\ cleanupFor = issued[i] THEN DropsPreview
                                                          ELSE UNCHANGED preview
            /\ UNCHANGED lists
    /\ UNCHANGED <<generation, home, asked, context, needsRefresh, known, cleaned>>

\* The preview asks what it shows: the worktree listed now, and still the one listed
\* when the preview was asked for.
Unchanged ==
    IF cleanupMissing THEN shown = "missing"
                      ELSE shown = "listed" /\ worktree = "listed"

\* Mutated form of Absent: git's list is believed.
AbsentFromList == shown \in {"unread", "absent"}

\* Neither git nor the file system has it any more.
Absent == shown \in {"unread", "absent"} /\ worktree \in {"missing", "absent"}

\* finish_worktree_cleanup_preview, once every operation is polled.
FinishesPreview ==
    /\ stage = "poll" /\ visit = {} /\ stage' = "launch"
    /\ IF cleanup = "ready" /\ ops = {}
       THEN /\ DropsPreview
            /\ \/ /\ cleanupFor = generation /\ Unchanged
                  /\ cleanupTask # 0 => cleanupTask = known /\ ~cleaned
                  /\ confirm = "none" /\ launch = "none"
                  /\ confirm' = "cleanup" /\ confirmFor' = generation
                  /\ confirmTask' = cleanupTask
                  /\ UNCHANGED <<known, cleaned>>
               \/ /\ cleanupFor = generation /\ Absent /\ cleanupTask # 0
                  /\ Matches(cleanupTask, known) /\ Records(cleanupTask)
                  /\ UNCHANGED dialog
               \/ UNCHANGED <<dialog, known, cleaned>>
       ELSE UNCHANGED <<preview, dialog, known, cleaned>>
    /\ UNCHANGED <<generation, home, lists, asked, ops, launching, context, needsRefresh,
                   visit, late, threads, worktree, version>>

LaunchIsReady == launch = "ready" /\ launchFor = generation

\* A task's cleanup goes on once its repository is refreshed.
LaunchesCleanup ==
    /\ stage = "launch" /\ stage' = "refresh"
    /\ IF LaunchIsReady /\ ops = {} /\ confirm = "none"
       THEN DropsLaunch /\ StartsCleanup(launchTask, known)
       ELSE UNCHANGED <<launching, preview, needsRefresh, ops, late, threads>>
    /\ UNCHANGED <<generation, home, lists, asked, dialog, context, visit, worktree, task>>

\* The refresh that was queued.
RefreshesQueued ==
    /\ stage = "refresh" /\ stage' = "user"
    /\ IF needsRefresh /\ ops = {} /\ confirm = "none"
       THEN /\ needsRefresh' = FALSE
            /\ IF MayStart("refresh") THEN \E i \in Slots : Starts(i, "refresh", 0)
                                      ELSE UNCHANGED <<ops, late, threads>>
       ELSE UNCHANGED <<needsRefresh, ops, late, threads>>
    /\ UNCHANGED <<generation, home, lists, asked, dialog, preview, launching, context,
                   visit, worktree, task>>

-----------------------------------------------------------------------------
\* The threads, and everybody else.

window == <<generation, home, shown, shownFor, commits, asked, ops, confirm, confirmFor,
            confirmTask, cleanup, cleanupFor, cleanupTask, cleanupMissing, launch,
            launchFor, launchTask, context, needsRefresh, stage, visit>>

Ends(i, result) ==
    /\ worker[i] = "running"
    /\ worker' = [worker EXCEPT ![i] = result]
    /\ UNCHANGED <<window, kind, issued, late, request, task>>

\* What a listing says of the task's worktree; it may fail.
Lists(i) ==
    IF issued[i] \notin home THEN {"absent"}
    ELSE {"unreadable", IF worktree \in {"listed", "missing"} THEN worktree ELSE "absent"}

\* A refresh, a preview or a search: only the disk is read.
Reads(i) ==
    \/ /\ kind[i] \in {"refresh", "preview"} /\ Ends(i, "data")
       /\ \E l \in Lists(i) : report' = [report EXCEPT ![i] = l]
       /\ UNCHANGED worktree
    \/ /\ kind[i] = "search" /\ Ends(i, "results")
       /\ UNCHANGED <<report, worktree>>
    \/ /\ kind[i] \in {"refresh", "preview", "search"}
       /\ \E result \in {"error", "dead"} : Ends(i, result)
       /\ UNCHANGED <<report, worktree>>

\* Everything else; the network may leave it waiting for ever.
Works(i) ==
    \/ /\ kind[i] = "mutate" /\ \E result \in {"success", "view", "error", "dead"} : Ends(i, result)
       /\ UNCHANGED <<report, worktree>>
    \/ /\ kind[i] = "clone" /\ \E result \in {"clone", "error", "dead"} : Ends(i, result)
       /\ UNCHANGED <<report, worktree>>
    \/ /\ kind[i] = "removal" /\ worktree \in {"listed", "missing"} /\ Ends(i, "success")
       /\ worktree' = "absent" /\ UNCHANGED report
    \/ /\ kind[i] = "removal" /\ \E result \in {"error", "dead"} : Ends(i, result)
       /\ UNCHANGED <<report, worktree>>

\* Directories and metadata are changed by other programs, or by a removal that failed.
ChangesWorktree ==
    /\ \E w \in {"listed", "missing", "absent", "orphan"} \ {worktree} : worktree' = w
    /\ UNCHANGED <<window, late, threads, task>>

\* Another window, or a panel of this one, changes the task's record.
EditsTask ==
    /\ version < MaxVersions /\ version' = version + 1
    /\ UNCHANGED <<window, late, threads, worktree, known, cleaned>>

\* A panel of this window reads the registry anew.
Reloads ==
    /\ stage = "user" /\ known' = version
    /\ UNCHANGED <<window, late, threads, worktree, version, cleaned>>

-----------------------------------------------------------------------------

UserActs ==
    \/ Opens \/ Mutates \/ Clones \/ Refreshes \/ Searches \/ Asks
    \/ PreviewsListed \/ PreviewsTask \/ Confirms \/ Cancels

Visits(i) ==
    \/ Waits(i) \/ TimesOut(i) \/ Succeeds(i) \/ Fails(i) \/ Dies(i)
    \/ Views(i) \/ Cloned(i) \/ Searched(i) \/ Refreshed(i)

Processes ==
    \/ Frame \/ (\E i \in Slots : Visits(i))
    \/ FinishesPreview \/ LaunchesCleanup \/ RefreshesQueued

Elsewhere == ChangesWorktree \/ EditsTask \/ Reloads

Next ==
    \/ UserActs \/ Processes
    \/ (\E i \in Slots : Reads(i) \/ Works(i))
    \/ Elsewhere

Spec == Init /\ [][Next]_vars

\* Frames follow each other (a pending operation asks for the next one), and what only
\* reads the disk ends.  Nothing is assumed of the user or of the network.
FairSpec ==
    /\ Spec /\ WF_vars(Processes)
    /\ \A i \in Slots : WF_vars(Reads(i))

-----------------------------------------------------------------------------
\* The types of the variables.
TypeOK ==
    /\ generation \in 0 .. MaxGenerations /\ home \subseteq 1 .. generation
    /\ shown \in Listings /\ shownFor \in 0 .. generation
    /\ asked \in 0 .. MaxRequests /\ commits \in 0 .. asked
    /\ ops \subseteq Slots /\ visit \subseteq ops /\ late \subseteq Slots
    /\ confirm \in {"none", "operation", "cleanup"} /\ confirmFor \in 0 .. generation
    /\ cleanup \in {"none", "waiting", "ready"} /\ cleanupFor \in 0 .. generation
    /\ cleanupMissing \in BOOLEAN
    /\ launch \in {"none", "waiting", "ready"} /\ launchFor \in 0 .. generation
    /\ version \in 1 .. MaxVersions /\ known \in 1 .. version /\ cleaned \in BOOLEAN
    /\ confirmTask \in 0 .. version /\ cleanupTask \in 0 .. version
    /\ launchTask \in 0 .. version /\ context \in 0 .. version
    /\ needsRefresh \in BOOLEAN /\ stage \in {"user", "poll", "launch", "refresh"}
    /\ worker \in [Slots -> {"none", "running"} \cup Ended]
    /\ kind \in [Slots -> Kinds] /\ issued \in [Slots -> 0 .. generation]
    /\ request \in [Slots -> 0 .. asked] /\ report \in [Slots -> Listings]
    /\ worktree \in {"listed", "missing", "absent", "orphan"}

\* No two operations run at the same time, searches apart, not even when the first
\* timed out and its thread still runs.
OneAtATime ==
    \A i, j \in Slots :
        (/\ worker[i] = "running" /\ kind[i] # "search"
         /\ worker[j] = "running" /\ kind[j] # "search") => i = j

\* Nothing is pending while a confirmation stands, and only a cleanup's confirmation
\* carries a task.
NothingUnderDialog ==
    confirm # "none" => ops = {} /\ (confirmTask # 0 => confirm = "cleanup")

\* Whatever is pending or shown belongs to the repository that is open.
ResultsAreCurrent ==
    /\ \A i \in ops : issued[i] = generation
    /\ shown # "unread" => shownFor = generation

\* What a confirmation was asked about is not replaced behind it.
DialogStaysTrue ==
    [][confirm # "none" /\ confirm' # "none" => UNCHANGED <<generation, shown, shownFor>>]_vars

\* The results of an older search never replace those of a newer one.
SearchesInOrder == [][commits' # 0 => commits' >= commits]_vars

\* The task of a cleanup is remembered exactly while its removal is pending: the end of
\* a later operation can never be taken for the removal's.
ContextHasRemoval == context # 0 => \E i \in ops : kind[i] = "removal"

\* A task is recorded as cleaned up only when a removal succeeded or its directory is
\* gone, and only if it is still the task that was previewed.
CleanedIsGone ==
    [][cleaned' # cleaned =>
         \/ context = version /\ \E i \in ops : kind[i] = "removal" /\ worker[i] = "success"
         \/ cleanupTask = version /\ worktree \in {"missing", "absent"}]_vars

\* A task's cleanup starts from a list that was read since its repository was opened.
LaunchesOnFreshList ==
    [][launch # "none" /\ cleanup' = "waiting" => shownFor = generation]_vars

\* What runs, what is pending and what is shown belong together, whatever times out.
OperationsAreTracked == OneAtATime /\ ContextHasRemoval /\ ResultsAreCurrent

\* No late answer replaces what a dialog was asked about, or what a newer search found.
NothingIsReplaced == DialogStaysTrue /\ SearchesInOrder

\* A cleanup that was asked for comes to its dialog, or ends.
EveryPreviewEnds ==
    launch # "none" \/ cleanup # "none" ~> launch = "none" /\ cleanup = "none"
=============================================================================
