--------------------------- MODULE WorktreeRemoval ---------------------------
(***************************************************************************)
(* One linked worktree from its listing to its removal (src/src/git_ops.rs,  *)
(* with the preview and the dialog of src/src/app.rs).                      *)
(*                                                                         *)
(* The removal runs on a thread of its own, one system call after another,   *)
(* beside editors and git commands that change the same directory, HEAD and *)
(* lock entry.  It may be killed between any two steps.                     *)
(***************************************************************************)
EXTENDS Naturals

CONSTANTS
    Platforms,          \* the builds: "unix", "windows"
    MaxDirectories,     \* bound on the directories ever made at the path
    MaxHead,            \* bound on the commits made in the worktree
    MaxRemovals         \* bound on the removals confirmed

ASSUME ConstantsAssumption ==
    /\ Platforms \subseteq {"unix", "windows"} /\ Platforms # {}
    /\ MaxDirectories \in Nat \ {0} /\ MaxHead \in Nat /\ MaxRemovals \in Nat

Nothing == 0    \* no directory, or no identity read

VARIABLES
    platform,
    \* the file system: a directory is a number, with its .git entry its identity
    path, staging,  \* the directory at the worktree's path, at the staging path
    made,           \* the directories made so far
    linked,         \* those whose .git entry leads to the worktree's metadata
    edited,         \* those that hold work not committed
    \* the worktree's metadata in the repository
    metadata, head,
    refs,           \* HEAD.lock and the branch's lock: who holds them
    lock,           \* the `locked` entry: who made it
    \* the window
    listed,         \* what the list shows: "none", "missing", "unavailable", "identified"
    listedLink,     \* git_link_identity of the listed worktree
    link, seen, force, \* RemoveWorktree's expected_git_link, expected_head, force
    \* the removal's thread
    pc,
    failed,         \* whether errors is not empty
    removed,        \* directory_removed
    owned,          \* whether lock_identity is Some
    held, verified, \* the fallback's path identity, and git_link_was_verified
    attempt,        \* deletions tried
    removals,
    \* ghosts
    deleted,        \* the directories deleted from the staging path
    discarded,      \* those whose work a regular removal deleted
    guarded,        \* the work there was when the `locked` entry was made
    stranded,       \* the directories left under a staging name
    unlocked,       \* whether somebody removed the removal's `locked` entry
    crashed, refused \* whether the thread was killed, a rename back refused

files == <<path, staging, made, linked, edited>>
window == <<listed, listedLink, link, seen, force>>
fallback == <<held, verified, attempt>>
ghosts == <<deleted, discarded, guarded, stranded, unlocked, crashed, refused>>
vars == <<platform, path, staging, made, linked, edited, metadata, head, refs, lock,
          listed, listedLink, link, seen, force, pc, failed, removed, owned, held,
          verified, attempt, removals, deleted, discarded, guarded, stranded, unlocked,
          crashed, refused>>

PC == {"idle", "confirming", "validate", "lockRefs", "inspect", "checkLock", "remove",
       "acquire", "recheck", "rename", "fallback", "guard", "burn", "checkStaged",
       "delete", "restore", "unlock", "missing", "relock", "checkOwner", "checkHead", "prune",
       "finish"}

Init ==
    /\ platform \in Platforms
    /\ path = 1 /\ staging = Nothing /\ made = 1 /\ linked = {1} /\ edited = {}
    /\ metadata = "kept" /\ head = 0 /\ refs = "free" /\ lock = "none"
    /\ listed = "none" /\ listedLink = Nothing
    /\ link = Nothing /\ seen = 0 /\ force = FALSE
    /\ pc = "idle" /\ failed = FALSE /\ removed = FALSE /\ owned = FALSE
    /\ held = Nothing /\ verified = FALSE /\ attempt = 0 /\ removals = 0
    /\ deleted = {} /\ discarded = {} /\ guarded = {} /\ stranded = {}
    /\ unlocked = FALSE /\ crashed = FALSE /\ refused = FALSE

Registered(d) == d # Nothing /\ d \in linked

-----------------------------------------------------------------------------
\* The window: the list, the preview and the dialog.

\* worktrees(): the list shown.
List ==
    /\ pc = "idle" /\ metadata = "kept"
    /\ listed' = IF path = Nothing THEN "missing"
                 ELSE IF Registered(path) THEN "identified" ELSE "unavailable"
    /\ listedLink' = IF Registered(path) THEN path ELSE Nothing
    /\ UNCHANGED <<platform, files, metadata, head, refs, lock, link, seen, force, pc,
                   failed, removed, owned, fallback, removals, ghosts>>

\* A preview lists the worktree anew, compares it with what was listed and asks.
Preview(requested) ==
    /\ pc = "idle" /\ metadata = "kept" /\ removals < MaxRemovals
    /\ \/ listed = "missing" /\ path = Nothing
       \/ listed = "identified" /\ Registered(path) /\ path = listedLink
    /\ link' = listedLink /\ seen' = head
    /\ force' = (requested \/ (path # Nothing /\ path \in edited) \/ lock # "none")
    /\ pc' = "confirming"
    /\ UNCHANGED <<platform, files, metadata, head, refs, lock, listed, listedLink,
                   failed, removed, owned, fallback, removals, ghosts>>

Dismiss ==
    /\ pc = "confirming" /\ pc' = "idle"
    /\ UNCHANGED <<platform, files, metadata, head, refs, lock, window, failed, removed,
                   owned, fallback, removals, ghosts>>

Confirm ==
    /\ pc = "confirming" /\ pc' = "validate"
    /\ removals' = removals + 1
    /\ failed' = FALSE /\ removed' = FALSE /\ owned' = FALSE /\ attempt' = 0
    /\ verified' = FALSE /\ held' = Nothing
    /\ guarded' = {} /\ unlocked' = FALSE
    /\ UNCHANGED <<platform, files, metadata, head, refs, lock, window, deleted,
                   discarded, stranded, crashed, refused>>

-----------------------------------------------------------------------------
\* remove_worktree_with_identity, one call at a time.

\* An early return, or the end of the directory's removal with an error.
Fail(to) == pc' = to /\ failed' = TRUE

\* The checks made before anything is locked.
Validate ==
    /\ pc = "validate"
    /\ IF /\ metadata = "kept"
          /\ path # Nothing => path = link /\ Registered(path)
       THEN pc' = "lockRefs" /\ UNCHANGED failed
       ELSE Fail("finish")
    /\ UNCHANGED <<platform, files, metadata, head, refs, lock, window, removed, owned,
                   fallback, removals, ghosts>>

LocksRefs == refs' = "removal"

\* The transaction on HEAD and its branch, and the comparison under it.
LockRefs ==
    /\ pc = "lockRefs"
    /\ IF refs = "free" /\ metadata = "kept"
       THEN /\ LocksRefs
            /\ IF head = seen THEN pc' = "inspect" /\ UNCHANGED failed
                              ELSE Fail("finish")
       ELSE Fail("finish") /\ UNCHANGED refs
    /\ UNCHANGED <<platform, files, metadata, head, lock, window, removed, owned,
                   fallback, removals, ghosts>>

\* A regular removal looks for work not committed; the status may be unreadable.
Inspect ==
    /\ pc = "inspect"
    /\ IF force \/ path = Nothing THEN pc' = "checkLock" /\ UNCHANGED failed
       ELSE \/ Registered(path) /\ path \notin edited /\ pc' = "checkLock" /\ UNCHANGED failed
            \/ Fail("finish")
    /\ UNCHANGED <<platform, files, metadata, head, refs, lock, window, removed, owned,
                   fallback, removals, ghosts>>

CheckLock ==
    /\ pc = "checkLock"
    /\ IF force \/ lock = "none" THEN pc' = "remove" /\ UNCHANGED failed
                                 ELSE Fail("finish")
    /\ UNCHANGED <<platform, files, metadata, head, refs, lock, window, removed, owned,
                   fallback, removals, ghosts>>

\* remove_worktree_directory's checks, unless the directory is gone.
Remove ==
    /\ pc = "remove"
    /\ \/ /\ path = Nothing
          /\ pc' = "missing" /\ UNCHANGED <<failed, removed>>
       \/ /\ path # Nothing /\ link # Nothing /\ path = link /\ Registered(path)
          /\ pc' = IF force THEN "rename" ELSE "acquire"
          /\ UNCHANGED <<failed, removed>>
       \/ /\ path # Nothing /\ ~(path = link /\ Registered(path))
          /\ Fail("finish") /\ UNCHANGED removed
    /\ UNCHANGED <<platform, files, metadata, head, refs, lock, window, owned, fallback,
                   removals, ghosts>>

\* create_new(true)
Locks == metadata = "kept" /\ lock = "none" /\ lock' = "removal"

\* acquire_worktree_lock; what it could not finish writing stays.
TakesLock(to, otherwise) ==
    \/ /\ Locks /\ guarded' = edited
       /\ \/ pc' = to /\ owned' = TRUE /\ UNCHANGED <<failed, refused>>
          \/ Fail(otherwise) /\ refused' = TRUE /\ UNCHANGED owned
       /\ UNCHANGED <<deleted, discarded, stranded, unlocked, crashed>>
    \/ /\ Fail(otherwise)
       /\ UNCHANGED <<lock, owned, ghosts>>

Acquire ==
    /\ pc = "acquire" /\ TakesLock("recheck", "finish")
    /\ UNCHANGED <<platform, files, metadata, head, refs, window, removed, fallback, removals>>

\* An error once the entry is made goes through its removal.
Undo == Fail(IF owned THEN "unlock" ELSE "finish")

\* Mutated form of Clean: the first look is trusted.
CleanBefore == TRUE

Clean == Registered(path) /\ path \notin edited

Recheck ==
    /\ pc = "recheck"
    /\ \/ Clean /\ pc' = "rename" /\ UNCHANGED failed
       \/ Undo
    /\ UNCHANGED <<platform, files, metadata, head, refs, lock, window, removed, owned,
                   fallback, removals, ghosts>>

\* The rename to an unused staging path, and what follows a refusal.
Rename ==
    /\ pc = "rename"
    /\ \/ /\ path # Nothing /\ staging = Nothing
          /\ staging' = path /\ path' = Nothing /\ pc' = "checkStaged"
          /\ UNCHANGED failed
       \/ /\ UNCHANGED <<path, staging>>
          /\ IF force \/ platform = "windows" THEN pc' = "fallback" /\ UNCHANGED failed
                                              ELSE Undo
    /\ UNCHANGED <<platform, made, linked, edited, metadata, head, refs, lock, window,
                   removed, owned, fallback, removals, ghosts>>

\* force_remove_worktree_directory_fallback, where the directory stands.
Fallback ==
    /\ pc = "fallback"
    /\ held' = path
    /\ IF path = Nothing THEN Undo ELSE pc' = "guard" /\ UNCHANGED failed
    /\ UNCHANGED <<platform, files, metadata, head, refs, lock, window, removed, owned,
                   verified, attempt, removals, ghosts>>

Succeeds == removed' = TRUE /\ pc' = "checkOwner" /\ UNCHANGED failed

\* Mutated form of MayTry: one attempt too many.
MayTryOnceMore == attempt <= 2

MayTry == attempt < 2

\* worktree_fallback_identity_guard
Guarded == path = held /\ IF path \in linked THEN path = link ELSE verified

Guard ==
    /\ pc = "guard"
    /\ \/ path = Nothing /\ Succeeds /\ UNCHANGED verified
       \/ /\ path # Nothing /\ Guarded /\ MayTry
          /\ verified' = TRUE /\ pc' = "burn" /\ UNCHANGED <<failed, removed>>
       \/ /\ path # Nothing /\ (~MayTry \/ ~Guarded)
          /\ Undo /\ UNCHANGED <<removed, verified>>
    /\ UNCHANGED <<platform, files, metadata, head, refs, lock, window, owned, held,
                   attempt, removals, ghosts>>

\* What a deletion of d may leave: nothing, or d without some of its files.
Gone(d) == linked' = linked \ {d} /\ edited' = edited \ {d}
Torn(d) == linked' \in {linked, linked \ {d}} /\ edited' = edited

Discards(d) == discarded' = IF ~force /\ d \in edited THEN discarded \cup {d} ELSE discarded

Burn ==
    /\ pc = "burn" /\ attempt' = attempt + 1
    /\ \/ path # Nothing /\ Gone(path) /\ path' = Nothing /\ Discards(path)
       \/ path # Nothing /\ Torn(path) /\ UNCHANGED <<path, discarded>>
       \/ path = Nothing /\ UNCHANGED <<path, linked, edited, discarded>>
    /\ pc' = "guard"
    /\ UNCHANGED <<platform, staging, made, metadata, head, refs, lock, window, failed,
                   removed, owned, held, verified, removals, deleted, guarded, stranded,
                   unlocked, crashed, refused>>

\* Mutated form of StagedMatches: what was renamed is taken for what was checked.
StagedIsPresent == staging # Nothing

\* staged_worktree_link_matches
StagedMatches == staging = link /\ staging \in linked

\* Mutated form of CheckStaged: the entry is removed before the rename back.
CheckStagedUnlocking ==
    /\ pc = "checkStaged"
    /\ IF StagedMatches THEN pc' = "delete" /\ UNCHANGED <<failed, lock>>
       ELSE Fail("restore") /\ lock' = IF lock = "removal" THEN "none" ELSE lock
    /\ UNCHANGED <<platform, files, metadata, head, refs, window, removed, owned,
                   fallback, removals, ghosts>>

CheckStaged ==
    /\ pc = "checkStaged"
    /\ IF StagedMatches THEN pc' = "delete" /\ UNCHANGED failed ELSE Fail("restore")
    /\ UNCHANGED <<platform, files, metadata, head, refs, lock, window, removed, owned,
                   fallback, removals, ghosts>>

\* remove_dir_checked, and force_remove_dir_checked with its second attempt.
Delete ==
    /\ pc = "delete" /\ attempt' = attempt + 1
    /\ \/ /\ StagedMatches
          /\ Gone(staging) /\ staging' = Nothing /\ Discards(staging)
          /\ deleted' = deleted \cup {staging}
          /\ Succeeds
       \/ /\ StagedMatches /\ Torn(staging)
          /\ IF force /\ attempt = 0 THEN pc' = "delete" /\ UNCHANGED failed
                                     ELSE Fail("restore")
          /\ UNCHANGED <<staging, removed, deleted, discarded>>
       \/ /\ ~StagedMatches /\ Fail("restore")
          /\ UNCHANGED <<staging, linked, edited, removed, deleted, discarded>>
    /\ UNCHANGED <<platform, path, made, metadata, head, refs, lock, window, owned, held,
                   verified, removals, guarded, stranded, unlocked, crashed, refused>>

\* The rename back, refused where something has taken the path.
Restore ==
    /\ pc = "restore"
    /\ \/ path = Nothing /\ path' = staging /\ staging' = Nothing /\ UNCHANGED refused
       \/ refused' = TRUE /\ UNCHANGED <<path, staging>>
    /\ Undo
    /\ UNCHANGED <<platform, made, linked, edited, metadata, head, refs, lock, window,
                   removed, owned, fallback, removals, deleted, discarded, guarded,
                   stranded, unlocked, crashed>>

\* unlock_worktree_if_owned
Unlock ==
    /\ pc = "unlock" /\ pc' = "finish"
    /\ \/ lock = "removal" /\ lock' = "none" /\ UNCHANGED refused
       \/ lock = "removal" /\ refused' = TRUE /\ UNCHANGED lock
       \/ lock # "removal" /\ UNCHANGED <<lock, refused>>
    /\ owned' = FALSE
    /\ UNCHANGED <<platform, files, metadata, head, refs, window, failed, removed,
                   fallback, removals, deleted, discarded, guarded, stranded, unlocked,
                   crashed>>

\* A directory that was missing from the list must be missing still.
Missing ==
    /\ pc = "missing"
    /\ \/ /\ link = Nothing => path = Nothing
          /\ removed' = TRUE
          /\ pc' = IF force THEN "checkOwner" ELSE "relock"
          /\ UNCHANGED failed
       \/ link = Nothing /\ path # Nothing /\ Fail("finish") /\ UNCHANGED removed
    /\ UNCHANGED <<platform, files, metadata, head, refs, lock, window, owned, fallback,
                   removals, ghosts>>

\* A regular removal of a missing directory locks the worktree before it prunes.
Relock ==
    /\ pc = "relock" /\ TakesLock("checkOwner", "finish")
    /\ UNCHANGED <<platform, files, metadata, head, refs, window, removed, fallback, removals>>

\* lock_owned
CheckOwner ==
    /\ pc = "checkOwner"
    /\ IF owned /\ lock # "removal" THEN Fail("finish") ELSE pc' = "checkHead" /\ UNCHANGED failed
    /\ UNCHANGED <<platform, files, metadata, head, refs, lock, window, removed, owned,
                   fallback, removals, ghosts>>

\* head_matches; HEAD may be unreadable.  Windows needs the transaction dropped here.
CheckHead ==
    /\ pc = "checkHead"
    /\ refs' = IF platform = "windows" /\ refs = "removal" THEN "free" ELSE refs
    /\ \/ metadata = "kept" /\ head = seen /\ pc' = "prune" /\ UNCHANGED <<failed, refused>>
       \/ Fail("finish") /\ refused' = TRUE
    /\ UNCHANGED <<platform, files, metadata, head, lock, window, removed, owned,
                   fallback, removals, deleted, discarded, guarded, stranded, unlocked,
                   crashed>>

\* wt.prune, or the removal of the metadata when it refuses.
Prune ==
    /\ pc = "prune" /\ pc' = "finish"
    /\ \/ metadata' = "pruned" /\ lock' = "none" /\ UNCHANGED <<failed, refused>>
       \/ /\ failed' = TRUE /\ refused' = TRUE /\ UNCHANGED metadata
          /\ \/ UNCHANGED lock
             \/ owned /\ lock = "removal" /\ lock' = "none"
    /\ UNCHANGED <<platform, files, head, refs, window, removed, owned, fallback,
                   removals, deleted, discarded, guarded, stranded, unlocked,
                   crashed>>

\* The next removal takes another staging name.
LeavesStaged == staging' = Nothing /\ stranded' = stranded \cup ({staging} \ {Nothing})

\* The transaction is dropped with the thread's stack; an entry still there stays.
Finish ==
    /\ pc = "finish" /\ pc' = "idle"
    /\ \/ UNCHANGED failed
       \/ path # Nothing /\ failed' = TRUE    \* it has content again
    /\ refs' = IF refs = "removal" THEN "free" ELSE refs
    /\ lock' = IF lock = "removal" THEN "left" ELSE lock
    /\ LeavesStaged
    /\ UNCHANGED <<platform, path, made, linked, edited, metadata, head, window, removed,
                   owned, fallback, removals, deleted, discarded, guarded, unlocked,
                   crashed, refused>>

-----------------------------------------------------------------------------
\* Everybody else: editors, git commands, the operating system.

others == <<platform, window, pc, failed, removed, owned, fallback, removals>>

\* An editor may hold files of a directory that was renamed.
Edit(d) ==
    /\ d \in {path, staging} \ {Nothing} /\ d \notin edited
    /\ edited' = edited \cup {d}
    /\ UNCHANGED <<others, path, staging, made, linked, metadata, head, refs, lock, ghosts>>

\* A commit in the worktree, or a move of its branch from elsewhere.
MoveHead ==
    /\ metadata = "kept" /\ refs = "free" /\ head < MaxHead
    /\ head' = head + 1
    /\ \/ UNCHANGED edited
       \/ Registered(path) /\ edited' = edited \ {path}
    /\ UNCHANGED <<others, path, staging, made, linked, metadata, refs, lock, ghosts>>

DeleteElsewhere ==
    /\ path # Nothing /\ path' = Nothing /\ Gone(path)
    /\ UNCHANGED <<others, staging, made, metadata, head, refs, lock, ghosts>>

\* A directory at the path: a copy of the worktree, or one that is not a worktree.
Create(copied) ==
    /\ path = Nothing /\ made < MaxDirectories
    /\ made' = made + 1 /\ path' = made'
    /\ linked' = IF copied THEN linked \cup {made'} ELSE linked
    /\ UNCHANGED <<others, staging, edited, metadata, head, refs, lock, ghosts>>

\* git worktree lock, unlock and prune
LockElsewhere ==
    /\ metadata = "kept" /\ lock = "none" /\ lock' = "user"
    /\ UNCHANGED <<others, files, metadata, head, refs, ghosts>>

UnlockElsewhere ==
    /\ metadata = "kept" /\ lock # "none" /\ lock' = "none"
    /\ unlocked' = (unlocked \/ lock = "removal")
    /\ UNCHANGED <<others, files, metadata, head, refs, deleted, discarded, guarded,
                   stranded, crashed, refused>>

PruneElsewhere ==
    /\ metadata = "kept" /\ lock = "none" /\ path = Nothing
    /\ metadata' = "pruned"
    /\ UNCHANGED <<others, files, head, refs, lock, ghosts>>

\* Somebody deletes the lock files that a killed removal left.
ClearRefs ==
    /\ refs = "left" /\ refs' = "free"
    /\ UNCHANGED <<others, files, metadata, head, lock, ghosts>>

Crash ==
    /\ pc # "idle" /\ pc' = "idle" /\ crashed' = TRUE
    /\ refs' = IF refs = "removal" THEN "left" ELSE refs
    /\ lock' = IF lock = "removal" THEN "left" ELSE lock
    /\ listed' = "none" /\ LeavesStaged
    /\ UNCHANGED <<platform, path, made, linked, edited, metadata, head, listedLink, link,
                   seen, force, failed, removed, owned, fallback, removals, deleted,
                   discarded, guarded, unlocked, refused>>

-----------------------------------------------------------------------------

Asks == List \/ (\E requested \in BOOLEAN : Preview(requested)) \/ Dismiss \/ Confirm

Removal ==
    \/ Validate \/ LockRefs \/ Inspect \/ CheckLock \/ Remove \/ Acquire \/ Recheck
    \/ Rename \/ Fallback \/ Guard \/ Burn \/ CheckStaged \/ Delete \/ Restore
    \/ Unlock \/ Missing \/ Relock \/ CheckOwner \/ CheckHead \/ Prune \/ Finish

Elsewhere ==
    \/ \E d \in 1 .. MaxDirectories : Edit(d)
    \/ MoveHead \/ DeleteElsewhere
    \/ \E copied \in BOOLEAN : Create(copied)
    \/ LockElsewhere \/ UnlockElsewhere \/ PruneElsewhere \/ ClearRefs \/ Crash

Next == Asks \/ Removal \/ Elsewhere

Spec == Init /\ [][Next]_vars

-----------------------------------------------------------------------------
\* A directory is one of those made, and holds work or a link only so.
DirectoriesOK ==
    /\ made \in Nat /\ path \in 0 .. made /\ staging \in 0 .. made /\ held \in 0 .. made
    /\ listedLink \in 0 .. made /\ link \in 0 .. made
    /\ linked \subseteq 1 .. made /\ edited \subseteq 1 .. made
    /\ deleted \subseteq 1 .. made /\ discarded \subseteq 1 .. made
    /\ guarded \subseteq 1 .. made /\ stranded \subseteq 1 .. made

FlagsOK ==
    /\ force \in BOOLEAN /\ failed \in BOOLEAN /\ removed \in BOOLEAN /\ owned \in BOOLEAN
    /\ verified \in BOOLEAN /\ unlocked \in BOOLEAN /\ crashed \in BOOLEAN
    /\ refused \in BOOLEAN

\* The types of the variables.
TypeOK ==
    /\ platform \in Platforms
    /\ DirectoriesOK /\ FlagsOK
    /\ metadata \in {"kept", "pruned"} /\ head \in Nat /\ seen \in Nat
    /\ refs \in {"free", "removal", "left"}
    /\ lock \in {"none", "user", "removal", "left"}
    /\ listed \in {"none", "missing", "unavailable", "identified"}
    /\ pc \in PC /\ attempt \in 0 .. 2 /\ removals \in Nat

\* What is deleted from the staging path is the very directory whose identity was
\* listed, previewed and confirmed, whatever took its place in between.
OnlyPreviewedIsDeleted ==
    [][deleted' # deleted => deleted' = deleted \cup {link}]_vars

\* Metadata is pruned only at the commit the dialog showed: a commit made since the
\* preview keeps its worktree, and none can be made before the prune.  (A Windows
\* build gives the locks on HEAD and its branch back just before it prunes.)
PrunedAsShown ==
    [][pc = "prune" /\ metadata' # metadata /\ platform # "windows" => head = seen]_vars

Destroys ==
    \/ deleted' # deleted
    \/ pc = "burn" /\ path' # path
    \/ pc = "prune" /\ metadata' # metadata

\* A regular removal destroys nothing while anybody else's lock stands, whenever that
\* lock was made, as long as nobody removed its own.
LocksAreRespected == [][Destroys /\ ~force /\ ~unlocked => lock = "removal"]_vars

\* Work that was there when a regular removal took its lock is never deleted by it.
GuardedWorkIsKept == discarded \cap guarded = {}

\* A removal that was neither killed nor refused a restoring call leaves no directory
\* under its staging name and no `locked` entry of its own.
FailureRestores ==
    pc = "idle" /\ ~crashed /\ ~refused => stranded = {} /\ lock # "left"

\* A directory a regular removal puts back is still a worktree of the repository:
\* its metadata could not be pruned while the path was empty.
RestoredIsRegistered ==
    [][pc = "restore" /\ path' # path /\ owned /\ ~unlocked => metadata = "kept"]_vars

\* What a regular removal finds is deleted whole and for good, or is back as it was.
WorkIsKept == GuardedWorkIsKept /\ FailureRestores

\* What is destroyed is what the dialog showed, at the commit it showed.
RemovesAsShown == OnlyPreviewedIsDeleted /\ PrunedAsShown

\* Nothing is destroyed, and nothing put back, but under the removal's own lock.
OwnLockOnly == LocksAreRespected /\ RestoredIsRegistered

\* "Regular removal must not discard uncommitted work."
UncommittedIsKept == discarded = {}
=============================================================================
