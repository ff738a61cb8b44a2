----------------------------- MODULE OrderStore -----------------------------
(* The order tool's project folder (tool_store.rs) and the saves its windows  *)
(* retain until they know how they ended (tool_studio.rs).                     *)
(*                                                                             *)
(* A project is created whole under another name and renamed into place; each  *)
(* save publishes an immutable snapshot and then switches CURRENT to it.  A    *)
(* save whose end is not known is kept, and repeated only as it was prepared.  *)
(* Windows and the machine fail, and the user moves the folder.                *)
EXTENDS Naturals, SequencesExt

CONSTANTS
    Windows,
    MaxFolders, MaxOperations,  \* bounds on the creations and on the operations
    MaxMoves, MaxLosses         \* bounds on the user's moves and the power losses

Folders == 1 .. MaxFolders
Operations == 1 .. MaxOperations

VARIABLES
    at, atLeft,             \* where each folder is, and where a power loss may leave it
    snapshots, kept,        \* its published snapshots, and those whose entry is synced
    current, currentLeft,   \* the snapshot CURRENT names, and may name after a power loss
    writer,                 \* the window that holds the folder's lock
    pc, store, view,        \* what each window does, its folder, and the snapshot it shows
    pending, base,          \* the operation it retains, and the snapshot it was made from
    issued,                 \* the operation identifiers drawn so far (random, never twice)
    acknowledged,           \* ghost: the operations reported after their sync
    refused,                \* ghost: the saves refused for what the project held
    moves, losses

disk == <<at, atLeft, snapshots, kept, current, currentLeft>>
windows == <<writer, pc, store, view, pending, base, issued>>
ghosts == <<acknowledged, refused>>
bounds == <<moves, losses>>
orderStore == <<disk, windows, ghosts, bounds>>

Nobody == "nobody"
\* A snapshot is the operations it was made by: its creation, then each save.  Its
\* generation is their number, and operation_receipts is their set.
Blank == <<>>
Receipts(snapshot) == ToSet(snapshot)

Init ==
    /\ at = [f \in Folders |-> "nowhere"] /\ atLeft = [f \in Folders |-> {"nowhere"}]
    /\ snapshots = [f \in Folders |-> {}] /\ kept = [f \in Folders |-> {}]
    /\ current = [f \in Folders |-> Blank] /\ currentLeft = [f \in Folders |-> {Blank}]
    /\ writer = [f \in Folders |-> Nobody]
    /\ pc = [w \in Windows |-> "idle"] /\ store = [w \in Windows |-> 0]
    /\ view = [w \in Windows |-> Blank]
    /\ pending = [w \in Windows |-> 0] /\ base = [w \in Windows |-> Blank]
    /\ issued = 0 /\ acknowledged = {} /\ refused = {} /\ moves = 0 /\ losses = 0

Goes(w, to) == pc' = [pc EXCEPT ![w] = to]
\* A process that ends its call, or ends, frees the file lock.
Releases(w) == writer' = [f \in Folders |-> IF writer[f] = w THEN Nobody ELSE writer[f]]

\* install, and invalidate_previews: the window shows a snapshot and retains no save.
Shows(w, folder, snapshot) ==
    /\ store' = [store EXCEPT ![w] = folder] /\ view' = [view EXCEPT ![w] = snapshot]
    /\ pending' = [pending EXCEPT ![w] = 0] /\ base' = [base EXCEPT ![w] = Blank]
    /\ Goes(w, "idle")

\* store_outcome, Rejected: the retained operation is dropped.
Rejected(w, to) ==
    /\ pending' = [pending EXCEPT ![w] = 0] /\ base' = [base EXCEPT ![w] = Blank]
    /\ Goes(w, to) /\ Releases(w)
    /\ UNCHANGED <<store, view>>

\* store_outcome, Failed: an I/O error or a busy lock; the operation is retained.
Failed(w) == Goes(w, "failed") /\ Releases(w) /\ UNCHANGED <<store, view, pending, base>>

\* A new request draws its operation identifier; handle refuses one while another is
\* retained, and answers a repeated one from what is completed.
Requests(w, from, to) ==
    /\ pc[w] = "idle" /\ pending[w] = 0 /\ issued < MaxOperations
    /\ issued' = issued + 1 /\ pending' = [pending EXCEPT ![w] = issued + 1]
    /\ base' = [base EXCEPT ![w] = from] /\ Goes(w, to)
    /\ UNCHANGED <<disk, writer, store, view, ghosts, bounds>>

-----------------------------------------------------------------------------
\* What is at the chosen location.
Here == {f \in Folders : at[f] = "chosen"}

\* load_current_from: CURRENT, the snapshot it names, and what each must hold.  Neither a
\* snapshot nor a receipt ever changes, so the load is one step.
Loads(f) == current[f] \in snapshots[f]

\* open_project_directory: the name still leads to the folder that was opened.
SameDirectory(w) == store[w] \in Here

\* ToolStudio::open.
Open(w) ==
    /\ pc[w] = "idle" /\ pending[w] = 0
    /\ \E f \in Here : Loads(f) /\ Shows(w, f, current[f])
    /\ UNCHANGED <<disk, writer, issued, ghosts, bounds>>

\* clear_project, when the user closes the tool.
Close(w) ==
    /\ pc[w] = "idle" /\ pending[w] = 0 /\ store[w] # 0
    /\ Shows(w, 0, Blank)
    /\ UNCHANGED <<disk, writer, issued, ghosts, bounds>>

-----------------------------------------------------------------------------
CreateProject(w) == store[w] = 0 /\ Requests(w, Blank, "creating")

\* The same request again: retry_create and retry_local, with what was prepared.
Retry(w) ==
    /\ pc[w] = "failed"
    /\ Goes(w, IF base[w] = Blank THEN "creating" ELSE "saving")
    /\ UNCHANGED <<disk, writer, store, view, pending, base, issued, ghosts, bounds>>

\* create_in_pinned_parent: a folder that exists is taken only when this very creation
\* made it.
FindCreated(w) ==
    /\ pc[w] = "creating"
    /\ \E f \in Here :
         \/ /\ pending[w] \in Receipts(current[f]) /\ Shows(w, f, current[f])
            /\ UNCHANGED writer
         \/ pending[w] \notin Receipts(current[f]) /\ Rejected(w, "idle")
    /\ UNCHANGED <<disk, issued, ghosts, bounds>>

\* Everything is staged and synced under a name of its own.
StageProject(w) ==
    /\ pc[w] = "creating" /\ Here = {} /\ Goes(w, "staged")
    /\ UNCHANGED <<disk, writer, store, view, pending, base, issued, ghosts, bounds>>

\* rename_noreplace_at: the project is published whole, over nothing.
PublishProject(w) ==
    /\ pc[w] = "staged" /\ Here = {}
    /\ \E f \in Folders :
         /\ current[f] = Blank /\ \A g \in 1 .. f - 1 : current[g] # Blank
         /\ at' = [at EXCEPT ![f] = "chosen"]
         /\ atLeft' = [atLeft EXCEPT ![f] = {"nowhere", "chosen"}]
         /\ snapshots' = [snapshots EXCEPT ![f] = {<<pending[w]>>}]
         /\ kept' = [kept EXCEPT ![f] = {<<pending[w]>>}]
         /\ current' = [current EXCEPT ![f] = <<pending[w]>>]
         /\ currentLeft' = [currentLeft EXCEPT ![f] = {<<pending[w]>>}]
         /\ store' = [store EXCEPT ![w] = f]
    /\ Goes(w, "published")
    /\ UNCHANGED <<writer, view, pending, base, issued, ghosts, bounds>>

\* The parent is synced, and the folder opened and loaded.
SyncParent(w) ==
    /\ pc[w] = "published"
    /\ atLeft' = [atLeft EXCEPT ![store[w]] = {at[store[w]]}]
    /\ acknowledged' = acknowledged \cup {pending[w]}
    /\ Shows(w, store[w], current[store[w]])
    /\ UNCHANGED <<at, snapshots, kept, current, currentLeft, writer, issued, refused, bounds>>

\* Any step of a creation fails, the rename because a folder appeared among them.
FailCreate(w) ==
    /\ pc[w] \in {"creating", "staged", "published"}
    /\ Goes(w, "failed") /\ store' = [store EXCEPT ![w] = 0]
    /\ UNCHANGED <<disk, writer, view, pending, base, issued, ghosts, bounds>>

\* recover_creation: the user ends the retries; what is there is shown if this creation
\* made it, and otherwise left alone.
RecoverCreation(w) ==
    /\ pc[w] = "failed" /\ base[w] = Blank
    /\ \/ \E f \in Here : pending[w] \in Receipts(current[f]) /\ Shows(w, f, current[f])
       \/ /\ \A f \in Here : pending[w] \notin Receipts(current[f])
          /\ Shows(w, 0, Blank)
    /\ UNCHANGED <<disk, writer, issued, ghosts, bounds>>

-----------------------------------------------------------------------------
\* A record, a configuration or a decision is prepared on what the window shows.
Change(w) == view[w] # Blank /\ Requests(w, view[w], "saving")

Candidate(w) == Append(base[w], pending[w])

\* StoreFileLock::acquire, after a first load; the wait for the lock is bounded.
Acquire(w) ==
    /\ pc[w] = "saving"
    /\ \/ /\ SameDirectory(w) /\ writer[store[w]] = Nobody
          /\ writer' = [writer EXCEPT ![store[w]] = w] /\ Goes(w, "locked")
          /\ UNCHANGED <<store, view, pending, base>>
       \/ SameDirectory(w) /\ writer[store[w]] # Nobody /\ Failed(w)
       \/ ~ SameDirectory(w) /\ Rejected(w, "idle")
    /\ UNCHANGED <<disk, issued, ghosts, bounds>>

Applied(w) == pending[w] \in Receipts(current[store[w]])
\* The generation is checked before what validate_append_only compares.
Extends(w) == Len(base[w]) = Len(current[store[w]]) /\ IsPrefix(current[store[w]], Candidate(w))

\* A save that is already part of the project is answered with the project.
AnswerApplied(w) ==
    /\ pc[w] = "locked" /\ Applied(w)
    /\ Shows(w, store[w], current[store[w]]) /\ Releases(w)
    /\ UNCHANGED <<disk, issued, ghosts, bounds>>

\* GenerationConflict: refused, and the project is read again.
Conflict(w) ==
    /\ pc[w] = "locked" /\ ~ Applied(w) /\ ~ Extends(w)
    /\ Rejected(w, "reloading") /\ refused' = refused \cup {pending[w]}
    /\ UNCHANGED <<disk, issued, acknowledged, bounds>>

\* reload: what could not be read leaves the window as it was, without writing.
Reload(w) ==
    /\ pc[w] = "reloading"
    /\ view' = [view EXCEPT ![w] = IF SameDirectory(w) THEN current[store[w]] ELSE @]
    /\ Goes(w, "idle")
    /\ UNCHANGED <<disk, writer, store, pending, base, issued, ghosts, bounds>>

\* snapshot_file_name: the generation and the operation.
SameName(s, t) == Len(s) = Len(t) /\ Last(s) = Last(t)

\* The snapshot is published under its name; one that is there must be the same.
PublishSnapshot(w) ==
    /\ pc[w] = "locked" /\ ~ Applied(w) /\ Extends(w)
    /\ LET f == store[w] IN
       \/ /\ \A s \in snapshots[f] : SameName(s, Candidate(w)) => s = Candidate(w)
          /\ snapshots' = [snapshots EXCEPT ![f] = @ \cup {Candidate(w)}]
          /\ Goes(w, "renamed") /\ UNCHANGED <<writer, store, view, pending, base>>
       \/ /\ \E s \in snapshots[f] : SameName(s, Candidate(w)) /\ s # Candidate(w)
          /\ Rejected(w, "idle") /\ UNCHANGED snapshots
    /\ UNCHANGED <<at, atLeft, kept, current, currentLeft, issued, ghosts, bounds>>

SyncSnapshots(w) ==
    /\ pc[w] = "renamed" /\ Goes(w, "kept")
    /\ kept' = [kept EXCEPT ![store[w]] = snapshots[store[w]]]
    /\ UNCHANGED <<at, atLeft, snapshots, current, currentLeft, writer, store, view, pending,
                   base, issued, ghosts, bounds>>

\* CURRENT is replaced: every process reads the new snapshot from here on.
SwitchCurrent(w) ==
    /\ pc[w] = "kept" /\ Goes(w, "switched")
    /\ current' = [current EXCEPT ![store[w]] = Candidate(w)]
    /\ currentLeft' = [currentLeft EXCEPT ![store[w]] = @ \cup {Candidate(w)}]
    /\ UNCHANGED <<at, atLeft, snapshots, kept, writer, store, view, pending, base, issued,
                   ghosts, bounds>>

SyncCurrent(w) ==
    /\ pc[w] = "switched"
    /\ currentLeft' = [currentLeft EXCEPT ![store[w]] = {current[store[w]]}]
    /\ acknowledged' = acknowledged \cup {pending[w]}
    /\ Shows(w, store[w], current[store[w]]) /\ Releases(w)
    /\ UNCHANGED <<at, atLeft, snapshots, kept, current, issued, refused, bounds>>

\* Any step of a save fails, a sync after its rename included.
FailSave(w) ==
    /\ pc[w] \in {"saving", "locked", "renamed", "kept", "switched"} /\ Failed(w)
    /\ UNCHANGED <<disk, issued, ghosts, bounds>>

\* reopen_saved: the user ends the retries with a full read; a folder that cannot be
\* read is shown as such, and not written.
ReopenSaved(w) ==
    /\ pc[w] = "failed" /\ base[w] # Blank
    /\ Shows(w, store[w], IF SameDirectory(w) THEN current[store[w]] ELSE Blank)
    /\ UNCHANGED <<disk, writer, issued, ghosts, bounds>>

-----------------------------------------------------------------------------
Forgets(W) ==
    /\ pc' = [w \in Windows |-> IF w \in W THEN "idle" ELSE pc[w]]
    /\ store' = [w \in Windows |-> IF w \in W THEN 0 ELSE store[w]]
    /\ view' = [w \in Windows |-> IF w \in W THEN Blank ELSE view[w]]
    /\ pending' = [w \in Windows |-> IF w \in W THEN 0 ELSE pending[w]]
    /\ base' = [w \in Windows |-> IF w \in W THEN Blank ELSE base[w]]
    /\ writer' = [f \in Folders |-> IF writer[f] \in W THEN Nobody ELSE writer[f]]

Crash(w) ==
    /\ pc[w] # "idle" \/ store[w] # 0
    /\ Forgets({w}) /\ UNCHANGED <<disk, issued, ghosts, bounds>>

\* The machine stops: each directory keeps what was synced, and any part of the rest.
PowerLoss ==
    /\ losses < MaxLosses /\ losses' = losses + 1 /\ Forgets(Windows)
    /\ at' \in {a \in [Folders -> {"nowhere", "chosen", "away"}] :
                  \A f \in Folders : a[f] \in atLeft[f]}
    /\ atLeft' = [f \in Folders |-> {at'[f]}]
    /\ current' \in {c \in [Folders -> UNION {currentLeft[f] : f \in Folders}] :
                       \A f \in Folders : c[f] \in currentLeft[f]}
    /\ currentLeft' = [f \in Folders |-> {current'[f]}]
    /\ snapshots' = kept
    /\ UNCHANGED <<kept, issued, ghosts, moves>>

\* The user moves the folder away or back; not while it is being created.
Move(f) ==
    /\ moves < MaxMoves /\ moves' = moves + 1
    /\ \A w \in Windows : pc[w] # "published"
    /\ \/ at[f] = "chosen" /\ at' = [at EXCEPT ![f] = "away"]
       \/ at[f] = "away" /\ Here = {} /\ at' = [at EXCEPT ![f] = "chosen"]
    /\ atLeft' = [atLeft EXCEPT ![f] = IF "nowhere" \in @ THEN {"nowhere", at'[f]} ELSE {at'[f]}]
    /\ UNCHANGED <<snapshots, kept, current, currentLeft, windows, ghosts, losses>>

Creation(w) ==
    \/ CreateProject(w) \/ FindCreated(w) \/ StageProject(w) \/ PublishProject(w)
    \/ SyncParent(w) \/ FailCreate(w) \/ RecoverCreation(w)

Save(w) ==
    \/ Change(w) \/ Acquire(w) \/ AnswerApplied(w) \/ Conflict(w) \/ Reload(w)
    \/ PublishSnapshot(w) \/ SyncSnapshots(w) \/ SwitchCurrent(w) \/ SyncCurrent(w)
    \/ FailSave(w) \/ ReopenSaved(w)

Next ==
    \/ \E w \in Windows : Open(w) \/ Close(w) \/ Retry(w) \/ Creation(w) \/ Save(w) \/ Crash(w)
    \/ PowerLoss
    \/ \E f \in Folders : Move(f)

Spec == Init /\ [][Next]_orderStore

-----------------------------------------------------------------------------
Snapshots == Seq(Operations)

FoldersOK ==
    /\ at \in [Folders -> {"nowhere", "chosen", "away"}]
    /\ atLeft \in [Folders -> SUBSET {"nowhere", "chosen", "away"}]
    /\ snapshots \in [Folders -> SUBSET Snapshots] /\ kept \in [Folders -> SUBSET Snapshots]
    /\ current \in [Folders -> Snapshots] /\ currentLeft \in [Folders -> SUBSET Snapshots]
    /\ writer \in [Folders -> Windows \cup {Nobody}]
WindowsOK ==
    /\ pc \in [Windows -> {"idle", "creating", "staged", "published", "saving", "locked",
                           "renamed", "kept", "switched", "failed", "reloading"}]
    /\ store \in [Windows -> 0 .. MaxFolders] /\ view \in [Windows -> Snapshots]
    /\ pending \in [Windows -> 0 .. MaxOperations] /\ base \in [Windows -> Snapshots]
    /\ issued \in 0 .. MaxOperations

\* Every variable holds a value of its kind.
TypeOK ==
    /\ FoldersOK /\ WindowsOK
    /\ acknowledged \subseteq Operations /\ refused \subseteq Operations
    /\ moves \in Nat /\ losses \in Nat

\* After a power loss a folder that is there has a CURRENT that names a snapshot.
CurrentIsWhole == \A f \in Folders : currentLeft[f] \ {Blank} \subseteq kept[f]

\* A save that was reported is in the project, and stays there after a power loss unless
\* the folder itself is lost.
ReportedIsKept ==
    \A o \in acknowledged : \E f \in Folders : \A s \in currentLeft[f] : o \in Receipts(s)

\* A save reported as refused by what the project held is in no project, not even one it
\* was tried on before.
RefusedIsNotSaved ==
    \A f \in Folders : refused \cap UNION {Receipts(s) : s \in currentLeft[f]} = {}

\* No operation is applied twice, however often it is repeated.
AppliedOnce == \A f \in Folders : IsInjective(current[f])

\* What a window shows is what its project is or was: two windows never work on
\* diverging histories.
ViewsAgree == \A w \in Windows : view[w] # Blank => IsPrefix(view[w], current[store[w]])

\* The windows of the order tool lose, repeat and invent no save.
OrdersAreKept ==
    CurrentIsWhole /\ ReportedIsKept /\ RefusedIsNotSaved /\ AppliedOnce /\ ViewsAgree

\* What the invariants above rest on.
Creating == {"creating", "staged", "published"}
Locked == {"locked", "renamed", "kept", "switched"}

\* A window retains the operation it works on with the snapshot it was made from, Blank for
\* a creation, which has no folder until it is published.
CallsAreRetained ==
    \A w \in Windows :
        /\ pending[w] = 0 <=> pc[w] \in {"idle", "reloading"}
        /\ pending[w] = 0 => base[w] = Blank
        /\ pc[w] \in Creating => base[w] = Blank
        /\ pc[w] \in Locked \cup {"saving"} => base[w] # Blank
        /\ base[w] # Blank \/ pc[w] \in {"published", "reloading"} => store[w] # 0
        /\ pc[w] \in {"creating", "staged"} \/ (pc[w] = "failed" /\ base[w] = Blank) =>
             store[w] = 0
        /\ store[w] = 0 \/ pc[w] = "published" => view[w] = Blank

LockIsHeld == \A w \in Windows : pc[w] \in Locked => writer[store[w]] = w

\* What CURRENT may name is a past of what it names, and a folder without one is nowhere.
HistoriesGrow ==
    \A f \in Folders :
        /\ current[f] \in currentLeft[f] /\ kept[f] \subseteq snapshots[f]
        /\ at[f] \in atLeft[f]
        /\ current[f] = Blank => atLeft[f] = {"nowhere"}
        /\ \A s \in currentLeft[f] :
             IsPrefix(s, current[f]) /\ (s = Blank => current[f] = Blank)

\* From its publication on, a save's snapshot is the next one of the project as it is.
CandidatesAreNext ==
    \A w \in Windows :
        /\ pc[w] \in {"renamed", "kept"} =>
             current[store[w]] = base[w] /\ ~ Applied(w) /\ Candidate(w) \in snapshots[store[w]]
        /\ pc[w] = "kept" => Candidate(w) \in kept[store[w]]
        /\ pc[w] = "switched" => current[store[w]] = Candidate(w)
        /\ pc[w] = "published" =>
             \A s \in currentLeft[store[w]] : pending[w] \in Receipts(s)

\* An operation is one window's, and a save is tried in one folder only.
OperationsAreOwn ==
    /\ \A w \in Windows : pending[w] <= issued /\ pending[w] \notin refused
    /\ \A v, w \in Windows : pending[v] = pending[w] /\ pending[v] # 0 => v = w
    /\ \A f \in Folders : \A o \in Receipts(current[f]) : o <= issued
    /\ \A o \in refused : o <= issued
    /\ \A w \in Windows, f \in Folders :
         base[w] # Blank /\ pending[w] \in Receipts(current[f]) => f = store[w]

IInv ==
    /\ TypeOK /\ CallsAreRetained /\ LockIsHeld /\ HistoriesGrow /\ CandidatesAreNext
    /\ OperationsAreOwn /\ OrdersAreKept
=============================================================================
