---------------------------- MODULE ProductStore ----------------------------
(***************************************************************************)
(* The on-disk store of one generated tool (src/src/product_store/mod.rs    *)
(* over src/src/product_store/files.rs).                                    *)
(*                                                                         *)
(* A tool is a folder of immutable, content-addressed files and one file   *)
(* CURRENT naming the active snapshot.  Several processes may hold the      *)
(* folder open.  A writer takes the non-blocking lock .write.lock, loads    *)
(* the snapshot CURRENT names, refuses a stale or reused request, writes    *)
(* the successor as a new object and then renames CURRENT.  A rename is     *)
(* visible at once and survives a power loss only after the directory has   *)
(* been synced, so the model keeps the visible directory (files, current),  *)
(* what is known to be on the disk (disk) and the renames between them      *)
(* (unsynced).                                                              *)
(***************************************************************************)
EXTENDS Naturals, FiniteSets, Sequences

CONSTANTS
    Handles,        \* processes holding the folder open, one call each at a time
    Operations,     \* operation and adoption-plan identifiers
    Inputs,         \* digests of the semantic inputs an operation may carry
    Targets,        \* digests of the target program and its intention objects
    Seeds,          \* snapshots a creation or a recovery may start from
    MaxRevision,    \* the largest revision: checked_add refuses the next one
    MaxLosses,      \* bound on the power losses of a behaviour
    OrderedRenames, \* TRUE when the file system persists renames in order
    None            \* "no snapshot", "no job", "no lock holder"

Request == Inputs \cup [target : Targets, revision : 0 .. MaxRevision]

Receipt == [operation : Operations, request : Request, revision : 1 .. MaxRevision]

\* Data, session, programs and decisions are what the receipts computed: the
\* runtime is deterministic, so they add nothing to the receipts' identity.
Snapshot == [revision : 0 .. MaxRevision, receipts : SUBSET Receipt]

\* Every revision after the seed's was produced by one receipt, and an
\* operation has at most one.
Linear(s) ==
    /\ \A r \in s.receipts : r.revision <= s.revision
    /\ \A q, r \in s.receipts :
         q.revision = r.revision \/ q.operation = r.operation => q = r

ASSUME ConstantsAssumption ==
    /\ MaxRevision \in Nat
    /\ MaxLosses \in Nat
    /\ OrderedRenames \in BOOLEAN
    /\ Seeds \subseteq Snapshot
    /\ \A s \in Seeds : Linear(s) /\ \A r \in s.receipts : r.request \in Inputs
    /\ None \notin Snapshot
    /\ None \notin Handles

Object(s)    == [name |-> "object", of |-> s]
Extension(t) == [name |-> "extension", of |-> t]
Pointer(s)   == [name |-> "CURRENT", of |-> s]

File   == [name : {"object"}, of : Snapshot] \cup [name : {"extension"}, of : Targets]
Rename == File \cup [name : {"CURRENT"}, of : Snapshot]

VARIABLES
    made,       \* the tool folder exists
    files,      \* the immutable files a process sees
    current,    \* the snapshot CURRENT names, or None before activation
    disk,       \* the files and the pointer known to survive a power loss
    unsynced,   \* renames since the last directory sync, oldest first
    lock,       \* the handle holding .write.lock
    pc,         \* where each handle is in its call
    job,        \* the call it runs
    view,       \* the snapshot its host last saw: the basis of the next call
    acked,      \* receipts reported to a host as saved (ghost)
    losses      \* power losses so far (bound)

vars == <<made, files, current, disk, unsynced, lock, pc, job, view, acked, losses>>
folder == <<made, files, current, disk, unsynced>>

PC == {"idle", "made", "read", "pointed", "checked", "objectRenamed",
       "ready", "currentRenamed", "extensionRenamed"}

Job == [kind : {"load", "apply", "adopt", "create", "stage"},
        operation : Operations \cup {None},
        request : Request \cup Targets \cup {None},
        basis : Snapshot \cup {None},
        next : Snapshot \cup {None}]

NoJob == [kind |-> "load", operation |-> None, request |-> None,
          basis |-> None, next |-> None]

Init ==
    /\ made = FALSE
    /\ files = {}
    /\ current = None
    /\ disk = [files |-> {}, current |-> None]
    /\ unsynced = <<>>
    /\ lock = None
    /\ pc = [h \in Handles |-> "idle"]
    /\ job = [h \in Handles |-> NoJob]
    /\ view = [h \in Handles |-> None]
    /\ acked = {}
    /\ losses = 0

-----------------------------------------------------------------------------
\* Moving between the steps of a call.

Goto(h, label) == pc' = [pc EXCEPT ![h] = label]

\* Mutated form of Unlocked: a return drops whatever lock is held.
UnlockedByAnyone(h) == None

Unlocked(h) == IF lock = h THEN None ELSE lock

\* WriteLock::drop releases the lock on every return.
Finish(h) ==
    /\ Goto(h, "idle")
    /\ job' = [job EXCEPT ![h] = NoJob]
    /\ lock' = Unlocked(h)

\* Mutated form of Synced: the directory sync is skipped.
NeverSynced == UNCHANGED <<disk, unsynced>>

Synced ==
    /\ disk' = [files |-> files, current |-> current]
    /\ unsynced' = <<>>

\* Directory::publish up to and including its rename; a file already under
\* this immutable name is left alone.
RenameFile(f) ==
    /\ f \notin files
    /\ files' = files \cup {f}
    /\ unsynced' = Append(unsynced, f)
    /\ UNCHANGED <<made, current, disk>>

-----------------------------------------------------------------------------
\* ProductStore::create / create_recovered: a fresh folder, then the lock.  A recovery's
\* before_activate runs under the lock before CURRENT can exist: it checks the destination
\* again and restores the archive of intentions, which this model leaves out, or it refuses
\* (Abort).
MakeFolder(h) ==
    /\ pc[h] = "idle"
    /\ ~ made
    /\ made' = TRUE
    /\ \E s \in Seeds :
         job' = [job EXCEPT ![h] = [NoJob EXCEPT !.kind = "create", !.next = s]]
    /\ Goto(h, "made")
    /\ UNCHANGED <<files, current, disk, unsynced, lock, view, acked, losses>>

\* try_lock never waits: a held lock is an error, left to Abort.
LockFolder(h) ==
    /\ pc[h] = "made"
    /\ lock = None
    /\ lock' = h
    /\ Goto(h, "read")
    /\ UNCHANGED <<folder, job, view, acked, losses>>

\* A read-only load of the saved tool takes no lock.
StartLoad(h) ==
    /\ pc[h] = "idle"
    /\ made
    /\ job' = [job EXCEPT ![h] = NoJob]
    /\ Goto(h, "read")
    /\ UNCHANGED <<folder, lock, view, acked, losses>>

\* apply(expected_revision, operation, input): the expected revision is that
\* of the snapshot the host shows.
StartApply(h) ==
    /\ pc[h] = "idle"
    /\ view[h] # None
    /\ lock = None
    /\ lock' = h
    /\ \E o \in Operations, i \in Inputs :
         job' = [job EXCEPT ![h] = [kind |-> "apply", operation |-> o, request |-> i,
                                    basis |-> view[h], next |-> None]]
    /\ Goto(h, "read")
    /\ UNCHANGED <<folder, view, acked, losses>>

\* adopt(expected_revision, prepared, ..): the plan was rehearsed without the
\* lock on view[h]; its digest covers the target and that basis.
StartAdopt(h) ==
    /\ pc[h] = "idle"
    /\ view[h] # None
    /\ lock = None
    /\ lock' = h
    /\ \E o \in Operations, t \in Targets :
         job' = [job EXCEPT ![h] =
                   [kind |-> "adopt", operation |-> o,
                    request |-> [target |-> t, revision |-> view[h].revision],
                    basis |-> view[h], next |-> None]]
    /\ Goto(h, "read")
    /\ UNCHANGED <<folder, view, acked, losses>>

-----------------------------------------------------------------------------
\* load_current reads CURRENT, then the object it names.  require_unactivated,
\* on behalf of a creation, wants no CURRENT.
ReadPointer(h) ==
    /\ pc[h] = "read"
    /\ IF job[h].kind = "create"
         THEN /\ current = None
              /\ Goto(h, "checked")
              /\ UNCHANGED job
         ELSE /\ current # None
              /\ job' = [job EXCEPT ![h].next = current]
              /\ Goto(h, "pointed")
    /\ UNCHANGED <<folder, lock, view, acked, losses>>

Loaded(h) == pc[h] = "pointed" /\ Object(job[h].next) \in files

\* The end of an unlocked load: the host shows this snapshot from now on.
ReadObject(h) ==
    /\ Loaded(h)
    /\ job[h].kind = "load"
    /\ view' = [view EXCEPT ![h] = job[h].next]
    /\ Finish(h)
    /\ UNCHANGED <<folder, acked, losses>>

Saved(h, s) == \E r \in s.receipts : r.operation = job[h].operation

\* A receipt for the same request answers a retry without running it again.
Replay(h) ==
    /\ Loaded(h)
    /\ job[h].kind \in {"apply", "adopt"}
    /\ \E r \in job[h].next.receipts :
         /\ r.operation = job[h].operation
         /\ r.request = job[h].request
         /\ acked' = acked \cup {[receipt |-> r, by |-> "replay"]}
    /\ view' = [view EXCEPT ![h] = job[h].next]
    /\ Finish(h)
    /\ UNCHANGED <<folder, losses>>

\* Mutated form of Successor: the receipt carries the revision after its own.
SuccessorStamped(s, o, q) ==
    [revision |-> s.revision + 1,
     receipts |-> s.receipts \cup
                    {[operation |-> o, request |-> q, revision |-> s.revision + 2]}]

Successor(s, o, q) ==
    [revision |-> s.revision + 1,
     receipts |-> s.receipts \cup
                    {[operation |-> o, request |-> q, revision |-> s.revision + 1]}]

FreshUnverified(h) ==
    /\ ~ Saved(h, job[h].next)
    /\ job[h].basis.revision = job[h].next.revision

FreshRepeated(h) == job[h].basis.revision = job[h].next.revision

\* The freshness checks of apply_inner and adopt_verified_inner: the caller's
\* revision and, for an adoption, the identities its plan was rehearsed on.
Fresh(h) ==
    /\ ~ Saved(h, job[h].next)
    /\ job[h].basis.revision = job[h].next.revision
    /\ job[h].kind = "adopt" =>
         /\ job[h].basis = job[h].next
         /\ Extension(job[h].request.target) \in files

\* Run the input, or verify the adoption, on the loaded snapshot.
Compute(h) ==
    /\ Loaded(h)
    /\ job[h].kind \in {"apply", "adopt"}
    /\ Fresh(h)
    /\ job[h].next.revision < MaxRevision
    /\ job' = [job EXCEPT ![h].next =
                 Successor(job[h].next, job[h].operation, job[h].request)]
    /\ Goto(h, "checked")
    /\ UNCHANGED <<folder, lock, view, acked, losses>>

-----------------------------------------------------------------------------
\* save: publish the object, sync, publish CURRENT, sync.
PublishObject(h) ==
    /\ pc[h] = "checked"
    /\ RenameFile(Object(job[h].next))
    /\ Goto(h, "objectRenamed")
    /\ UNCHANGED <<lock, job, view, acked, losses>>

SyncObject(h) ==
    /\ pc[h] = "objectRenamed"
    /\ Synced
    /\ Goto(h, "ready")
    /\ UNCHANGED <<made, files, current, lock, job, view, acked, losses>>

\* AlreadyExists: the bytes are compared, nothing is synced.
ReuseObject(h) ==
    /\ pc[h] = "checked"
    /\ Object(job[h].next) \in files
    /\ Goto(h, "ready")
    /\ UNCHANGED <<folder, lock, job, view, acked, losses>>

\* CURRENT is replaced by a save and must be new for a creation.
PublishCurrent(h) ==
    /\ pc[h] = "ready"
    /\ job[h].kind = "create" => current = None
    /\ current' = job[h].next
    /\ unsynced' = Append(unsynced, Pointer(job[h].next))
    /\ Goto(h, "currentRenamed")
    /\ UNCHANGED <<made, files, disk, lock, job, view, acked, losses>>

OwnReceipt(h) == [operation |-> job[h].operation, request |-> job[h].request,
                  revision |-> job[h].next.revision]

\* The sync after the rename, and the return to a host that now shows the
\* snapshot it saved.
SyncCurrent(h) ==
    /\ pc[h] = "currentRenamed"
    /\ Synced
    /\ view' = [view EXCEPT ![h] = job[h].next]
    /\ acked' = IF job[h].kind = "create" THEN acked
                ELSE acked \cup {[receipt |-> OwnReceipt(h), by |-> "save"]}
    /\ Finish(h)
    /\ UNCHANGED <<made, files, current, losses>>

\* stage_extension runs without the lock, and syncs the directory even when
\* another process already renamed the same file.
StageExtension(h) ==
    /\ pc[h] = "idle"
    /\ view[h] # None
    /\ \E t \in Targets :
         /\ job' = [job EXCEPT ![h] = [NoJob EXCEPT !.kind = "stage", !.request = t]]
         /\ \/ RenameFile(Extension(t))
            \/ Extension(t) \in files /\ UNCHANGED folder
    /\ Goto(h, "extensionRenamed")
    /\ UNCHANGED <<lock, view, acked, losses>>

SyncExtension(h) ==
    /\ pc[h] = "extensionRenamed"
    /\ Synced
    /\ Finish(h)
    /\ UNCHANGED <<made, files, current, view, acked, losses>>

-----------------------------------------------------------------------------
\* Any step may return an error: an I/O failure (a directory sync that fails
\* after its rename included), a lost lock, a Conflict, a refused input.  What
\* is on the disk stays there.
Abort(h) ==
    /\ pc[h] # "idle"
    /\ Finish(h)
    /\ UNCHANGED <<folder, view, acked, losses>>

\* The process dies; the operating system drops its lock.
Crash(h) ==
    /\ view[h] # None \/ pc[h] # "idle"
    /\ Finish(h)
    /\ view' = [view EXCEPT ![h] = None]
    /\ UNCHANGED <<folder, acked, losses>>

\* The renames a power loss may keep: any of them, or a prefix of them on a
\* file system that persists a directory's changes in order.
Survivors ==
    {keep \in SUBSET DOMAIN unsynced :
       OrderedRenames => \A i \in keep : 1 .. i \subseteq keep}

FilesAfter(keep) ==
    disk.files \cup ({unsynced[i] : i \in keep} \cap File)

\* The last pointer kept, or the one already on the disk (a singleton).
CurrentAfter(keep) ==
    LET pointers == {i \in keep : unsynced[i].name = "CURRENT"}
    IN  IF pointers = {} THEN {disk.current}
        ELSE {unsynced[i].of : i \in {j \in pointers : \A k \in pointers : k <= j}}

PowerLoss ==
    /\ losses < MaxLosses
    /\ losses' = losses + 1
    /\ \E keep \in Survivors :
         /\ files' = FilesAfter(keep)
         /\ current' \in CurrentAfter(keep)
         /\ disk' = [files |-> files', current |-> current']
    /\ unsynced' = <<>>
    /\ lock' = None
    /\ pc' = [h \in Handles |-> "idle"]
    /\ job' = [h \in Handles |-> NoJob]
    /\ view' = [h \in Handles |-> None]
    /\ UNCHANGED <<made, acked>>

-----------------------------------------------------------------------------
Step(h) ==
    \/ LockFolder(h) \/ ReadPointer(h) \/ ReadObject(h) \/ Replay(h) \/ Compute(h)
    \/ PublishObject(h) \/ SyncObject(h) \/ ReuseObject(h)
    \/ PublishCurrent(h) \/ SyncCurrent(h) \/ SyncExtension(h)

Start(h) ==
    MakeFolder(h) \/ StartLoad(h) \/ StartApply(h) \/ StartAdopt(h) \/ StageExtension(h)

Next ==
    \/ \E h \in Handles : Start(h) \/ Step(h) \/ Abort(h) \/ Crash(h)
    \/ PowerLoss

Spec == Init /\ [][Next]_vars

-----------------------------------------------------------------------------
(***************************************************************************)
(* Properties.                                                             *)
(***************************************************************************)

\* Every variable holds a value of its kind.
TypeOK ==
    /\ made \in BOOLEAN
    /\ files \subseteq File
    /\ current \in Snapshot \cup {None}
    /\ disk \in [files : SUBSET File, current : Snapshot \cup {None}]
    /\ unsynced \in Seq(Rename)
    /\ lock \in Handles \cup {None}
    /\ pc \in [Handles -> PC]
    /\ job \in [Handles -> Job]
    /\ view \in [Handles -> Snapshot \cup {None}]
    /\ acked \subseteq [receipt : Receipt, by : {"save", "replay"}]
    /\ losses \in Nat

\* s is what t's history was at s's revision.
Prefix(s, t) ==
    /\ s.revision <= t.revision
    /\ s.receipts = {r \in t.receipts : r.revision <= s.revision}

\* No two hosts ever work on diverging histories: what each of them shows is
\* an earlier state of the history CURRENT names, whoever saved in between,
\* although loads take no lock and read CURRENT and its object separately.
ViewsArePrefixes ==
    \A h \in Handles : view[h] # None => current # None /\ Prefix(view[h], current)

\* A retried, duplicated or concurrent request runs at most once, and each
\* revision is the work of one operation (no lost update).
AtMostOnce == current # None => Linear(current)

\* A save changes exactly the snapshot its caller saw: one receipt is added
\* to the caller's basis, even for apply, which compares revisions only.
SavesExtendTheBasis ==
    [][current' # current /\ current # None /\ losses' = losses =>
         \E h \in Handles :
            /\ job[h].basis = current
            /\ current' = Successor(current, job[h].operation, job[h].request)]_vars

ReferencesOf(s) ==
    {Extension(r.request.target) : r \in {q \in s.receipts : q.request \notin Inputs}}

\* Whenever the power fails, the CURRENT that is left names an object that is
\* left too, and so are the intention objects its adoptions refer to.
ActivationIsAtomic ==
    \A keep \in Survivors : \A c \in CurrentAfter(keep) :
        c # None => {Object(c)} \cup ReferencesOf(c) \subseteq FilesAfter(keep)

\* A save that was reported after its own directory sync survives any later
\* power loss; one answered from an existing receipt is at least visible.
AcknowledgedIsKept ==
    \A a \in acked :
        /\ a.by = "replay" /\ losses = 0 => current # None /\ a.receipt \in current.receipts
        /\ a.by = "save" =>
             \A keep \in Survivors : \A c \in CurrentAfter(keep) :
                 c # None /\ a.receipt \in c.receipts

\* The pointers a power loss may leave behind.
RecoverablePointers ==
    {disk.current} \cup
    {unsynced[i].of : i \in {j \in DOMAIN unsynced : unsynced[j].name = "CURRENT"}}

Atomic == INSTANCE AtomicStore WITH
    committed   <- current,
    recoverable <- RecoverablePointers,
    confirmed   <- {a.receipt : a \in {b \in acked : b.by = "save"}}

\* Seen from outside, the folder with its locks, objects, renames, failed
\* syncs, crashes and power losses behaves as one atomic store.
ImplementsAtomicStore == Atomic!Spec
=============================================================================
