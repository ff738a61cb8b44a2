---------------------------- MODULE TaskDelivery ----------------------------
(* A task's pull request in one window (task_delivery.rs, app.rs): creating or *)
(* associating it, refreshing its snapshot, and saying whether the snapshot is *)
(* about the task's source as it is.  The source is fingerprinted by a thread  *)
(* under a watcher whose events may be late; a refresh takes the fingerprint   *)
(* it starts with and reads the pull request, the HEAD and the changes of the  *)
(* worktree one after the other.  A fingerprint is of contents: a worktree     *)
(* that is edited and put back has the fingerprint it had.                     *)
EXTENDS Naturals

CONSTANTS
    MaxSource,          \* the worktree has one of the contents 0 .. MaxSource + 1
    MaxEdit             \* bound on the changes of the worktree

Trees == 0 .. MaxSource + 1     \* an even tree is a commit, an odd one has changes to it
Unknown == MaxSource + 2
Clean(v) == v % 2 = 0
Head(v) == v - (v % 2)
Idle == MaxEdit + 1

VARIABLES
    tree,               \* the worktree
    edits, delivered,   \* its changes, and how many of them the watcher has reported
    request,            \* the branch's pull request on the server
    invalidated, fingerprint,   \* TaskPrSourceFingerprintProbe, and its thread, of which
    reader,                     \* is known how many changes there had been as it began
    record,             \* the task's link, saved snapshot and cleanup
    action, worker,     \* TaskPullRequestProbe: the action, and what its thread has read
    snapshot, error     \* the last snapshot, and whether the last refresh failed

probing == <<invalidated, fingerprint, reader>>
acting == <<action, worker>>
answer == <<snapshot, error>>
source == <<tree, edits, delivered>>
delivery == <<source, request, probing, record, acting, answer>>

\* Where a snapshot's thread found the source (ghost): with its fingerprint, elsewhere, or
\* elsewhere with the fingerprint's contents put back since.
NoSnapshot == [url |-> "none", merged |-> FALSE, head |-> Unknown, current |-> FALSE,
               source |-> Unknown, reads |-> "there"]
NoWorker == [pc |-> "none", read |-> NoSnapshot, local |-> Unknown, created |-> FALSE,
             url |-> "none"]
NoRequest == [url |-> "none", head |-> 0, merged |-> FALSE]

Init ==
    /\ tree = 0 /\ edits = 0 /\ delivered = 0 /\ request = NoRequest
    /\ invalidated = TRUE /\ fingerprint = Unknown /\ reader = Idle
    /\ record = [url |-> "none", saved |-> NoSnapshot, cleaned |-> FALSE]
    /\ action = "none" /\ worker = NoWorker
    /\ snapshot = NoSnapshot /\ error = FALSE

-----------------------------------------------------------------------------
\* What the thread may answer: the fingerprint of the worktree, and when it has changed
\* meanwhile of anything, for the parts are read one after the other.
Fingerprints ==
    {Unknown} \cup (IF reader = edits THEN {tree} ELSE Trees)

\* Mutated form of Fingerprinted: the flag is cleared when the answer is taken.
FingerprintedClearing ==
    /\ reader # Idle /\ reader' = Idle
    /\ fingerprint' \in Fingerprints /\ invalidated' = FALSE

\* The thread's fingerprint is taken, unless the source changed during the check or it
\* could not be read.
Fingerprinted ==
    /\ reader # Idle /\ reader' = Idle
    /\ fingerprint' \in IF invalidated THEN {Unknown} ELSE Fingerprints
    /\ UNCHANGED invalidated

\* A check begins: the flag is cleared before the thread reads anything.
BeginsFingerprint ==
    /\ reader = Idle /\ invalidated /\ fingerprint = Unknown
    /\ invalidated' = FALSE /\ reader' = edits
    /\ UNCHANGED fingerprint

\* current_task_pr_source_fingerprint, asked only for a linked task that is not cleaned.
ProbeStep ==
    /\ record.url # "none" /\ ~record.cleaned
    /\ Fingerprinted \/ BeginsFingerprint
    /\ UNCHANGED <<source, request, record, acting, answer>>

CurrentFingerprint ==
    IF record.url = "none" \/ record.cleaned \/ invalidated THEN Unknown ELSE fingerprint

-----------------------------------------------------------------------------
\* start_task_pull_request_action: the thread gets the fingerprint the window has now.
Start(name, url) ==
    /\ action = "none"
    /\ action' = name
    /\ worker' = [NoWorker EXCEPT !.pc = IF name = "Create" THEN "creating" ELSE "fetching",
                                  !.url = url,
                                  !.read = [NoSnapshot EXCEPT !.source = CurrentFingerprint]]
    /\ error' = (error /\ name # "Refresh")
    /\ UNCHANGED <<source, request, probing, record, snapshot>>

\* The interval since the last check may have passed at any time.
Refresh == record.url # "none" /\ Start("Refresh", record.url)
Create == record.url = "none" /\ Start("Create", "none")
Associate ==
    /\ ~record.cleaned /\ ~(record.saved.merged /\ record.saved.url = record.url)
    /\ request.url # "none" /\ Start("Associate", request.url)

\* create_pull_request: the worktree is on its branch, and a remote has its HEAD.  gh may
\* fail before or after the pull request exists, or not print its address.
Creates ==
    /\ worker.pc = "creating"
    /\ \/ /\ request.url = "none"
          /\ request' = [url |-> "a", head |-> Head(tree), merged |-> FALSE]
          /\ \E url \in {"a", "none"} :
               worker' = [worker EXCEPT !.pc = "fetching", !.created = TRUE, !.url = url]
       \/ worker' = [NoWorker EXCEPT !.pc = "failed"] /\ UNCHANGED request
    /\ UNCHANGED <<source, probing, record, action, answer>>

\* fetch_pull_request and parse_pull_request.  Without an address the branch finds it.
Fetches ==
    /\ worker.pc = "fetching"
    /\ \/ worker' = [NoWorker EXCEPT
                        !.pc = "heading",
                        !.read = [worker.read EXCEPT !.url = request.url, !.head = request.head,
                                                     !.merged = request.merged]]
       \/ worker' = [worker EXCEPT !.pc = "failed", !.read = NoSnapshot]
    /\ UNCHANGED <<source, request, probing, record, action, answer>>

Found == IF tree = worker.read.source THEN worker.read.reads ELSE "elsewhere"

\* task_source_freshness: the HEAD is read before the changes.
ReadsHead ==
    /\ worker.pc = "heading"
    /\ worker' = [worker EXCEPT !.pc = "comparing", !.local = Head(tree),
                                !.read = [worker.read EXCEPT !.reads = Found]]
    /\ UNCHANGED <<source, request, probing, record, action, answer>>

IsFresh == Clean(tree) /\ worker.local = worker.read.head

\* The snapshot says Current, or else Stale or Unavailable; then the rest of it only words
\* what is shown.
Answered(read) == worker' = [NoWorker EXCEPT !.pc = "done", !.read = read]
Compares ==
    /\ worker.pc = "comparing"
    /\ \/ IsFresh /\ Answered([worker.read EXCEPT !.current = TRUE, !.reads = Found])
       \/ Answered([NoSnapshot EXCEPT !.url = worker.read.url,
                                      !.merged = worker.read.merged])
    /\ UNCHANGED <<source, request, probing, record, action, answer>>

\* record_pull_request and record_pull_request_snapshot (see TaskRegistry); the registry
\* may be locked or unwritable.
Completed == record.cleaned \/ (record.saved.merged /\ record.saved.url = record.url)
Linked(url) == IF Completed THEN record ELSE [record EXCEPT !.url = url]
Kept(entry, s) == IF entry.url = s.url THEN [entry EXCEPT !.saved = s] ELSE entry

\* process_task_pull_request_action, for a thread that answered with a snapshot.
Succeeds ==
    /\ worker.pc = "done"
    /\ \/ /\ record' \in LET entry == IF action = "Refresh" THEN record
                                      ELSE Linked(worker.read.url)
                         IN  {entry, Kept(entry, worker.read)}
          /\ snapshot' = worker.read /\ error' = FALSE
       \/ action # "Refresh" /\ UNCHANGED <<record, answer>>

\* And for one that failed: a created pull request is linked by its address, or the
\* message has the address, or says that there may be one.
Fails ==
    /\ worker.pc = "failed"
    /\ error' = (error \/ action = "Refresh")
    /\ record' \in {record} \cup
           (IF action = "Create" /\ worker.created /\ worker.url # "none"
            THEN {Linked(worker.url)} ELSE {})
    /\ UNCHANGED snapshot

Process ==
    /\ Succeeds \/ Fails
    /\ action' = "none" /\ worker' = NoWorker
    /\ UNCHANGED <<source, request, probing>>

-----------------------------------------------------------------------------
Restored(s) ==
    IF s.reads = "elsewhere" /\ s.source = tree' THEN [s EXCEPT !.reads = "restored"] ELSE s

\* The worktree is edited, committed or put back.
Edit ==
    /\ edits < MaxEdit /\ edits' = edits + 1
    /\ tree' \in Trees \ {tree}
    /\ snapshot' = Restored(snapshot)
    /\ record' = [record EXCEPT !.saved = Restored(@)]
    /\ worker' = [worker EXCEPT !.read = Restored(@)]
    /\ UNCHANGED <<delivered, request, probing, action, error>>

\* The watcher reports changes some time later, and what was read before counts no more.
Reports ==
    /\ delivered < edits /\ delivered' \in (delivered + 1) .. edits
    /\ invalidated' = TRUE /\ fingerprint' = Unknown
    /\ UNCHANGED <<tree, edits, request, reader, record, acting, answer>>

\* The branch is pushed, or the request is merged, on the server.
Push ==
    /\ request.url # "none" /\ ~request.merged
    /\ \/ request' = [request EXCEPT !.head = Head(tree)]
       \/ request' = [request EXCEPT !.merged = TRUE]
    /\ UNCHANGED <<source, probing, record, acting, answer>>

\* The window ends and is started again: what its threads were doing is forgotten, and the
\* saved snapshot is shown until the first refresh.
Restart ==
    /\ invalidated' = TRUE /\ fingerprint' = Unknown /\ reader' = Idle
    /\ action' = "none" /\ worker' = NoWorker /\ error' = FALSE
    /\ snapshot' = IF record.saved.url = record.url THEN record.saved ELSE NoSnapshot
    /\ UNCHANGED <<source, request, record>>

\* A cleanup is recorded by RepositoryOperations.
Cleaned ==
    /\ record.saved.merged /\ record.saved.url = record.url /\ record.url # "none"
    /\ ~record.cleaned /\ record' = [record EXCEPT !.cleaned = TRUE]
    /\ UNCHANGED <<source, request, probing, acting, answer>>

Next ==
    \/ ProbeStep \/ Refresh \/ Create \/ Associate \/ Creates \/ Fetches \/ ReadsHead
    \/ Compares \/ Process \/ Edit \/ Reports \/ Push \/ Restart \/ Cleaned

Spec == Init /\ [][Next]_delivery

-----------------------------------------------------------------------------
Snapshots ==
    [url : {"a", "none"}, merged : BOOLEAN, head : Trees \cup {Unknown},
     current : BOOLEAN, source : Trees \cup {Unknown},
     reads : {"there", "elsewhere", "restored"}]
Requests == [url : {"a", "none"}, head : Trees, merged : BOOLEAN]
Records == [url : {"a", "none"}, saved : Snapshots, cleaned : BOOLEAN]
Workers ==
    [pc : {"none", "creating", "fetching", "heading", "comparing", "done", "failed"},
     read : Snapshots, local : Trees \cup {Unknown}, created : BOOLEAN, url : {"a", "none"}]

SourcesOK ==
    /\ tree \in Trees /\ edits \in 0 .. MaxEdit /\ delivered \in 0 .. edits
    /\ fingerprint \in Trees \cup {Unknown} /\ reader \in 0 .. edits \cup {Idle}

FlagsOK == invalidated \in BOOLEAN /\ error \in BOOLEAN

RecordsOK ==
    /\ action \in {"none", "Refresh", "Create", "Associate"}
    /\ request \in Requests /\ record \in Records
    /\ worker \in Workers /\ snapshot \in Snapshots

TypeOK == SourcesOK /\ FlagsOK /\ RecordsOK

\* refresh_snapshot_freshness, as the next frame shows it: what says Current still does.
ShownAsCurrent ==
    /\ action = "none" /\ record.url # "none" /\ ~error
    /\ Unknown \notin {snapshot.source, CurrentFingerprint}
    /\ snapshot.source = CurrentFingerprint
    /\ snapshot.current

\* A snapshot shown as current is about the source as it is: once every change has been
\* reported, the worktree is clean and on the commit the pull request had when it was
\* fetched, whatever was edited, committed, put back or pushed while its thread was reading;
\* but for a source that was elsewhere as that thread read it and has been put back since.
CurrentIsCurrent ==
    ShownAsCurrent /\ delivered = edits /\ snapshot.reads # "restored" =>
        Clean(tree) /\ Head(tree) = snapshot.head

\* What it rests on.  A fingerprint that still counts is of the source as it is, unless a
\* change is still to be reported; a snapshot that says Current was compared with the
\* source it was asked for, or elsewhere.
FingerprintsCount ==
    ~invalidated =>
        /\ reader # Idle => delivered <= reader
        /\ fingerprint # Unknown /\ delivered = edits => fingerprint = tree

Compared(s) ==
    /\ s.reads = "elsewhere" => s.source # tree
    /\ s.reads = "there" /\ s.current /\ s.source \in Trees =>
         Clean(s.source) /\ Head(s.source) = s.head

WorkerCompares ==
    /\ worker.pc # "done" => ~worker.read.current
    /\ worker.pc = "comparing" /\ worker.read.reads = "there" =>
         worker.local = Head(worker.read.source)

SnapshotsAreCompared ==
    /\ Compared(snapshot) /\ Compared(record.saved) /\ Compared(worker.read)
    /\ WorkerCompares

IInv == TypeOK /\ FingerprintsCount /\ SnapshotsAreCompared
=============================================================================
