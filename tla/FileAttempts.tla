---------------------------- MODULE FileAttempts ----------------------------
(* Saving outputs and backups outside the tool, and recovering a separate copy *)
(* (product_studio/local_files_*, product_export.rs): the attempt is written   *)
(* to the restart record before anything is written at the destination, and is *)
(* taken from it when the outcome is certain or the user has reviewed it.      *)
EXTENDS Naturals

CONSTANTS
    Destinations,       \* where the user lets files be saved
    MaxAttempts,        \* bound on the attempts
    MaxBasis,           \* bound on the tool's saved revisions
    MaxLosses           \* bound on the restarts and power losses

Attempts == 1 .. MaxAttempts
Bases == 1 .. MaxBasis
\* What is at a destination: nothing, a file of the user's, or the bytes of one revision.
Nothing == 0
Others == MaxBasis + 1
Contents == 0 .. Others

VARIABLES
    record, recordLeft,     \* session.json, and what a power loss may leave of it
    value, blocked,         \* the host's own copy, and whether its writes are paused
    file, fileLeft,         \* the destinations, and what a power loss may leave there
    tool,                   \* the tool's saved revision, which other hosts move on
    page,                   \* the page of the panel that is open
    held,                   \* where the copy on offer would go, if one is
    pc, kind,               \* what the worker does: an output, a backup or a recovery
    operation, basis, destination,
    gate,                   \* 0 open, 1 committed, 2 cancelled, 3 finished
    status,                 \* the outcome the worker has found
    report,                 \* the last report shown: its attempt and what it says
    unresolved,             \* ghost: attempts with an effect nobody has confirmed
    reconciled,             \* ghost: the interrupted save was resolved
    losses

journal == <<record, recordLeft, value, blocked>>
files == <<file, fileLeft>>
panel == <<page, held>>
work == <<kind, operation, basis, destination>>
ghosts == <<unresolved, reconciled>>
fileAttempts ==
    <<journal, files, tool, panel, pc, work, gate, status, report, ghosts, losses>>

\* The parts of the record this is about: the file attempt (0: none), the interrupted save,
\* and the hand-over of that save to a recovered copy.
Records == [attempt : {0} \cup Attempts, pending : BOOLEAN, handed : BOOLEAN]
NoReport == [operation |-> 0, status |-> "none"]

Init ==
    /\ value \in {r \in Records : r.attempt = 0 /\ ~ r.handed}
    /\ record = value /\ recordLeft = {value} /\ blocked = FALSE
    /\ file \in [Destinations -> {Nothing, Others}]
    /\ fileLeft = [d \in Destinations |-> {file[d]}]
    /\ tool = 1 /\ page = "home" /\ held = {} /\ pc = "home" /\ kind = "output"
    /\ operation = 0 /\ basis = 1
    /\ destination \in Destinations /\ gate = 0 /\ status = "none" /\ report = NoReport
    /\ unresolved = {} /\ reconciled = ~ value.pending /\ losses = 0

\* JournalFile::write: an error leaves the host's copy as it was, and blocks later writes.
Written(new) ==
    /\ ~ blocked /\ record' = new /\ recordLeft' = {new} /\ value' = new
    /\ UNCHANGED blocked
WriteFails(new) ==
    /\ record' \in IF blocked THEN {record} ELSE {record, new}
    /\ recordLeft' = recordLeft \cup {record'} /\ blocked' = TRUE
    /\ UNCHANGED value

\* The host is at rest again, with the report it shows.
Rests == pc' = "home" /\ gate' = 0 /\ status' = "none"
Opens(p, copy) == page' = p /\ held' = copy
Shows(what) == report' = [operation |-> operation, status |-> what]

-----------------------------------------------------------------------------
\* files: the saved outputs, as the page shows them, of one revision.
Files ==
    /\ pc = "home" /\ page = "home" /\ Opens("inventory", {})
    /\ basis' = tool /\ report' = NoReport
    /\ UNCHANGED <<journal, files, tool, pc, kind, operation, destination>>
    /\ UNCHANGED <<gate, status, ghosts, losses>>

\* A page about a copy that could be made at d.
Offers(p, d) ==
    /\ Opens(p, d) /\ report' = NoReport /\ basis' = tool
    /\ UNCHANGED <<journal, files, tool, pc, kind, operation, destination>>
    /\ UNCHANGED <<gate, status, ghosts, losses>>
\* choose_import: a backup was read, and a fresh place chosen for its copy.
ChooseImport(d) == pc = "home" /\ page # "import" /\ Offers("import", {d})
\* diagnose_file: the saved work is checked; there may be a verified checkpoint to recover.
Diagnose(d) ==
    /\ pc = "home" /\ page = "home" /\ \A e, f \in d : e = f
    /\ Offers("diagnosis", d)
\* review_recovery
ReviewRecovery == pc = "home" /\ page = "diagnosis" /\ held # {} /\ Offers("import", held)
\* recovery_location
RecoveryLocation(d) == pc = "home" /\ page = "import" /\ held # {d} /\ Offers("import", {d})
\* files_back
FilesBack ==
    /\ pc = "home" /\ page # "home" /\ Opens("home", {}) /\ report' = NoReport
    /\ UNCHANGED <<journal, files, tool, pc, work, gate, status, ghosts, losses>>

\* no_file_attempt: no earlier attempt is open.
NoFileAttempt == value.attempt = 0

\* The user's selection of a destination comes back.
Begin(k, d) ==
    /\ pc = "home" /\ operation < MaxAttempts /\ NoFileAttempt
    /\ pc' = "selected" /\ kind' = k /\ operation' = operation + 1 /\ destination' = d
    /\ report' = NoReport
    /\ UNCHANGED <<journal, files, tool, panel, basis, gate, status, ghosts, losses>>
\* inventory_origin: the page still shows the tool's revision.
InventoryOrigin == page = "inventory" /\ tool = basis
ExportFile(d) == InventoryOrigin /\ Begin("output", d)
BackupFile(d) == InventoryOrigin /\ Begin("backup", d)
\* recovery_selection: what is recovered, and where, is what the page shows.
RecoverySelection(d) == page = "import" /\ held = {d} /\ tool = basis
RecoverFile(d) == RecoverySelection(d) /\ Begin("recovery", d)

\* before_file, and the page's check again: cancelled or changed, nothing is begun.
GivesUp ==
    /\ pc = "selected" /\ (gate = 2 \/ tool # basis) /\ Rests /\ Shows("not attempted")
    /\ UNCHANGED <<journal, files, tool, panel, work, ghosts, losses>>

\* stage_file: the attempt with its exact destination is recorded first.
Stages ==
    /\ pc = "selected" /\ gate # 2
    /\ LET new == [value EXCEPT !.attempt = operation] IN
       \/ Written(new) /\ pc' = "staged" /\ UNCHANGED <<gate, status, report>>
       \/ WriteFails(new) /\ Rests /\ Shows("failed")
    /\ UNCHANGED <<files, tool, panel, work, ghosts, losses>>

\* The gate decides between this effect and a cancellation, which takes the attempt back.
Commits ==
    /\ pc = "staged"
    /\ IF gate = 0
       THEN pc' = "committed" /\ gate' = 1 /\ UNCHANGED <<journal, status, report>>
       ELSE LET new == [value EXCEPT !.attempt = 0] IN
            /\ Written(new) \/ WriteFails(new)
            /\ Rests /\ Shows("not attempted")
    /\ UNCHANGED <<files, tool, panel, work, ghosts, losses>>

\* publish: the last check of the revision; the copy of a recovery has none to check.
Checks ==
    /\ pc = "committed"
    /\ \/ /\ kind = "recovery" \/ tool = basis
          /\ pc' = "writing" /\ UNCHANGED status
          /\ unresolved' = unresolved \cup {operation}
       \/ pc' = "deciding" /\ status' = "not attempted" /\ UNCHANGED unresolved
    /\ UNCHANGED <<journal, files, tool, panel, work, gate, report, reconciled, losses>>

\* write_new, create_recovered: a fresh name only, and its readback.  An error can follow
\* the rename.
Publishes ==
    /\ pc = "writing" /\ pc' = "deciding"
    /\ LET d == destination IN
       \/ /\ file[d] = Nothing /\ file' = [file EXCEPT ![d] = basis]
          /\ \/ fileLeft' = [fileLeft EXCEPT ![d] = {basis}]
                /\ status' \in {"verified", "unverified"}
             \/ fileLeft' = [fileLeft EXCEPT ![d] = @ \cup {basis}] /\ status' = "uncertain"
       \/ status' = "uncertain" /\ UNCHANGED files
    /\ UNCHANGED <<journal, tool, panel, work, gate, report, ghosts, losses>>

\* Mutated form of Definitive: a file that was written needs no review.
DefinitiveWhenWritten == status \in {"not attempted", "verified", "unverified"}

\* file_effect_finished: a certain outcome takes the attempt from the record.
Definitive == status \in {"not attempted", "verified"}
Finishes ==
    /\ pc = "deciding" /\ Rests /\ Opens("report", {})
    /\ unresolved' = IF status \in {"not attempted", "verified"}
                     THEN unresolved \ {operation} ELSE unresolved
    /\ IF Definitive
       THEN LET new == [value EXCEPT !.attempt = 0] IN
            \/ Written(new) /\ Shows(status)
            \/ WriteFails(new) /\ Shows("failed")
       ELSE Shows(status) /\ UNCHANGED journal
    /\ UNCHANGED <<files, tool, work, reconciled, losses>>

-----------------------------------------------------------------------------
\* acknowledge_file: the user has looked at the destination.
Acknowledge ==
    /\ pc = "home" /\ value.attempt # 0
    /\ LET new == [value EXCEPT !.attempt = 0] IN
       \/ Written(new) /\ unresolved' = unresolved \ {value.attempt}
       \/ WriteFails(new) /\ unresolved' = unresolved \ {value.attempt}
    /\ report' = NoReport
    /\ UNCHANGED <<files, tool, panel, pc, work, gate, status, reconciled, losses>>

\* reconcile (see StudioSession): the interrupted save is resolved.
Reconcile ==
    /\ pc = "home" /\ value.pending
    /\ \/ Written([value EXCEPT !.pending = FALSE])
       \/ WriteFails([value EXCEPT !.pending = FALSE])
    /\ reconciled' = TRUE
    /\ UNCHANGED <<files, tool, panel, pc, work, gate, status, report, unresolved, losses>>

\* open_recovered: the verified copy becomes the current tool; an interrupted save of the
\* original goes into the record of the hand-over in the same write.
OpenRecovered ==
    /\ pc = "home" /\ report.status = "verified" /\ kind = "recovery"
    /\ LET new == [value EXCEPT !.pending = FALSE, !.handed = @ \/ value.pending] IN
       Written(new) \/ WriteFails(new)
    /\ report' = NoReport /\ Opens("home", {})
    /\ UNCHANGED <<files, tool, pc, work, gate, status, ghosts, losses>>

-----------------------------------------------------------------------------
\* Gate::cancel
Cancel ==
    /\ pc # "home" /\ gate = 0 /\ gate' = 2
    /\ UNCHANGED <<journal, files, tool, panel, pc, work, status, report, ghosts, losses>>

\* Another host saves the tool.
OtherSaves ==
    /\ tool < MaxBasis /\ tool' = tool + 1
    /\ UNCHANGED <<journal, files, panel, pc, work, gate, status, report, ghosts, losses>>

\* The program or the machine stops; the next start reopens the record and syncs it.
Restart ==
    /\ losses < MaxLosses /\ losses' = losses + 1
    /\ \/ record' = record /\ UNCHANGED files
       \/ /\ record' \in recordLeft
          /\ file' \in [Destinations -> Contents]
          /\ \A d \in Destinations : file'[d] \in fileLeft[d]
          /\ fileLeft' = [d \in Destinations |-> {file'[d]}]
    /\ recordLeft' = {record'} /\ value' = record' /\ blocked' = FALSE
    /\ Rests /\ Opens("home", {}) /\ report' = NoReport
    /\ UNCHANGED <<tool, work, ghosts>>

Next ==
    \/ Files \/ ReviewRecovery \/ FilesBack
    \/ \E d \in Destinations :
          \/ ChooseImport(d) \/ RecoveryLocation(d)
          \/ ExportFile(d) \/ BackupFile(d) \/ RecoverFile(d)
    \/ \E d \in SUBSET Destinations : Diagnose(d)
    \/ GivesUp \/ Stages \/ Commits \/ Checks \/ Publishes \/ Finishes
    \/ Acknowledge \/ Reconcile \/ OpenRecovered \/ Cancel \/ OtherSaves \/ Restart

Spec == Init /\ [][Next]_fileAttempts

-----------------------------------------------------------------------------
Outcomes == {"none", "not attempted", "verified", "unverified", "uncertain", "failed"}
RecordOK == {record, value} \cup recordLeft \subseteq Records /\ blocked \in BOOLEAN
FilesOK ==
    /\ file \in [Destinations -> Contents] /\ fileLeft \in [Destinations -> SUBSET Contents]
    /\ \A d \in Destinations : file[d] \in fileLeft[d]
StepsOK ==
    /\ pc \in {"home", "selected", "staged", "committed", "writing", "deciding"}
    /\ page \in {"home", "inventory", "import", "diagnosis", "report"}
    /\ held \subseteq Destinations /\ kind \in {"output", "backup", "recovery"}
    /\ destination \in Destinations /\ status \in Outcomes
    /\ report \in [operation : {0} \cup Attempts, status : Outcomes]
CountsOK ==
    /\ tool \in Bases /\ basis \in Bases /\ operation \in {0} \cup Attempts
    /\ gate \in 0 .. 3 /\ unresolved \subseteq Attempts /\ losses \in 0 .. MaxLosses

TypeOK == RecordOK /\ FilesOK /\ StepsOK /\ CountsOK /\ reconciled \in BOOLEAN

\* A file that may have been written is in the restart record, whatever stops and wherever
\* the power fails, until its outcome is certain or the user has reviewed it; so it is
\* never written a second time before that.
EffectsAreRecorded ==
    \A attempt \in unresolved : \A left \in recordLeft : left.attempt = attempt

\* What the user is told of a file is so: a verified file is there and lasts, with the
\* bytes of the revision it was taken from, and no other file was replaced.
ReportsAreTrue ==
    /\ report.status = "verified" => fileLeft[destination] = {basis}
    /\ report.status = "not attempted" => operation \notin unresolved

\* An interrupted save of the original tool is not lost when a recovered copy is opened.
PendingIsKept ==
    \A left \in recordLeft : reconciled \/ left.pending \/ left.handed

FileAttemptsAreKept == EffectsAreRecorded /\ ReportsAreTrue /\ PendingIsKept

\* Why: the host's copy may always be what lasts; an attempt begins on a record without one,
\* is all that lasts of the record from its staging on, and is not reported before its end.
CopyMayLast == {record, value} \subseteq recordLeft
AttemptsAreStaged ==
    /\ pc = "selected" => value.attempt = 0
    /\ pc \in {"staged", "committed", "writing", "deciding"} =>
         ~ blocked /\ recordLeft = {value} /\ value.attempt = operation
    /\ pc \in {"selected", "staged", "committed"} => operation \notin unresolved
    /\ pc # "home" => operation # 0 /\ report = NoReport
    /\ pc = "deciding" /\ status = "verified" => fileLeft[destination] = {basis}

IInv ==
    /\ TypeOK /\ CopyMayLast /\ AttemptsAreStaged
    /\ EffectsAreRecorded /\ ReportsAreTrue /\ PendingIsKept
=============================================================================
