---------------------------- MODULE StudioJournal ----------------------------
(***************************************************************************)
(* Saves of the generated-tool host across failures and restarts: the       *)
(* worker's save handlers, its restart record (RestartRecord) and the tool's *)
(* own store (src/src/product_studio/worker.rs, journal.rs).                *)
(*                                                                         *)
(* A save is written to the restart record before it is committed and is    *)
(* taken off it when its outcome is known from the store.  A write of the     *)
(* record may fail, so may the sync of a save that was published, the host    *)
(* may crash between any two steps and the power may be lost.  After a        *)
(* restart the record is only inspected; the user retries, checks or sets     *)
(* aside what is unfinished.                                                *)
(***************************************************************************)
EXTENDS Naturals, RestartRecord

CONSTANTS
    Kinds,          \* the kinds of save the user may ask for
    MaxOperations,  \* bound on the saves of a behaviour
    MaxRevision,    \* bound on the snapshots made of the open tool
    MaxBoots,       \* bound on the restarts of the host
    MaxCommands     \* bound on the checks and set-asides of a behaviour

ASSUME ConstantsAssumption ==
    /\ Kinds \subseteq {"create", "daily", "change"}
    /\ MaxOperations \in Nat /\ MaxRevision \in Nat
    /\ MaxBoots \in Nat /\ MaxCommands \in Nat

None == 0
Operations == 1 .. MaxOperations
Pending == {None} \cup Operations

VARIABLES
    \* the tool's store
    revision,   \* the open tool's snapshot (tools are not told apart)
    receipts,   \* the saved operations, by their receipts or their activation
    made,       \* the number of snapshots made so far, which names the next
    left,       \* what a power loss may leave of the two
    doubted,    \* the saves published whose sync failed (ghost)
    \* the host
    opened,     \* the snapshot on the page, None when no tool is open
    pc, command, operation, gate, committed, answer,
    \* the saves asked for
    issued,     \* operation n is the nth
    kind, basis,
    told,       \* what the user was last told of each operation (ghost)
    launched,   \* the operations handed to the store (ghost)
    known,      \* those whose outcome was read back or set aside (ghost)
    boots, tries

store == <<revision, receipts, made, left, doubted>>
asked == <<issued, kind, basis>>
run == <<command, operation>>
ghosts == <<told, launched, known>>
bounds == <<boots, tries>>
vars == <<disk, lasting, value, blocked, revision, receipts, made, left, doubted,
          opened, pc, command, operation, gate, committed, answer, issued, kind,
          basis, told, launched, known, boots, tries>>

Answers == {"unresolved", "saved", "unsaved"}
PC == {"down", "idle", "recording", "checking", "committing", "applying",
       "verifying", "settling", "answering"}

Init ==
    /\ disk = None /\ lasting = {None}
    /\ revision = 1 /\ receipts = {} /\ made = 1
    /\ left = {[revision |-> 1, receipts |-> {}]} /\ doubted = {}
    /\ value = None /\ blocked = FALSE
    /\ opened = None
    /\ pc = "down" /\ command = "boot" /\ operation = None
    /\ gate = "open" /\ committed = FALSE /\ answer = "unresolved"
    /\ issued = 0
    /\ kind = [o \in Operations |-> "daily"]
    /\ basis = [o \in Operations |-> None]
    /\ told = [o \in Operations |-> "nothing"]
    /\ launched = {} /\ known = {}
    /\ boots = 0 /\ tries = 0

\* No command runs.
Done ==
    /\ command' = "boot" /\ operation' = None
    /\ gate' = "open" /\ committed' = FALSE /\ answer' = "unresolved"

Goes(to) == pc' = to /\ UNCHANGED answer
Ends(a) == pc' = "answering" /\ answer' = a

-----------------------------------------------------------------------------
\* Commands.

\* no_pending(), and handle()'s refusal after an unresolved write.
NoPending == ~ blocked /\ value = None

\* A fresh operation identifier.
NewOperation == issued < MaxOperations /\ issued' = issued + 1

\* The user saves: a draft as a new tool, an input, or an approved change.
Click(k) ==
    /\ pc = "idle"
    /\ NewOperation
    /\ NoPending
    /\ k # "create" => opened # None
    /\ kind' = [kind EXCEPT ![issued + 1] = k]
    /\ basis' = [basis EXCEPT ![issued + 1] = opened]
    /\ pc' = "recording" /\ command' = "save" /\ operation' = issued + 1
    /\ gate' = "open" /\ committed' = FALSE
    /\ UNCHANGED <<files, store, opened, answer, ghosts, bounds>>

\* Any check before the record is written may refuse the save.
Refuse ==
    /\ pc = "recording"
    /\ Ends("unsaved")
    /\ UNCHANGED <<files, store, opened, run, gate, committed, asked, ghosts, bounds>>

\* The tool on disk is still the one on the page.
Current(o) == kind[o] = "create" \/ revision = basis[o]

\* daily(), save(), commit_change(): the association is recorded as unfinished.
Record ==
    /\ pc = "recording" /\ Current(operation)
    /\ \/ Written(operation) /\ Goes("committing")
       \/ RefusedWrite /\ Ends("unsaved")
       \/ UnresolvedWrite(operation) /\ Ends("unresolved")
    /\ UNCHANGED <<store, opened, run, gate, committed, asked, ghosts, bounds>>

\* commit_change(): the date or the evidence changed meanwhile.
Stale ==
    /\ pc = "committing" /\ command = "save" /\ kind[operation] = "change"
    /\ pc' = "settling" /\ answer' = "unsaved"
    /\ UNCHANGED <<files, store, opened, run, gate, committed, asked, ghosts, bounds>>

\* Cancel, while the command's gate is open.
Cancel ==
    /\ pc \notin {"down", "idle"} /\ gate = "open"
    /\ gate' = "cancelled"
    /\ UNCHANGED <<files, store, opened, pc, run, committed, answer, asked, ghosts,
                   bounds>>

\* What a command does once it has the gate: save and retry go to the store.
Authorized ==
    IF command = "aside"
    THEN /\ pc' = "settling" /\ answer' = "unsaved"
         /\ known' = known \cup {operation}
         /\ UNCHANGED launched
    ELSE /\ Goes("applying")
         /\ launched' = launched \cup {operation}
         /\ known' = known \ {operation}

\* gate.commit().  A save that lost it takes its record back; what was
\* unfinished before stays recorded.
Commit ==
    /\ pc = "committing"
    /\ IF gate = "open"
       THEN gate' = "committed" /\ Authorized
       ELSE /\ IF command = "save" THEN pc' = "settling" /\ answer' = "unsaved"
                                   ELSE Ends("unresolved")
            /\ UNCHANGED <<gate, launched, known>>
    /\ UNCHANGED <<files, store, opened, run, committed, asked, told, bounds>>

\* A snapshot is published with the receipts rs, by a rename and a directory
\* sync.  A sync that fails leaves it in place, to be read as it is, and what was
\* there before to a power loss: everything, or the creations lost with it.
Published(rs) ==
    LET new == {[revision |-> made + 1, receipts |-> s.receipts \cup rs] : s \in left} IN
    /\ made < MaxRevision
    /\ made' = made + 1 /\ revision' = made + 1 /\ receipts' = receipts \cup rs
    /\ \/ left' = new /\ doubted' = doubted \ rs
       \/ left' = left \cup new /\ doubted' = doubted \cup (rs \ receipts)

\* A new tool is activated, in the same two ways.
Created(o) ==
    LET new == {[s EXCEPT !.receipts = @ \cup {o}] : s \in left} IN
    /\ receipts' = receipts \cup {o}
    /\ \/ left' = new /\ doubted' = doubted \ {o}
       \/ left' = left \cup new /\ doubted' = doubted \cup {o}
    /\ UNCHANGED <<revision, made>>

\* The receipts of the open tool's snapshots.
Daily == {o \in receipts : kind[o] # "create"}

\* ProductStore's apply, adopt or create: one commit, or none.
Apply ==
    /\ pc = "applying"
    /\ Goes("verifying")
    /\ \/ UNCHANGED store
       \/ /\ operation \notin receipts
          /\ IF kind[operation] = "create"
             THEN Created(operation)
             ELSE revision = basis[operation] /\ Published(Daily \cup {operation})
    /\ UNCHANGED <<files, opened, run, gate, committed, asked, ghosts, bounds>>

\* The same tool is saved by another host or window.
SaveElsewhere ==
    /\ Published(Daily)
    /\ UNCHANGED <<files, opened, pc, run, gate, committed, answer, asked, ghosts,
                   bounds>>

-----------------------------------------------------------------------------
\* Outcomes.

Settles(a) ==
    /\ pc' = "settling" /\ answer' = a
    /\ known' = known \cup {operation}

\* The folder or its objects could not be read: nothing is concluded.
Unreadable ==
    /\ Ends("unresolved")
    /\ UNCHANGED <<opened, committed, known>>

\* Mutated form of Found: the page counts the save that was read back once more.
FoundCountedTwice ==
    /\ operation \in receipts
    /\ committed' = TRUE
    /\ opened' = IF kind[operation] = "change" THEN opened ELSE revision + 1
    /\ \/ Settles("saved")
       \/ /\ kind[operation] # "change"
          /\ Ends("saved")
          /\ known' = known \cup {operation}

\* A receipt, or the activation of the new tool.  The page of a create or a daily
\* save may still fail, which leaves its record for a later check.
Found ==
    /\ operation \in receipts
    /\ committed' = TRUE
    /\ opened' = IF kind[operation] = "change" THEN opened ELSE revision
    /\ \/ Settles("saved")
       \/ /\ kind[operation] # "change"
          /\ Ends("saved")
          /\ known' = known \cup {operation}

\* No receipt.  A create stays open; so does a retry on a tool that moved on.
Missing ==
    /\ operation \notin receipts
    /\ IF kind[operation] = "create" \/ (command = "retry" /\ ~ Current(operation))
       THEN Ends("unresolved") /\ UNCHANGED known
       ELSE Settles("unsaved")
    /\ UNCHANGED <<opened, committed>>

\* daily(), save(), commit_change(), reconcile(): the tool is opened again.
Verify ==
    /\ pc = "verifying"
    /\ Unreadable \/ Found \/ Missing
    /\ UNCHANGED <<files, store, run, gate, asked, told, launched, bounds>>

\* A change is taken off the record before its page is shown, which may fail.
Installs ==
    \/ UNCHANGED opened
    \/ committed /\ kind[operation] = "change" /\ opened' = revision

\* journal(pending = None), with the retained input or the set-aside location.
\* What was found saved is reported saved, whatever becomes of the record.
Settle ==
    /\ pc = "settling"
    /\ \/ Written(None) /\ Ends(answer) /\ Installs
       \/ /\ RefusedWrite \/ UnresolvedWrite(None)
          /\ Ends(IF committed THEN "saved" ELSE "unresolved")
          /\ UNCHANGED opened
    /\ UNCHANGED <<store, run, gate, committed, asked, ghosts, bounds>>

\* Mutated form of Tells: the cancellation of a retry is taken for the save's.
TellsCancelled ==
    IF gate = "cancelled" /\ ~ committed THEN "unsaved" ELSE answer

\* run(): a cancelled command that committed nothing says so; of a save that was
\* already unfinished this says nothing.
Tells ==
    IF gate = "cancelled" /\ ~ committed
    THEN IF command = "save" THEN "unsaved" ELSE "unresolved"
    ELSE answer

\* The completion.  Remembering the tool as the last one opened is a write too.
Answer ==
    /\ pc = "answering"
    /\ pc' = "idle"
    /\ told' = [told EXCEPT ![operation] = Tells]
    /\ UNCHANGED blocked \/ blocked' = TRUE
    /\ Done
    /\ UNCHANGED <<disk, lasting, value, store, opened, asked, launched, known, bounds>>

-----------------------------------------------------------------------------
\* What is unfinished.

\* Reconcile, or setting aside, chosen by the user.
Resume(c) ==
    /\ pc = "idle" /\ ~ blocked /\ value # None
    /\ tries < MaxCommands
    /\ c = "aside" => kind[value] # "change"
    /\ tries' = tries + 1
    /\ pc' = "checking" /\ command' = c /\ operation' = value
    /\ gate' = "open" /\ committed' = FALSE
    /\ told' = [told EXCEPT ![value] = "nothing"]
    /\ UNCHANGED <<files, store, opened, answer, asked, launched, known, boots>>

\* Setting aside a create asks only whether it was activated.
Activated ==
    /\ command = "aside" /\ kind[operation] = "create"
    /\ operation \in receipts
    /\ Ends("unresolved")
    /\ UNCHANGED <<opened, committed, known>>

\* Without a receipt, a daily save goes on to its gate if the user retries it on
\* an unchanged tool or sets it aside, and a create if the user sets it aside.
MayProceed ==
    /\ operation \notin receipts
    /\ \/ command = "aside"
       \/ command = "retry" /\ kind[operation] = "daily" /\ Current(operation)

\* No receipt, nothing to do: a change is forgotten on a retry, the rest kept.
Inspected ==
    /\ operation \notin receipts /\ ~ MayProceed
    /\ IF command = "retry" /\ kind[operation] = "change"
       THEN Settles("unsaved")
       ELSE Ends("unresolved") /\ UNCHANGED known
    /\ UNCHANGED <<opened, committed>>

\* reconcile(), abandon_daily(), abandon_creation().
Check ==
    /\ pc = "checking"
    /\ \/ Unreadable
       \/ Activated
       \/ ~ (command = "aside" /\ kind[operation] = "create") /\ Found
       \/ Inspected
       \/ MayProceed /\ Goes("committing") /\ UNCHANGED <<opened, committed, known>>
    /\ UNCHANGED <<files, store, run, gate, asked, told, launched, bounds>>

\* Open, and the last tool at boot: the page shows the saved revision.
Open ==
    /\ pc = "idle" /\ opened # revision
    /\ opened' = revision
    /\ UNCHANGED blocked \/ blocked' = TRUE
    /\ UNCHANGED <<disk, lasting, value, store, pc, run, gate, committed, answer,
                   asked, ghosts, bounds>>

\* No host runs.
Forgotten ==
    /\ value' = None /\ blocked' = FALSE
    /\ opened' = None
    /\ pc' = "down"
    /\ Done

\* A power loss takes what was not synced, of the record and of the store.
PowerLoss ==
    /\ Kept
    /\ \E s \in left :
         /\ revision' = s.revision /\ receipts' = s.receipts
         /\ left' = {s} /\ doubted' = doubted \ s.receipts
    /\ UNCHANGED made

\* The host ends, or the power is lost; its memory is gone.
Crash ==
    /\ UNCHANGED <<disk, lasting, store>> \/ PowerLoss
    /\ Forgotten
    /\ UNCHANGED <<asked, ghosts, bounds>>

\* boot(): a recorded save is only inspected.  A boot that fails leaves the host
\* without a record and every write refused, as if it were down.
Boot ==
    /\ pc = "down" /\ boots < MaxBoots
    /\ boots' = boots + 1
    /\ Reopened
    /\ blocked' = FALSE
    /\ opened' = None
    /\ command' = "boot" /\ operation' = disk /\ gate' = "committed" /\ committed' = FALSE
    /\ pc' = IF disk = None THEN "idle" ELSE "checking"
    /\ UNCHANGED <<store, answer, asked, ghosts, tries>>

Next ==
    \/ \E k \in Kinds : Click(k)
    \/ Refuse \/ Record \/ Stale \/ Cancel \/ Commit \/ Apply \/ Verify \/ Settle
    \/ Answer \/ Check \/ Open \/ SaveElsewhere \/ Crash \/ Boot
    \/ \E c \in {"retry", "aside"} : Resume(c)

Spec == Init /\ [][Next]_vars

-----------------------------------------------------------------------------
\* Every variable keeps its type; the page and every save start from a snapshot
\* that was made.
TypeOK ==
    /\ disk \in Pending /\ lasting \in SUBSET Pending
    /\ made \in Nat /\ revision \in 1 .. made /\ receipts \in SUBSET Operations
    /\ left \in SUBSET [revision : 1 .. made, receipts : SUBSET Operations]
    /\ doubted \in SUBSET Operations
    /\ value \in Pending /\ blocked \in BOOLEAN
    /\ opened \in 0 .. made
    /\ pc \in PC /\ command \in {"boot", "save", "retry", "aside"}
    /\ operation \in Pending
    /\ gate \in {"open", "committed", "cancelled"}
    /\ committed \in BOOLEAN /\ answer \in Answers
    /\ issued \in 0 .. MaxOperations
    /\ kind \in [Operations -> {"create", "daily", "change"}]
    /\ basis \in [Operations -> 0 .. made]
    /\ told \in [Operations -> Answers \cup {"nothing"}]
    /\ launched \in SUBSET Operations /\ known \in SUBSET Operations
    /\ boots \in Nat /\ tries \in Nat

\* While the host may write, its memory, the file and what a power loss would
\* leave of the file are one record.
RecordIsCoherent ==
    pc # "down" /\ ~ blocked => disk = value /\ lasting = {value}

\* A save handed to the store stays on the restart record, through crashes and
\* power losses, until its outcome has been read back.
UnknownStaysRecorded == \A o \in launched \ known : lasting = {o}

\* The record, in memory, on the file system and on the disk, holds what is not known.
RecordHolds == RecordIsCoherent /\ UnknownStaysRecorded

\* "Saved" and "not saved" are true across crashes and power losses, until the user
\* asks again.  A save whose own sync failed is read back and reported all the
\* same: that one, and no other, a power loss may still take.
AnswersAreTrue ==
    \A o \in Operations :
        /\ told[o] = "saved" => o \in receipts \cup doubted
        /\ told[o] = "unsaved" => o \notin receipts
=============================================================================
