---------------------------- MODULE StudioSession ----------------------------
(***************************************************************************)
(* The generated-tool host (src/src/product_studio.rs) and its single       *)
(* worker (src/src/product_studio/worker.rs).                               *)
(*                                                                         *)
(* The panel issues one command at a time to a worker thread and keeps it   *)
(* as "pending" until its completion arrives.  Both directions are channels *)
(* of capacity one.  A background source poll may be in flight beside the   *)
(* pending command, which is then deferred until the poll is answered.      *)
(* Every command carries a gate: the panel's Cancel and the worker's        *)
(* commit or finish race for it with compare-and-exchange.  Closing the     *)
(* tool, or dropping the panel, cancels what is in flight.                  *)
(***************************************************************************)
EXTENDS Naturals

CONSTANTS
    Clicks,         \* the kinds of command the user may ask for
    MaxOperations,  \* bound on the commands of a behaviour
    MaxEpoch,       \* bound on the closings of a behaviour
    MayStop         \* TRUE when the worker thread may panic

\* What a command does, as far as the session can tell: Daily saves; Open
\* finishes its gate before it shows what it opened, Prepare only after.
Action == {"Boot", "TaskPoll", "Close", "Daily", "Open", "Prepare"}

ASSUME ConstantsAssumption ==
    /\ Clicks \subseteq {"Daily", "Open", "Prepare"}
    /\ MaxOperations \in Nat \ {0}
    /\ MaxEpoch \in Nat
    /\ MayStop \in BOOLEAN

None == 0
Operations == 1 .. MaxOperations

VARIABLES
    \* shared by both threads
    issued,      \* number of commands issued: operation n is the nth
    command,     \* the action and the epoch of each operation's key
    gate,        \* Gate.state of each operation
    flagged,     \* operations whose Gate.cancelled flag is set
    commands,    \* the command channel
    completion,  \* the completion channel
    saved,       \* operations with a receipt in the tool's store
    \* the panel
    pending, sourcePoll, deferred,
    epoch, closing,
    page,        \* None for Home, else the operation whose result is shown
    task,        \* whether a task is linked, as shown
    dropped,     \* the panel is gone
    told,        \* what the user was told of each operation (ghost)
    withdrawn,   \* operations whose cancellation was accepted (ghost)
    \* the worker
    pc, operation,
    host,        \* the page and the task of the worker
    seen,        \* the epoch and the operation of the last command taken
    committed,   \* the operation verified as saved by the running handler
    result

panel == <<pending, sourcePoll, deferred, epoch, closing, page, task, dropped,
           told, withdrawn>>
worker == <<pc, operation, host, seen, committed, result>>
keys == <<issued, command>>
vars == <<issued, command, gate, flagged, commands, completion, saved,
          pending, sourcePoll, deferred, epoch, closing, page, task, dropped,
          told, withdrawn, pc, operation, host, seen, committed, result>>

PC == {"idle", "checking", "running", "committing", "applying", "verifying",
       "finishing", "answering", "stopped"}
Answers == {"done", "saved", "unsaved", "unresolved"}
Page == {None} \cup Operations
Task == {"none", "linked"}
NoCompletion == [operation |-> None, page |-> None, task |-> "none", answer |-> "done"]

Init ==
    /\ issued = 1
    /\ command = [o \in Operations |-> [action |-> "Boot", epoch |-> 0]]
    /\ gate = [o \in Operations |-> IF o = 1 THEN "committed" ELSE "open"]
    /\ flagged = {}
    /\ commands = 1
    /\ completion = NoCompletion
    /\ saved = {}
    /\ pending = 1 /\ sourcePoll = None /\ deferred = None
    /\ epoch = 0 /\ closing = FALSE
    /\ page = None /\ task = "none" /\ dropped = FALSE
    /\ told = [o \in Operations |-> "nothing"]
    /\ withdrawn = {}
    /\ pc = "idle" /\ operation = None
    /\ host = [page |-> None, task |-> "none"]
    /\ seen = [epoch |-> 0, operation |-> None]
    /\ committed = None /\ result = "done"

-----------------------------------------------------------------------------
\* The gate: every transition is one compare-and-exchange from "open".

\* Mutated form of Cancelled: a plain store takes a committed gate too.
CancelledAnyway(s) ==
    [o \in Operations |-> IF o \in s THEN "cancelled" ELSE gate[o]]

\* The gates after the panel cancelled the operations of s.
Cancelled(s) ==
    [o \in Operations |-> IF o \in s /\ gate[o] = "open" THEN "cancelled" ELSE gate[o]]

Committed(o) == [gate EXCEPT ![o] = "committed"]

\* finish() leaves a committed gate alone and fails on a cancelled one.
Finished(o) == [gate EXCEPT ![o] = IF @ = "open" THEN "finished" ELSE @]

\* cancel() stores the flag after it won the exchange; the panel does nothing
\* else in between.
Flag ==
    /\ \E o \in Operations : gate[o] = "cancelled" /\ o \notin flagged
    /\ flagged' = {o \in Operations : gate[o] = "cancelled"}
    /\ UNCHANGED <<issued, command, gate, commands, completion, saved, panel, worker>>

PanelRuns ==
    /\ ~ dropped
    /\ \A o \in Operations : gate[o] = "cancelled" => o \in flagged

-----------------------------------------------------------------------------
\* The panel.

Sendable == pc # "stopped" /\ commands = None

\* Mutated form of NewCommand: the key is made under the epoch to come.
NewCommandAhead(action, e) ==
    /\ issued < MaxOperations
    /\ issued' = issued + 1
    /\ command' = [command EXCEPT ![issued + 1] = [action |-> action, epoch |-> e + 1]]

\* issue() up to its try_send: a new operation under the panel's current epoch.
NewCommand(action, e) ==
    /\ issued < MaxOperations
    /\ issued' = issued + 1
    /\ command' = [command EXCEPT ![issued + 1] = [action |-> action, epoch |-> e]]

\* try_send(): refused when the channel is full or the worker is gone.
TrySend(o) == commands' = IF Sendable THEN o ELSE commands

Sent(o) == IF Sendable THEN o ELSE None

\* issue(): behind a source poll the command is deferred; a refused try_send
\* loses the click.  Called with nothing pending.
Issue(action, e) ==
    /\ NewCommand(action, e)
    /\ IF sourcePoll # None
       THEN /\ deferred' = issued + 1
            /\ pending' = issued + 1
            /\ UNCHANGED commands
       ELSE /\ TrySend(issued + 1)
            /\ pending' = Sent(issued + 1)
            /\ UNCHANGED deferred

\* A click, or the Tick that poll() issues itself when the day has changed.
Click(action) ==
    /\ PanelRuns
    /\ pending = None
    /\ Issue(action, epoch)
    /\ UNCHANGED <<gate, flagged, completion, saved, sourcePoll, epoch, closing,
                   page, task, dropped, told, withdrawn, worker>>

\* start_source_poll(): issue() and then move the pending slot aside.
StartSourcePoll ==
    /\ PanelRuns
    /\ pending = None /\ sourcePoll = None /\ ~ closing /\ task = "linked"
    /\ NewCommand("TaskPoll", epoch)
    /\ TrySend(issued + 1)
    /\ sourcePoll' = Sent(issued + 1)
    /\ UNCHANGED <<gate, flagged, completion, saved, pending, deferred, epoch,
                   closing, page, task, dropped, told, withdrawn, worker>>

\* The Cancel button.
Cancel ==
    /\ PanelRuns
    /\ pending # None
    /\ gate[pending] = "open"
    /\ gate' = Cancelled({pending})
    /\ withdrawn' = withdrawn \cup {pending}
    /\ UNCHANGED <<keys, flagged, commands, completion, saved, pending, sourcePoll,
                   deferred, epoch, closing, page, task, dropped, told, worker>>

\* close(): Home is shown at once; a pending command is cancelled and awaited
\* before the worker is told.
CloseTool ==
    /\ PanelRuns
    /\ epoch < MaxEpoch
    /\ closing \/ issued < MaxOperations
    /\ gate' = Cancelled({sourcePoll, pending})
    /\ epoch' = epoch + 1
    /\ page' = None
    /\ IF pending # None
       THEN /\ closing' = TRUE
            /\ withdrawn' = withdrawn \cup {o \in {pending} : gate'[o] = "cancelled"}
            /\ UNCHANGED <<keys, commands, pending, deferred>>
       ELSE /\ Issue("Close", epoch + 1)
            /\ UNCHANGED <<closing, withdrawn>>
    /\ UNCHANGED <<flagged, completion, saved, sourcePoll, task, dropped, told, worker>>

\* Mutated form of SendDeferred: the deferred command is forgotten.
KeepDeferred == UNCHANGED <<commands, deferred, pending>>

\* poll(): a command deferred behind the source read is sent at last.
SendDeferred ==
    IF deferred # None
    THEN /\ TrySend(deferred)
         /\ deferred' = None
         /\ pending' = IF Sendable THEN pending ELSE None
    ELSE UNCHANGED <<commands, deferred, pending>>

\* poll(), a source read answered.  It refreshes the task's status, which is no
\* part of the model, and never the page.
SourceAnswered ==
    /\ PanelRuns
    /\ completion.operation # None
    /\ completion.operation = sourcePoll
    /\ completion' = NoCompletion
    /\ sourcePoll' = None
    /\ SendDeferred
    /\ UNCHANGED <<keys, gate, flagged, saved, epoch, closing, page, task, dropped,
                   told, withdrawn, worker>>

Fresh == command[pending].epoch = epoch

\* Mutated form of Shown: a late page is installed.
ShownLate == completion.page

\* A page of an older epoch, or one that arrives while closing, is not shown.
Shown == IF Fresh /\ ~ closing THEN completion.page ELSE page

\* poll(), the pending command answered.  Any other completion is ignored.
Answered ==
    /\ PanelRuns
    /\ completion.operation # None
    /\ completion.operation = pending
    /\ completion' = NoCompletion
    /\ task' = completion.task
    /\ page' = Shown
    /\ told' = [told EXCEPT ![pending] = completion.answer]
    /\ closing' = FALSE
    /\ IF closing
       THEN Issue("Close", epoch)
       ELSE /\ pending' = None
            /\ UNCHANGED <<keys, commands, deferred>>
    /\ UNCHANGED <<gate, flagged, saved, sourcePoll, epoch, dropped, withdrawn, worker>>

\* ProductStudio::drop: the channels close after the gates are cancelled.
Drop ==
    /\ PanelRuns
    /\ dropped' = TRUE
    /\ gate' = Cancelled({sourcePoll, pending})
    /\ UNCHANGED <<keys, flagged, commands, completion, saved, pending, sourcePoll,
                   deferred, epoch, closing, page, task, told, withdrawn, worker>>

-----------------------------------------------------------------------------
\* The worker: run() and handle().

action == command[operation].action

Ends(r) == pc' = "finishing" /\ result' = r

Shows(p, t) == host' = [page |-> p, task |-> t]

\* Mutated form of LastSeen: the panel's epoch instead of the command's.
SeenNow(o) == [epoch |-> epoch, operation |-> o]

LastSeen(o) == [epoch |-> command[o].epoch, operation |-> o]

\* recv(): a command of an older epoch, or the one just run, is skipped.
Take ==
    /\ pc = "idle"
    /\ commands # None
    /\ commands' = None
    /\ IF command[commands].epoch < seen.epoch \/ commands = seen.operation
       THEN UNCHANGED <<pc, operation, seen, committed>>
       ELSE /\ pc' = "checking"
            /\ operation' = commands
            /\ seen' = LastSeen(commands)
            /\ committed' = None
    /\ UNCHANGED <<keys, gate, flagged, completion, saved, panel, host, result>>

\* gate.check(), then the journal's own refusal of everything but Close and Boot.
Check ==
    /\ pc = "checking"
    /\ \/ operation \notin flagged /\ pc' = "running" /\ UNCHANGED result
       \/ /\ operation \in flagged \/ action \notin {"Close", "Boot"}
          /\ Ends("unsaved")
    /\ UNCHANGED <<keys, gate, flagged, commands, completion, saved, panel,
                   operation, host, seen, committed>>

\* Any handler may fail before it changed anything.
Refuse ==
    /\ pc = "running"
    /\ Ends("unsaved")
    /\ UNCHANGED <<keys, gate, flagged, commands, completion, saved, panel,
                   operation, host, seen, committed>>

\* poll_task() refreshes the source's status, never the page.
RunPoll ==
    /\ pc = "running" /\ action = "TaskPoll"
    /\ Ends("done")
    /\ UNCHANGED <<keys, gate, flagged, commands, completion, saved, panel,
                   operation, host, seen, committed>>

\* boot(), prepare() and close() replace the page without asking the gate.
RunBoot == action = "Boot" /\ \E p \in {None, operation}, t \in Task : Shows(p, t)
RunPrepare == action = "Prepare" /\ Shows(operation, "none")
RunClose == action = "Close" /\ Shows(None, "none")

RunView ==
    /\ pc = "running"
    /\ RunBoot \/ RunPrepare \/ RunClose
    /\ Ends("done")
    /\ UNCHANGED <<keys, gate, flagged, commands, completion, saved, panel,
                   operation, seen, committed>>

\* Open verifies first, finishes its gate and then installs; remembering the
\* tool in the journal may still fail.
RunOpen ==
    /\ pc = "running" /\ action = "Open"
    /\ gate' = Finished(operation)
    /\ IF gate[operation] = "cancelled"
       THEN Ends("unsaved") /\ UNCHANGED host
       ELSE /\ \E r \in {"done", "unsaved"} : Ends(r)
            /\ \E t \in Task : Shows(operation, t)
    /\ UNCHANGED <<keys, flagged, commands, completion, saved, panel,
                   operation, seen, committed>>

\* daily(): the checks, and the input written to the journal as unfinished.
RunDaily ==
    /\ pc = "running" /\ action = "Daily"
    /\ pc' = "committing"
    /\ UNCHANGED <<keys, gate, flagged, commands, completion, saved, panel,
                   operation, host, seen, committed, result>>

\* daily(): gate.commit().
Commit ==
    /\ pc = "committing"
    /\ IF gate[operation] = "open"
       THEN gate' = Committed(operation) /\ pc' = "applying" /\ UNCHANGED result
       ELSE Ends("unsaved") /\ UNCHANGED gate
    /\ UNCHANGED <<keys, flagged, commands, completion, saved, panel,
                   operation, host, seen, committed>>

\* daily(): store.apply, whatever it answers.
Apply ==
    /\ pc = "applying"
    /\ pc' = "verifying"
    /\ saved' \in {saved, saved \cup {operation}}
    /\ UNCHANGED <<keys, gate, flagged, commands, completion, panel,
                   operation, host, seen, committed, result>>

\* The folder could not be read back: whether it saved stays open.
Unresolved == Ends("unresolved")

\* daily(): open_verified decides.  After the receipt is seen, the page or the
\* restart record may still fail.
Verify ==
    /\ pc = "verifying"
    /\ \/ /\ operation \in saved
          /\ committed' = operation
          /\ \/ Ends("unsaved") /\ UNCHANGED host
             \/ \E r \in {"done", "unsaved"} : Ends(r) /\ Shows(operation, host.task)
       \/ /\ operation \notin saved
          /\ Ends("unsaved")
          /\ UNCHANGED <<host, committed>>
       \/ /\ Unresolved
          /\ UNCHANGED <<host, committed>>
    /\ UNCHANGED <<keys, gate, flagged, commands, completion, saved, panel,
                   operation, seen>>

ClosedWhenCancelled == {"Open", "Prepare"}

\* run() after handle(): a cancelled command saved nothing, and what it opened
\* is closed again, unless dropping its unsent request fails.
Finish ==
    /\ pc = "finishing"
    /\ pc' = "answering"
    /\ gate' = Finished(operation)
    /\ IF gate[operation] = "cancelled" /\ committed = None
       THEN /\ result' = "unsaved"
            /\ \/ action \in ClosedWhenCancelled /\ Shows(None, "none")
               \/ UNCHANGED host
       ELSE UNCHANGED <<result, host>>
    /\ UNCHANGED <<keys, flagged, commands, completion, saved, panel,
                   operation, seen, committed>>

Answer ==
    /\ pc = "answering"
    /\ completion.operation = None
    /\ ~ dropped
    /\ pc' = "idle"
    /\ completion' = [operation |-> operation, page |-> host.page, task |-> host.task,
                      answer |-> IF committed # None THEN "saved" ELSE result]
    /\ UNCHANGED <<keys, gate, flagged, commands, saved, panel,
                   operation, host, seen, committed, result>>

\* recv() or send() fails once the panel is gone.
Leave ==
    /\ dropped
    /\ pc = "answering" \/ (pc = "idle" /\ commands = None)
    /\ pc' = "stopped"
    /\ UNCHANGED <<keys, gate, flagged, commands, completion, saved, panel,
                   operation, host, seen, committed, result>>

\* A panic in a handler ends the thread, and nothing answers its command.
Panic ==
    /\ MayStop
    /\ pc \notin {"idle", "stopped"}
    /\ pc' = "stopped"
    /\ UNCHANGED <<keys, gate, flagged, commands, completion, saved, panel,
                   operation, host, seen, committed, result>>

WorkerRuns ==
    \/ Take \/ Check \/ Refuse \/ RunPoll \/ RunView \/ RunOpen \/ RunDaily
    \/ Commit \/ Apply \/ Verify \/ Finish \/ Answer \/ Leave

Next ==
    \/ Flag \/ SourceAnswered \/ Answered
    \/ \E a \in Clicks : Click(a)
    \/ StartSourcePoll \/ Cancel \/ CloseTool \/ Drop
    \/ WorkerRuns \/ Panic

\* The worker is a thread, and the application polls every frame while a
\* command is pending (repaint_after).
Fairness ==
    /\ WF_vars(WorkerRuns)
    /\ WF_vars(Flag)
    /\ WF_vars(SourceAnswered)
    /\ WF_vars(Answered)

Spec == Init /\ [][Next]_vars
FairSpec == Spec /\ Fairness

-----------------------------------------------------------------------------
\* Every variable keeps its type, and no command's key is of an epoch that the
\* panel has not reached.
TypeOK ==
    /\ issued \in Operations
    /\ command \in [Operations -> [action : Action, epoch : Nat]]
    /\ \A o \in Operations : command[o].epoch <= epoch
    /\ gate \in [Operations -> {"open", "committed", "cancelled", "finished"}]
    /\ flagged \in SUBSET Operations
    /\ commands \in Page
    /\ completion \in [operation : Page, page : Page, task : Task, answer : Answers]
    /\ saved \in SUBSET Operations
    /\ pending \in Page /\ sourcePoll \in Page /\ deferred \in Page
    /\ epoch \in Nat
    /\ closing \in BOOLEAN /\ dropped \in BOOLEAN
    /\ page \in Page /\ task \in Task
    /\ told \in [Operations -> Answers \cup {"nothing"}]
    /\ withdrawn \in SUBSET Operations
    /\ pc \in PC /\ operation \in Page
    /\ host \in [page : Page, task : Task]
    /\ seen \in [epoch : Nat, operation : Page]
    /\ committed \in Page
    /\ result \in Answers

\* The operation the panel expects the next completion of.
Awaited == IF sourcePoll # None THEN sourcePoll ELSE pending

Busy == pc \notin {"idle", "stopped"}

\* The channels of capacity one and the worker hold exactly what the panel waits
\* for, in one place: a click is never refused for want of room, no completion
\* is unexpected, and only a panic or a drop loses what is awaited.
OneAtATime ==
    /\ commands # None =>
         commands = Awaited /\ completion.operation = None /\ ~ Busy
    /\ completion.operation # None => completion.operation = Awaited /\ ~ Busy
    /\ Busy => operation = Awaited
    /\ Awaited # None /\ pc # "stopped" /\ ~ dropped =>
         commands # None \/ completion.operation # None \/ Busy

\* The worker never drops a command as old or repeated: its silence would leave
\* the panel busy for good.
NothingSkipped ==
    pc = "idle" /\ commands # None =>
        command[commands].epoch >= seen.epoch /\ commands # seen.operation

\* Once the user was told that a cancellation is accepted, nothing is saved.
CancelledIsUnsaved == withdrawn \cap saved = {}

\* "Saved" and "not saved" are what the store says, then and for good.
AnswersAreTrue ==
    \A o \in Operations :
        /\ told[o] = "saved" => o \in saved
        /\ told[o] \in {"done", "unsaved"} => o \notin saved

\* From the click on Close until the worker has answered it, no late answer
\* brings a tool back on the screen.
ClosedStaysClosed ==
    closing \/ (pending # None /\ command[pending].action = "Close") => page = None

\* Whenever the panel takes the next click, it shows what the worker holds.
IdleAgrees ==
    pending = None /\ pc # "stopped" => page = host.page /\ task = host.task

\* The panel, the worker and what the user was told agree, over every interleaving of
\* clicks, cancellations, closes and late answers.
PanelAgrees ==
    OneAtATime /\ CancelledIsUnsaved /\ AnswersAreTrue /\ ClosedStaysClosed /\ IdleAgrees

\* While the worker lives, a panel that waits for an answer comes to rest: the command
\* it sent and those kept back behind it are answered.  A close that waits behind
\* another command is issued.
EveryCommandIsAnswered ==
    /\ pending # None ~> pending = None \/ dropped \/ pc = "stopped"
    /\ closing ~> ~ closing \/ dropped \/ pc = "stopped"

\* Each click is one cancellable request; boots, polls and closes are none.
Requested(o) ==
    o <= issued /\ command[o].action \notin {"Boot", "TaskPoll", "Close"}

Fate(o) ==
    IF ~ Requested(o) THEN "new"
    ELSE IF o \in saved THEN "saved"
    ELSE IF told[o] # "nothing" THEN "over"
    ELSE IF gate[o] = "cancelled" THEN "withdrawn"
    ELSE "asked"

Requests == INSTANCE CancellableRequests WITH
    fate <- [o \in Operations |-> Fate(o)],
    told <- [o \in Operations |-> IF Requested(o) THEN told[o] ELSE "nothing"]

\* Two threads, two channels and one gate make each click a request that is
\* saved or withdrawn, never both, and truthfully answered once.
ImplementsRequests == Requests!Spec
=============================================================================
