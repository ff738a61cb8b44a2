------------------------- MODULE StudioSessionProofs -------------------------
(* Proofs that StudioSession keeps its invariants and implements
   CancellableRequests, for any number of commands and closings. *)
EXTENDS StudioSession, TLAPS

\* What is in the slots of the panel, and in the channels.
Slots ==
    /\ OneAtATime
    /\ deferred # None => sourcePoll # None /\ deferred = pending /\ sourcePoll < deferred
    /\ sourcePoll # None /\ pending # None => deferred = pending
    /\ sourcePoll # None => command[sourcePoll].action = "TaskPoll"
    /\ pending # None => command[pending].action # "TaskPoll"
    /\ pending <= issued /\ sourcePoll <= issued
    /\ closing => pending # None
    /\ completion.operation # None /\ pc = "stopped" => dropped
    /\ Busy => operation # None /\ operation = seen.operation

\* Commands are numbered in the order of their epochs,
Epochs ==
    /\ \A o, p \in Operations :
         o <= p /\ p <= issued => command[o].epoch <= command[p].epoch
    /\ \A o \in Operations : o <= issued => command[o].epoch <= epoch
    /\ pending # None /\ ~ closing => command[pending].epoch = epoch
    /\ \A o \in Operations :
         seen.operation <= o /\ o <= issued => seen.epoch <= command[o].epoch

\* and reach the worker in that order.
Sequence ==
    /\ seen.operation <= issued
    /\ commands # None => seen.operation < commands
    /\ deferred # None => seen.operation < deferred

\* What the gates say of the store and of the user's cancellations.
Gates ==
    /\ \A o \in Operations : issued < o => gate[o] = "open"
    /\ \A o \in saved : gate[o] = "committed" /\ o <= seen.operation
    /\ \A o \in withdrawn : gate[o] = "cancelled"

\* What the worker knows of the running operation.
Handling ==
    /\ pc \in {"committing", "applying", "verifying"} => action = "Daily"
    /\ pc \in {"applying", "verifying"} => gate[operation] = "committed"
    /\ pc \in {"checking", "running", "committing", "applying"} => operation \notin saved
    /\ pc \in {"checking", "running", "committing", "applying", "verifying"} =>
         committed = None
    /\ pc \in {"finishing", "answering"} =>
         /\ committed # None => committed = operation /\ operation \in saved
         /\ committed = None /\ result # "unresolved" => operation \notin saved
         /\ result # "saved"
         /\ result = "unresolved" => gate[operation] = "committed"

\* The answer on its way,
Sending ==
    completion.operation # None =>
        /\ completion.operation <= seen.operation
        /\ completion.answer = "saved" => completion.operation \in saved
        /\ completion.answer \in {"done", "unsaved"} => completion.operation \notin saved
        /\ completion.answer = "unresolved" => gate[completion.operation] = "committed"

\* and the answers given.
Given ==
    /\ \A o \in Operations : told[o] # "nothing" =>
         /\ o <= seen.operation
         /\ o # completion.operation
         /\ Busy => o # operation
         /\ o # pending
    /\ AnswersAreTrue

\* What the panel shows and the worker holds.
Views ==
    /\ ClosedStaysClosed
    /\ IdleAgrees
    /\ completion.operation # None =>
         completion.page = host.page /\ completion.task = host.task

IInv ==
    /\ TypeOK /\ Slots /\ Epochs /\ Sequence /\ Gates
    /\ Handling /\ Sending /\ Given /\ Views

\* Operations are the numbers from one; None is none of them.
LEMMA Identifiers ==
    /\ Operations \subseteq Nat
    /\ None \in Nat
    /\ None \notin Operations
    /\ 1 \in Operations
    /\ \A o \in Operations : o < MaxOperations => o + 1 \in Operations
    /\ \A o \in Operations : None < o
    /\ \A k \in Clicks : k \in Action \ {"Boot", "TaskPoll", "Close"}
BY ConstantsAssumption DEF Operations, None, Action

\* Every identifier is a number.
LEMMA Numbers ==
    ASSUME TypeOK
    PROVE  /\ issued \in Nat /\ commands \in Nat /\ pending \in Nat /\ sourcePoll \in Nat
           /\ deferred \in Nat /\ operation \in Nat /\ completion.operation \in Nat
           /\ seen.operation \in Nat /\ seen.epoch \in Nat
BY Identifiers DEF TypeOK, Page

\* A new command is sent, deferred or lost.
LEMMA Issuing ==
    ASSUME TypeOK, NEW k \in Action, NEW e \in Nat, Issue(k, e)
    PROVE  LET o == issued + 1 IN
           /\ o \in Operations /\ o \in Nat /\ issued < o
           /\ issued' = o
           /\ command' = [command EXCEPT ![o] = [action |-> k, epoch |-> e]]
           /\ commands' = commands \/ commands' = o
           /\ deferred' = deferred \/ deferred' = o
           /\ pending' = None \/ pending' = o
BY Identifiers DEF TypeOK, Issue, NewCommand, TrySend, Sent

\* A new command is behind everything the worker has seen,
LEMMA SequenceIssue ==
    ASSUME TypeOK, Sequence, NEW k \in Action, NEW e \in Nat, Issue(k, e), seen' = seen
    PROVE  Sequence'
<1>1. /\ issued' = issued + 1
      /\ commands' = commands \/ commands' = issued + 1
      /\ deferred' = deferred \/ deferred' = issued + 1
    BY Issuing
<1>2. seen.operation < issued + 1 /\ seen.operation <= issued + 1
    BY Numbers DEF Sequence
<1>3. commands' # None => seen.operation < commands'
    BY <1>1, <1>2 DEF Sequence
<1>4. deferred' # None => seen.operation < deferred'
    BY <1>1, <1>2 DEF Sequence
<1> QED
    BY <1>1, <1>2, <1>3, <1>4 DEF Sequence

\* and no answer was given of it.
LEMMA GivenIssue ==
    ASSUME TypeOK, NEW k \in Action, NEW e \in Nat, Issue(k, e)
    PROVE  \A o \in Operations : o <= issued => o # pending'
<1>1. pending' = None \/ pending' = issued + 1
    BY Issuing
<1> QED
    BY <1>1, Numbers, Identifiers

\* The order of the commands keeps the worker from skipping one.
LEMMA NothingIsSkipped == IInv => NothingSkipped
<1> SUFFICES ASSUME IInv, pc = "idle", commands # None
             PROVE  command[commands].epoch >= seen.epoch /\ commands # seen.operation
    BY DEF NothingSkipped
<1>1. commands \in Operations /\ commands = Awaited /\ commands <= issued
    BY DEF IInv, TypeOK, Slots, OneAtATime, Awaited, Page
<1>2. seen.operation < commands /\ seen.operation \in Nat /\ seen.epoch \in Nat
    BY Identifiers DEF IInv, TypeOK, Sequence, Page
<1>3. command[commands].epoch \in Nat
    BY <1>1 DEF IInv, TypeOK
<1> QED
    BY <1>1, <1>2, <1>3, Identifiers DEF IInv, Epochs

\* A step keeps every type.
LEMMA TypeStep == IInv /\ [Next]_vars => TypeOK'
<1> SUFFICES ASSUME IInv, [Next]_vars PROVE TypeOK'
    OBVIOUS
<1> USE Identifiers
<1>1. CASE Flag
    BY <1>1 DEF IInv, TypeOK, Page, Task, Answers, PC, Action, NoCompletion, vars,
           panel, worker, keys, PanelRuns, Flag
<1>2. CASE SourceAnswered
    BY <1>2 DEF IInv, TypeOK, Page, Task, Answers, PC, Action, NoCompletion, vars,
           panel, worker, keys, PanelRuns, SourceAnswered, SendDeferred, TrySend,
           Sendable
<1>3. CASE Answered
    <2>1. pending \in Operations
        BY <1>3 DEF IInv, TypeOK, Answered, Page
    <2>2. /\ told' \in [Operations -> Answers \cup {"nothing"}]
          /\ completion' \in [operation : Page, page : Page, task : Task, answer : Answers]
          /\ page' \in Page
          /\ task' \in Task
          /\ closing' = FALSE
        BY <1>3, <2>1 DEF IInv, TypeOK, Answered, Page, Answers, Task, NoCompletion, Shown
    <2>3. CASE closing
        <3>1. Issue("Close", epoch)
            BY <1>3, <2>3 DEF Answered
        <3>2. /\ issued' \in Operations
         /\ command' \in [Operations -> [action : Action, epoch : Nat]]
         /\ \A o \in Operations : command'[o].epoch <= epoch
         /\ commands' \in Page
         /\ pending' \in Page
         /\ deferred' \in Page
            BY <3>1, <2>1 DEF IInv, TypeOK, Page, Action, Issue, NewCommand, TrySend, Sent, Sendable
        <3> QED
            BY <1>3, <2>2, <3>2 DEF IInv, TypeOK, Answered, worker, keys
    <2>4. CASE ~ closing
        <3>1. pending' = None /\ UNCHANGED <<keys, commands, deferred>>
            BY <1>3, <2>4 DEF Answered
        <3> QED
            BY <1>3, <2>2, <3>1 DEF IInv, TypeOK, Answered, worker, keys, Page
    <2> QED
        BY <2>3, <2>4
<1>4. CASE \E k \in Clicks : Click(k)
    BY <1>4 DEF IInv, TypeOK, Page, Task, Answers, PC, Action, NoCompletion, vars,
           panel, worker, keys, PanelRuns, Click, Issue, NewCommand, TrySend,
           Sent, Sendable
<1>5. CASE StartSourcePoll
    BY <1>5 DEF IInv, TypeOK, Page, Task, Answers, PC, Action, NoCompletion, vars,
           panel, worker, keys, PanelRuns, StartSourcePoll, NewCommand, TrySend,
           Sent, Sendable
<1>6. CASE Cancel
    BY <1>6 DEF IInv, TypeOK, Page, Task, Answers, PC, Action, NoCompletion, vars,
           panel, worker, keys, PanelRuns, Cancel, Cancelled
<1>7. CASE CloseTool
    <2>1. /\ gate' \in [Operations -> {"open", "committed", "cancelled", "finished"}]
          /\ epoch' \in Nat
          /\ page' \in Page
        BY <1>7 DEF IInv, TypeOK, CloseTool, Cancelled, Page
    <2>2. CASE pending # None
        <3>1. pending \in Operations /\ closing' = TRUE
            BY <1>7, <2>2 DEF IInv, TypeOK, CloseTool, Page
        <3>2. {o \in {pending} : gate'[o] = "cancelled"} \subseteq Operations
            BY <3>1
        <3>3. withdrawn' \in SUBSET Operations
            BY <1>7, <2>2, <3>2 DEF IInv, TypeOK, CloseTool
        <3>4. epoch' = epoch + 1 /\ command' = command
            BY <1>7, <2>2 DEF CloseTool, keys
        <3>5. \A o \in Operations : command'[o].epoch <= epoch'
            BY <3>4 DEF IInv, TypeOK
        <3> QED
            BY <1>7, <2>1, <2>2, <3>1, <3>3, <3>4, <3>5 DEF IInv, TypeOK, CloseTool, worker, keys
    <2>3. CASE pending = None
        <3>1. Issue("Close", epoch + 1) /\ UNCHANGED <<closing, withdrawn>>
            BY <1>7, <2>3 DEF CloseTool
        <3>2. /\ issued' \in Operations
         /\ command' \in [Operations -> [action : Action, epoch : Nat]]
         /\ \A o \in Operations : command'[o].epoch <= epoch + 1
         /\ commands' \in Page
         /\ pending' \in Page
         /\ deferred' \in Page
            BY <3>1 DEF IInv, TypeOK, Page, Action, Issue, NewCommand, TrySend, Sent, Sendable
        <3> QED
            <4>1. \A o \in Operations : command'[o].epoch <= epoch'
                BY <1>7, <3>2 DEF CloseTool
            <4> QED
                BY <1>7, <2>1, <3>1, <3>2, <4>1 DEF IInv, TypeOK, CloseTool, worker
    <2> QED
        BY <2>2, <2>3
<1>8. CASE Drop
    BY <1>8 DEF IInv, TypeOK, Page, Task, Answers, PC, Action, NoCompletion, vars,
           panel, worker, keys, PanelRuns, Drop, Cancelled
<1>9. CASE Take
    BY <1>9 DEF IInv, TypeOK, Page, Task, Answers, PC, Action, NoCompletion, vars,
           panel, worker, keys, PanelRuns, Take, LastSeen
<1>10. CASE Check
    BY <1>10 DEF IInv, TypeOK, Page, Task, Answers, PC, Action, NoCompletion, vars,
           panel, worker, keys, PanelRuns, Check, Ends, action
<1>11. CASE Refuse
    BY <1>11 DEF IInv, TypeOK, Page, Task, Answers, PC, Action, NoCompletion, vars,
           panel, worker, keys, PanelRuns, Refuse, Ends
<1>12. CASE RunPoll
    BY <1>12 DEF IInv, TypeOK, Page, Task, Answers, PC, Action, NoCompletion, vars,
           panel, worker, keys, PanelRuns, RunPoll, Ends, action
<1>13. CASE RunView
    BY <1>13 DEF IInv, TypeOK, Page, Task, Answers, PC, Action, NoCompletion, vars,
           panel, worker, keys, PanelRuns, RunView, Ends, action, RunBoot,
           RunPrepare, RunClose, Shows
<1>14. CASE RunOpen
    <2>1. gate' \in [Operations -> {"open", "committed", "cancelled", "finished"}]
        BY <1>14 DEF IInv, TypeOK, RunOpen, Finished
    <2>2. pc' = "finishing" /\ result' \in Answers
        BY <1>14 DEF RunOpen, Ends, Answers
    <2>3. host' \in [page : Page, task : Task]
        BY <1>14 DEF IInv, TypeOK, RunOpen, Shows
    <2> QED
        BY <1>14, <2>1, <2>2, <2>3 DEF IInv, TypeOK, RunOpen, panel, keys, PC
<1>15. CASE RunDaily
    BY <1>15 DEF IInv, TypeOK, Page, Task, Answers, PC, Action, NoCompletion, vars,
           panel, worker, keys, PanelRuns, RunDaily, action
<1>16. CASE Commit
    BY <1>16 DEF IInv, TypeOK, Page, Task, Answers, PC, Action, NoCompletion, vars,
           panel, worker, keys, PanelRuns, Commit, Committed, Ends
<1>17. CASE Apply
    <2>1. operation \in Operations
        BY <1>17 DEF IInv, TypeOK, Slots, Apply, Busy, Page
    <2>2. saved' \in SUBSET Operations
        BY <1>17, <2>1 DEF IInv, TypeOK, Apply
    <2> QED
        BY <1>17, <2>2 DEF IInv, TypeOK, Apply, panel, keys, PC
<1>18. CASE Verify
    BY <1>18 DEF IInv, TypeOK, Page, Task, Answers, PC, Action, NoCompletion, vars,
           panel, worker, keys, PanelRuns, Verify, Ends, Shows, Unresolved
<1>19. CASE Finish
    <2>1. gate' \in [Operations -> {"open", "committed", "cancelled", "finished"}]
        BY <1>19 DEF IInv, TypeOK, Finish, Finished
    <2>2. result' \in Answers /\ host' \in [page : Page, task : Task]
        BY <1>19 DEF IInv, TypeOK, Finish, Shows, Answers, Page, Task
    <2> QED
        BY <1>19, <2>1, <2>2 DEF IInv, TypeOK, Finish, panel, keys, PC
<1>20. CASE Answer
    BY <1>20 DEF IInv, TypeOK, Page, Task, Answers, PC, Action, NoCompletion, vars,
           panel, worker, keys, PanelRuns, Answer
<1>21. CASE Leave
    BY <1>21 DEF IInv, TypeOK, Page, Task, Answers, PC, Action, NoCompletion, vars,
           panel, worker, keys, PanelRuns, Leave
<1>22. CASE Panic
    BY <1>22 DEF IInv, TypeOK, Page, Task, Answers, PC, Action, NoCompletion, vars,
           panel, worker, keys, PanelRuns, Panic
<1>23. CASE UNCHANGED vars
    BY <1>23 DEF IInv, TypeOK, Page, Task, Answers, PC, Action, NoCompletion, vars,
           panel, worker, keys, PanelRuns
<1> QED
    BY <1>1, <1>2, <1>3, <1>4, <1>5, <1>6, <1>7, <1>8, <1>9, <1>10, <1>11, <1>12, <1>13, <1>14, <1>15, <1>16, <1>17, <1>18, <1>19, <1>20, <1>21, <1>22, <1>23 DEF Next, WorkerRuns

\* A step keeps one command in flight, the one the panel waits for.
LEMMA SlotsStep == IInv /\ [Next]_vars => Slots'
<1> SUFFICES ASSUME IInv, [Next]_vars PROVE Slots'
    OBVIOUS
<1> USE Identifiers
<1>1. CASE Flag
    BY <1>1 DEF IInv, TypeOK, Slots, OneAtATime, Awaited, Busy, Page, Task, Answers,
           PC, Action, NoCompletion, vars, panel, worker, keys, PanelRuns, Flag
<1>2. CASE SourceAnswered
    <2>1. /\ completion'.operation = None /\ sourcePoll' = None
          /\ commands = None /\ ~ Busy /\ sourcePoll # None
        BY <1>2 DEF IInv, Slots, OneAtATime, Awaited, SourceAnswered, NoCompletion
    <2>2. /\ Busy' = Busy /\ pc' = pc /\ closing' = closing /\ command' = command
          /\ issued' = issued /\ dropped' = dropped
        BY <1>2 DEF SourceAnswered, worker, keys, Busy
    <2>3. Sendable
        BY <1>2 DEF IInv, Slots, OneAtATime, SourceAnswered, PanelRuns, Sendable
    <2>4. CASE deferred # None
        <3>1. deferred' = None /\ commands' = deferred /\ pending' = pending /\ pending = deferred
            BY <1>2, <2>3, <2>4 DEF IInv, Slots, SourceAnswered, SendDeferred, TrySend
        <3> QED
            BY <2>1, <2>2, <2>4, <3>1 DEF IInv, TypeOK, Slots, OneAtATime, Awaited
    <2>5. CASE deferred = None
        BY <1>2, <2>1, <2>2, <2>5 DEF IInv, TypeOK, Slots, OneAtATime, Awaited, Busy, Page, Task, Answers,
           PC, Action, NoCompletion, vars, panel, worker, keys, PanelRuns,
           SourceAnswered, SendDeferred
    <2> QED
        BY <2>4, <2>5
<1>3. CASE Answered
    BY <1>3 DEF IInv, TypeOK, Slots, OneAtATime, Awaited, Busy, Page, Task, Answers,
           PC, Action, NoCompletion, vars, panel, worker, keys, PanelRuns,
           Answered, Shown, Fresh, Issue, NewCommand, TrySend, Sent, Sendable
<1>4. CASE \E k \in Clicks : Click(k)
    BY <1>4 DEF IInv, TypeOK, Slots, OneAtATime, Awaited, Busy, Page, Task, Answers,
           PC, Action, NoCompletion, vars, panel, worker, keys, PanelRuns, Click,
           Issue, NewCommand, TrySend, Sent, Sendable
<1>5. CASE StartSourcePoll
    BY <1>5 DEF IInv, TypeOK, Slots, OneAtATime, Awaited, Busy, Page, Task, Answers,
           PC, Action, NoCompletion, vars, panel, worker, keys, PanelRuns,
           StartSourcePoll, NewCommand, TrySend, Sent, Sendable
<1>6. CASE Cancel
    BY <1>6 DEF IInv, TypeOK, Slots, OneAtATime, Awaited, Busy, Page, Task, Answers,
           PC, Action, NoCompletion, vars, panel, worker, keys, PanelRuns, Cancel,
           Cancelled
<1>7. CASE CloseTool
    BY <1>7 DEF IInv, TypeOK, Slots, OneAtATime, Awaited, Busy, Page, Task, Answers,
           PC, Action, NoCompletion, vars, panel, worker, keys, PanelRuns,
           CloseTool, Cancelled, Issue, NewCommand, TrySend, Sent, Sendable
<1>8. CASE Drop
    BY <1>8 DEF IInv, TypeOK, Slots, OneAtATime, Awaited, Busy, Page, Task, Answers,
           PC, Action, NoCompletion, vars, panel, worker, keys, PanelRuns, Drop,
           Cancelled
<1>9. CASE Take
    <2>1. /\ commands \in Operations /\ commands = Awaited /\ completion.operation = None
          /\ ~ Busy
        BY <1>9 DEF IInv, TypeOK, Page, Slots, OneAtATime, Take
    <2>2. command[commands].epoch >= seen.epoch /\ commands # seen.operation
        BY <1>9, NothingIsSkipped DEF NothingSkipped, Take
    <2>3. ~ (command[commands].epoch < seen.epoch \/ commands = seen.operation)
        BY <2>1, <2>2 DEF IInv, TypeOK
    <2>4. /\ pc' = "checking" /\ operation' = commands /\ commands' = None
          /\ seen'.operation = commands
        BY <1>9, <2>3 DEF Take, LastSeen
    <2> QED
        BY <1>9, <2>1, <2>4 DEF IInv, TypeOK, Slots, OneAtATime, Awaited, Busy, Page, Task, Answers,
           PC, Action, NoCompletion, vars, panel, worker, keys, PanelRuns, Take
<1>10. CASE Check
    BY <1>10 DEF IInv, TypeOK, Slots, OneAtATime, Awaited, Busy, Page, Task, Answers,
           PC, Action, NoCompletion, vars, panel, worker, keys, PanelRuns, Check,
           Ends, action
<1>11. CASE Refuse
    BY <1>11 DEF IInv, TypeOK, Slots, OneAtATime, Awaited, Busy, Page, Task, Answers,
           PC, Action, NoCompletion, vars, panel, worker, keys, PanelRuns, Refuse,
           Ends
<1>12. CASE RunPoll
    BY <1>12 DEF IInv, TypeOK, Slots, OneAtATime, Awaited, Busy, Page, Task, Answers,
           PC, Action, NoCompletion, vars, panel, worker, keys, PanelRuns,
           RunPoll, Ends, action
<1>13. CASE RunView
    BY <1>13 DEF IInv, TypeOK, Slots, OneAtATime, Awaited, Busy, Page, Task, Answers,
           PC, Action, NoCompletion, vars, panel, worker, keys, PanelRuns,
           RunView, Ends, action, RunBoot, RunPrepare, RunClose, Shows
<1>14. CASE RunOpen
    BY <1>14 DEF IInv, TypeOK, Slots, OneAtATime, Awaited, Busy, Page, Task, Answers,
           PC, Action, NoCompletion, vars, panel, worker, keys, PanelRuns,
           RunOpen, Ends, action, Shows, Finished
<1>15. CASE RunDaily
    BY <1>15 DEF IInv, TypeOK, Slots, OneAtATime, Awaited, Busy, Page, Task, Answers,
           PC, Action, NoCompletion, vars, panel, worker, keys, PanelRuns,
           RunDaily, action
<1>16. CASE Commit
    BY <1>16 DEF IInv, TypeOK, Slots, OneAtATime, Awaited, Busy, Page, Task, Answers,
           PC, Action, NoCompletion, vars, panel, worker, keys, PanelRuns, Commit,
           Committed, Ends
<1>17. CASE Apply
    BY <1>17 DEF IInv, TypeOK, Slots, OneAtATime, Awaited, Busy, Page, Task, Answers,
           PC, Action, NoCompletion, vars, panel, worker, keys, PanelRuns, Apply
<1>18. CASE Verify
    BY <1>18 DEF IInv, TypeOK, Slots, OneAtATime, Awaited, Busy, Page, Task, Answers,
           PC, Action, NoCompletion, vars, panel, worker, keys, PanelRuns, Verify,
           Ends, Shows, Unresolved
<1>19. CASE Finish
    BY <1>19 DEF IInv, TypeOK, Slots, OneAtATime, Awaited, Busy, Page, Task, Answers,
           PC, Action, NoCompletion, vars, panel, worker, keys, PanelRuns, Finish,
           Finished, Shows, action, ClosedWhenCancelled
<1>20. CASE Answer
    BY <1>20 DEF IInv, TypeOK, Slots, OneAtATime, Awaited, Busy, Page, Task, Answers,
           PC, Action, NoCompletion, vars, panel, worker, keys, PanelRuns, Answer
<1>21. CASE Leave
    BY <1>21 DEF IInv, TypeOK, Slots, OneAtATime, Awaited, Busy, Page, Task, Answers,
           PC, Action, NoCompletion, vars, panel, worker, keys, PanelRuns, Leave
<1>22. CASE Panic
    BY <1>22 DEF IInv, TypeOK, Slots, OneAtATime, Awaited, Busy, Page, Task, Answers,
           PC, Action, NoCompletion, vars, panel, worker, keys, PanelRuns, Panic
<1>23. CASE UNCHANGED vars
    BY <1>23 DEF IInv, TypeOK, Slots, OneAtATime, Awaited, Busy, Page, Task, Answers,
           PC, Action, NoCompletion, vars, panel, worker, keys, PanelRuns
<1> QED
    BY <1>1, <1>2, <1>3, <1>4, <1>5, <1>6, <1>7, <1>8, <1>9, <1>10, <1>11, <1>12, <1>13, <1>14, <1>15, <1>16, <1>17, <1>18, <1>19, <1>20, <1>21, <1>22, <1>23 DEF Next, WorkerRuns

\* A step keeps the order of the epochs.
LEMMA EpochsStep == IInv /\ [Next]_vars => Epochs'
<1> SUFFICES ASSUME IInv, [Next]_vars PROVE Epochs'
    OBVIOUS
<1> USE Identifiers
<1>1. CASE Flag
    BY <1>1 DEF IInv, TypeOK, Epochs, Sequence, Slots, OneAtATime, Awaited, Busy, Page,
           Task, Answers, PC, Action, NoCompletion, vars, panel, worker, keys,
           PanelRuns, Flag
<1>2. CASE SourceAnswered
    BY <1>2 DEF IInv, TypeOK, Epochs, Sequence, Slots, OneAtATime, Awaited, Busy, Page,
           Task, Answers, PC, Action, NoCompletion, vars, panel, worker, keys,
           PanelRuns, SourceAnswered, SendDeferred, TrySend, Sendable
<1>3. CASE Answered
    BY <1>3 DEF IInv, TypeOK, Epochs, Sequence, Slots, OneAtATime, Awaited, Busy, Page,
           Task, Answers, PC, Action, NoCompletion, vars, panel, worker, keys,
           PanelRuns, Answered, Shown, Fresh, Issue, NewCommand, TrySend, Sent,
           Sendable
<1>4. CASE \E k \in Clicks : Click(k)
    BY <1>4 DEF IInv, TypeOK, Epochs, Sequence, Slots, OneAtATime, Awaited, Busy, Page,
           Task, Answers, PC, Action, NoCompletion, vars, panel, worker, keys,
           PanelRuns, Click, Issue, NewCommand, TrySend, Sent, Sendable
<1>5. CASE StartSourcePoll
    BY <1>5 DEF IInv, TypeOK, Epochs, Sequence, Slots, OneAtATime, Awaited, Busy, Page,
           Task, Answers, PC, Action, NoCompletion, vars, panel, worker, keys,
           PanelRuns, StartSourcePoll, NewCommand, TrySend, Sent, Sendable
<1>6. CASE Cancel
    BY <1>6 DEF IInv, TypeOK, Epochs, Sequence, Slots, OneAtATime, Awaited, Busy, Page,
           Task, Answers, PC, Action, NoCompletion, vars, panel, worker, keys,
           PanelRuns, Cancel, Cancelled
<1>7. CASE CloseTool
    BY <1>7 DEF IInv, TypeOK, Epochs, Sequence, Slots, OneAtATime, Awaited, Busy, Page,
           Task, Answers, PC, Action, NoCompletion, vars, panel, worker, keys,
           PanelRuns, CloseTool, Cancelled, Issue, NewCommand, TrySend, Sent,
           Sendable
<1>8. CASE Drop
    BY <1>8 DEF IInv, TypeOK, Epochs, Sequence, Slots, OneAtATime, Awaited, Busy, Page,
           Task, Answers, PC, Action, NoCompletion, vars, panel, worker, keys,
           PanelRuns, Drop, Cancelled
<1>9. CASE Take
    BY <1>9 DEF IInv, TypeOK, Epochs, Sequence, Slots, OneAtATime, Awaited, Busy, Page,
           Task, Answers, PC, Action, NoCompletion, vars, panel, worker, keys,
           PanelRuns, Take, LastSeen
<1>10. CASE Check
    BY <1>10 DEF IInv, TypeOK, Epochs, Sequence, Slots, OneAtATime, Awaited, Busy, Page,
           Task, Answers, PC, Action, NoCompletion, vars, panel, worker, keys,
           PanelRuns, Check, Ends, action
<1>11. CASE Refuse
    BY <1>11 DEF IInv, TypeOK, Epochs, Sequence, Slots, OneAtATime, Awaited, Busy, Page,
           Task, Answers, PC, Action, NoCompletion, vars, panel, worker, keys,
           PanelRuns, Refuse, Ends
<1>12. CASE RunPoll
    BY <1>12 DEF IInv, TypeOK, Epochs, Sequence, Slots, OneAtATime, Awaited, Busy, Page,
           Task, Answers, PC, Action, NoCompletion, vars, panel, worker, keys,
           PanelRuns, RunPoll, Ends, action
<1>13. CASE RunView
    BY <1>13 DEF IInv, TypeOK, Epochs, Sequence, Slots, OneAtATime, Awaited, Busy, Page,
           Task, Answers, PC, Action, NoCompletion, vars, panel, worker, keys,
           PanelRuns, RunView, Ends, action, RunBoot, RunPrepare, RunClose, Shows
<1>14. CASE RunOpen
    BY <1>14 DEF IInv, TypeOK, Epochs, Sequence, Slots, OneAtATime, Awaited, Busy, Page,
           Task, Answers, PC, Action, NoCompletion, vars, panel, worker, keys,
           PanelRuns, RunOpen, Ends, action, Shows, Finished
<1>15. CASE RunDaily
    BY <1>15 DEF IInv, TypeOK, Epochs, Sequence, Slots, OneAtATime, Awaited, Busy, Page,
           Task, Answers, PC, Action, NoCompletion, vars, panel, worker, keys,
           PanelRuns, RunDaily, action
<1>16. CASE Commit
    BY <1>16 DEF IInv, TypeOK, Epochs, Sequence, Slots, OneAtATime, Awaited, Busy, Page,
           Task, Answers, PC, Action, NoCompletion, vars, panel, worker, keys,
           PanelRuns, Commit, Committed, Ends
<1>17. CASE Apply
    BY <1>17 DEF IInv, TypeOK, Epochs, Sequence, Slots, OneAtATime, Awaited, Busy, Page,
           Task, Answers, PC, Action, NoCompletion, vars, panel, worker, keys,
           PanelRuns, Apply
<1>18. CASE Verify
    BY <1>18 DEF IInv, TypeOK, Epochs, Sequence, Slots, OneAtATime, Awaited, Busy, Page,
           Task, Answers, PC, Action, NoCompletion, vars, panel, worker, keys,
           PanelRuns, Verify, Ends, Shows, Unresolved
<1>19. CASE Finish
    BY <1>19 DEF IInv, TypeOK, Epochs, Sequence, Slots, OneAtATime, Awaited, Busy, Page,
           Task, Answers, PC, Action, NoCompletion, vars, panel, worker, keys,
           PanelRuns, Finish, Finished, Shows, action, ClosedWhenCancelled
<1>20. CASE Answer
    BY <1>20 DEF IInv, TypeOK, Epochs, Sequence, Slots, OneAtATime, Awaited, Busy, Page,
           Task, Answers, PC, Action, NoCompletion, vars, panel, worker, keys,
           PanelRuns, Answer
<1>21. CASE Leave
    BY <1>21 DEF IInv, TypeOK, Epochs, Sequence, Slots, OneAtATime, Awaited, Busy, Page,
           Task, Answers, PC, Action, NoCompletion, vars, panel, worker, keys,
           PanelRuns, Leave
<1>22. CASE Panic
    BY <1>22 DEF IInv, TypeOK, Epochs, Sequence, Slots, OneAtATime, Awaited, Busy, Page,
           Task, Answers, PC, Action, NoCompletion, vars, panel, worker, keys,
           PanelRuns, Panic
<1>23. CASE UNCHANGED vars
    BY <1>23 DEF IInv, TypeOK, Epochs, Sequence, Slots, OneAtATime, Awaited, Busy, Page,
           Task, Answers, PC, Action, NoCompletion, vars, panel, worker, keys,
           PanelRuns
<1> QED
    BY <1>1, <1>2, <1>3, <1>4, <1>5, <1>6, <1>7, <1>8, <1>9, <1>10, <1>11, <1>12, <1>13, <1>14, <1>15, <1>16, <1>17, <1>18, <1>19, <1>20, <1>21, <1>22, <1>23 DEF Next, WorkerRuns

\* A step keeps the order of the commands.
LEMMA SequenceStep == IInv /\ [Next]_vars => Sequence'
<1> SUFFICES ASSUME IInv, [Next]_vars PROVE Sequence'
    OBVIOUS
<1> USE Identifiers
<1>1. CASE Flag
    BY <1>1 DEF IInv, TypeOK, Sequence, Slots, OneAtATime, Awaited, Busy, Page, Task,
           Answers, PC, Action, NoCompletion, vars, panel, worker, keys,
           PanelRuns, Flag
<1>2. CASE SourceAnswered
    BY <1>2 DEF IInv, TypeOK, Sequence, Slots, OneAtATime, Awaited, Busy, Page, Task,
           Answers, PC, Action, NoCompletion, vars, panel, worker, keys,
           PanelRuns, SourceAnswered, SendDeferred, TrySend, Sendable
<1>3. CASE Answered
    <2>1. seen' = seen /\ epoch \in Nat
        BY <1>3 DEF IInv, TypeOK, Answered, worker
    <2>2. CASE closing
        <3>1. Issue("Close", epoch) /\ "Close" \in Action
            BY <1>3, <2>2 DEF Answered, Action
        <3> QED
            BY <2>1, <3>1, SequenceIssue DEF IInv
    <2>3. CASE ~ closing
        BY <1>3, <2>1, <2>3 DEF IInv, Sequence, Answered, keys
    <2> QED
        BY <2>2, <2>3
<1>4. CASE \E k \in Clicks : Click(k)
    <2> PICK k \in Clicks : Click(k)
        BY <1>4
    <2>1. k \in Action /\ epoch \in Nat /\ Issue(k, epoch) /\ seen' = seen
        BY DEF Click, worker, IInv, TypeOK
    <2> QED
        BY <2>1, SequenceIssue DEF IInv
<1>5. CASE StartSourcePoll
    <2>1. issued' = issued + 1 /\ issued + 1 \in Nat /\ issued < issued + 1
        BY <1>5 DEF IInv, TypeOK, StartSourcePoll, NewCommand
    <2>2. /\ commands' = commands \/ commands' = issued + 1
          /\ deferred' = deferred /\ seen' = seen
        BY <1>5 DEF StartSourcePoll, TrySend, worker
    <2> QED
        BY <2>1, <2>2, Numbers, Identifiers DEF IInv, TypeOK, Sequence, Page
<1>6. CASE Cancel
    BY <1>6 DEF IInv, TypeOK, Sequence, Slots, OneAtATime, Awaited, Busy, Page, Task,
           Answers, PC, Action, NoCompletion, vars, panel, worker, keys,
           PanelRuns, Cancel, Cancelled
<1>7. CASE CloseTool
    <2>1. seen' = seen /\ epoch + 1 \in Nat
        BY <1>7 DEF IInv, TypeOK, CloseTool, worker
    <2>2. CASE pending = None
        <3>1. Issue("Close", epoch + 1) /\ "Close" \in Action
            BY <1>7, <2>2 DEF CloseTool, Action
        <3> QED
            BY <2>1, <3>1, SequenceIssue DEF IInv
    <2>3. CASE pending # None
        BY <1>7, <2>1, <2>3 DEF IInv, Sequence, CloseTool, keys
    <2> QED
        BY <2>2, <2>3
<1>8. CASE Drop
    BY <1>8 DEF IInv, TypeOK, Sequence, Slots, OneAtATime, Awaited, Busy, Page, Task,
           Answers, PC, Action, NoCompletion, vars, panel, worker, keys,
           PanelRuns, Drop, Cancelled
<1>9. CASE Take
    BY <1>9 DEF IInv, TypeOK, Sequence, Slots, OneAtATime, Awaited, Busy, Page, Task,
           Answers, PC, Action, NoCompletion, vars, panel, worker, keys,
           PanelRuns, Take, LastSeen
<1>10. CASE Check
    BY <1>10 DEF IInv, TypeOK, Sequence, Slots, OneAtATime, Awaited, Busy, Page, Task,
           Answers, PC, Action, NoCompletion, vars, panel, worker, keys,
           PanelRuns, Check, Ends, action
<1>11. CASE Refuse
    BY <1>11 DEF IInv, TypeOK, Sequence, Slots, OneAtATime, Awaited, Busy, Page, Task,
           Answers, PC, Action, NoCompletion, vars, panel, worker, keys,
           PanelRuns, Refuse, Ends
<1>12. CASE RunPoll
    BY <1>12 DEF IInv, TypeOK, Sequence, Slots, OneAtATime, Awaited, Busy, Page, Task,
           Answers, PC, Action, NoCompletion, vars, panel, worker, keys,
           PanelRuns, RunPoll, Ends, action
<1>13. CASE RunView
    BY <1>13 DEF IInv, TypeOK, Sequence, Slots, OneAtATime, Awaited, Busy, Page, Task,
           Answers, PC, Action, NoCompletion, vars, panel, worker, keys,
           PanelRuns, RunView, Ends, action, RunBoot, RunPrepare, RunClose, Shows
<1>14. CASE RunOpen
    BY <1>14 DEF IInv, TypeOK, Sequence, Slots, OneAtATime, Awaited, Busy, Page, Task,
           Answers, PC, Action, NoCompletion, vars, panel, worker, keys,
           PanelRuns, RunOpen, Ends, action, Shows, Finished
<1>15. CASE RunDaily
    BY <1>15 DEF IInv, TypeOK, Sequence, Slots, OneAtATime, Awaited, Busy, Page, Task,
           Answers, PC, Action, NoCompletion, vars, panel, worker, keys,
           PanelRuns, RunDaily, action
<1>16. CASE Commit
    BY <1>16 DEF IInv, TypeOK, Sequence, Slots, OneAtATime, Awaited, Busy, Page, Task,
           Answers, PC, Action, NoCompletion, vars, panel, worker, keys,
           PanelRuns, Commit, Committed, Ends
<1>17. CASE Apply
    BY <1>17 DEF IInv, TypeOK, Sequence, Slots, OneAtATime, Awaited, Busy, Page, Task,
           Answers, PC, Action, NoCompletion, vars, panel, worker, keys,
           PanelRuns, Apply
<1>18. CASE Verify
    BY <1>18 DEF IInv, TypeOK, Sequence, Slots, OneAtATime, Awaited, Busy, Page, Task,
           Answers, PC, Action, NoCompletion, vars, panel, worker, keys,
           PanelRuns, Verify, Ends, Shows, Unresolved
<1>19. CASE Finish
    BY <1>19 DEF IInv, TypeOK, Sequence, Slots, OneAtATime, Awaited, Busy, Page, Task,
           Answers, PC, Action, NoCompletion, vars, panel, worker, keys,
           PanelRuns, Finish, Finished, Shows, action, ClosedWhenCancelled
<1>20. CASE Answer
    BY <1>20 DEF IInv, TypeOK, Sequence, Slots, OneAtATime, Awaited, Busy, Page, Task,
           Answers, PC, Action, NoCompletion, vars, panel, worker, keys,
           PanelRuns, Answer
<1>21. CASE Leave
    BY <1>21 DEF IInv, TypeOK, Sequence, Slots, OneAtATime, Awaited, Busy, Page, Task,
           Answers, PC, Action, NoCompletion, vars, panel, worker, keys,
           PanelRuns, Leave
<1>22. CASE Panic
    BY <1>22 DEF IInv, TypeOK, Sequence, Slots, OneAtATime, Awaited, Busy, Page, Task,
           Answers, PC, Action, NoCompletion, vars, panel, worker, keys,
           PanelRuns, Panic
<1>23. CASE UNCHANGED vars
    BY <1>23 DEF IInv, TypeOK, Sequence, Slots, OneAtATime, Awaited, Busy, Page, Task,
           Answers, PC, Action, NoCompletion, vars, panel, worker, keys,
           PanelRuns
<1> QED
    BY <1>1, <1>2, <1>3, <1>4, <1>5, <1>6, <1>7, <1>8, <1>9, <1>10, <1>11, <1>12, <1>13, <1>14, <1>15, <1>16, <1>17, <1>18, <1>19, <1>20, <1>21, <1>22, <1>23 DEF Next, WorkerRuns

\* A step keeps the gates right.
LEMMA GatesStep == IInv /\ [Next]_vars => Gates'
<1> SUFFICES ASSUME IInv, [Next]_vars PROVE Gates'
    OBVIOUS
<1> USE Identifiers
<1>1. CASE Flag
    BY <1>1 DEF IInv, TypeOK, Gates, Sequence, Handling, Slots, OneAtATime, Awaited,
           Busy, Page, Task, Answers, PC, Action, NoCompletion, action, vars,
           panel, worker, keys, PanelRuns, Flag
<1>2. CASE SourceAnswered
    BY <1>2 DEF IInv, TypeOK, Gates, Sequence, Handling, Slots, OneAtATime, Awaited,
           Busy, Page, Task, Answers, PC, Action, NoCompletion, action, vars,
           panel, worker, keys, PanelRuns, SourceAnswered, SendDeferred, TrySend,
           Sendable
<1>3. CASE Answered
    BY <1>3 DEF IInv, TypeOK, Gates, Sequence, Handling, Slots, OneAtATime, Awaited,
           Busy, Page, Task, Answers, PC, Action, NoCompletion, action, vars,
           panel, worker, keys, PanelRuns, Answered, Shown, Fresh, Issue,
           NewCommand, TrySend, Sent, Sendable
<1>4. CASE \E k \in Clicks : Click(k)
    BY <1>4 DEF IInv, TypeOK, Gates, Sequence, Handling, Slots, OneAtATime, Awaited,
           Busy, Page, Task, Answers, PC, Action, NoCompletion, action, vars,
           panel, worker, keys, PanelRuns, Click, Issue, NewCommand, TrySend,
           Sent, Sendable
<1>5. CASE StartSourcePoll
    BY <1>5 DEF IInv, TypeOK, Gates, Sequence, Handling, Slots, OneAtATime, Awaited,
           Busy, Page, Task, Answers, PC, Action, NoCompletion, action, vars,
           panel, worker, keys, PanelRuns, StartSourcePoll, NewCommand, TrySend,
           Sent, Sendable
<1>6. CASE Cancel
    BY <1>6 DEF IInv, TypeOK, Gates, Sequence, Handling, Slots, OneAtATime, Awaited,
           Busy, Page, Task, Answers, PC, Action, NoCompletion, action, vars,
           panel, worker, keys, PanelRuns, Cancel, Cancelled
<1>7. CASE CloseTool
    <2>1. /\ gate' = Cancelled({sourcePoll, pending})
          /\ saved' = saved /\ seen' = seen
          /\ issued' = issued \/ (issued' = issued + 1 /\ issued + 1 \in Operations)
        BY <1>7, Issuing, Numbers, Identifiers DEF IInv, TypeOK, CloseTool, worker, keys, Issue, NewCommand
    <2>2. pending <= issued /\ sourcePoll <= issued
        BY DEF IInv, Slots
    <2>3. \A o \in Operations : issued' < o => gate'[o] = "open"
        BY <2>1, <2>2 DEF IInv, TypeOK, Gates, Cancelled, Page
    <2>4. \A o \in saved : gate'[o] = "committed" /\ o <= seen.operation
        BY <2>1 DEF IInv, TypeOK, Gates, Cancelled
    <2>5. \A o \in withdrawn' : gate'[o] = "cancelled"
        <3>1. \A o \in withdrawn : gate'[o] = "cancelled"
            BY <2>1 DEF IInv, TypeOK, Gates, Cancelled
        <3>2. \A o \in withdrawn' : o \in withdrawn \/ gate'[o] = "cancelled"
            BY <1>7 DEF CloseTool
        <3> QED
            BY <3>1, <3>2
    <2> QED
        BY <2>1, <2>3, <2>4, <2>5 DEF Gates
<1>8. CASE Drop
    BY <1>8 DEF IInv, TypeOK, Gates, Sequence, Handling, Slots, OneAtATime, Awaited,
           Busy, Page, Task, Answers, PC, Action, NoCompletion, action, vars,
           panel, worker, keys, PanelRuns, Drop, Cancelled
<1>9. CASE Take
    <2>1. /\ commands \in Operations /\ commands = Awaited /\ completion.operation = None
          /\ ~ Busy /\ seen.operation < commands /\ commands <= issued
        BY <1>9 DEF IInv, TypeOK, Page, Slots, OneAtATime, Awaited, Take, Sequence
    <2>2. command[commands].epoch >= seen.epoch /\ commands # seen.operation
        BY <1>9, NothingIsSkipped DEF NothingSkipped, Take
    <2>3. ~ (command[commands].epoch < seen.epoch \/ commands = seen.operation)
        BY <2>1, <2>2 DEF IInv, TypeOK
    <2>4. /\ pc' = "checking" /\ operation' = commands /\ commands' = None
          /\ seen' = LastSeen(commands) /\ committed' = None
        BY <1>9, <2>3 DEF Take

    <2>5. gate' = gate /\ saved' = saved /\ withdrawn' = withdrawn /\ issued' = issued
        BY <1>9 DEF Take, panel, keys
    <2> QED
        BY <2>1, <2>4, <2>5, Numbers, Identifiers DEF IInv, TypeOK, Gates, Sequence, LastSeen, Page
<1>10. CASE Check
    BY <1>10 DEF IInv, TypeOK, Gates, Sequence, Handling, Slots, OneAtATime, Awaited,
           Busy, Page, Task, Answers, PC, Action, NoCompletion, action, vars,
           panel, worker, keys, PanelRuns, Check, Ends
<1>11. CASE Refuse
    BY <1>11 DEF IInv, TypeOK, Gates, Sequence, Handling, Slots, OneAtATime, Awaited,
           Busy, Page, Task, Answers, PC, Action, NoCompletion, action, vars,
           panel, worker, keys, PanelRuns, Refuse, Ends
<1>12. CASE RunPoll
    BY <1>12 DEF IInv, TypeOK, Gates, Sequence, Handling, Slots, OneAtATime, Awaited,
           Busy, Page, Task, Answers, PC, Action, NoCompletion, action, vars,
           panel, worker, keys, PanelRuns, RunPoll, Ends
<1>13. CASE RunView
    BY <1>13 DEF IInv, TypeOK, Gates, Sequence, Handling, Slots, OneAtATime, Awaited,
           Busy, Page, Task, Answers, PC, Action, NoCompletion, action, vars,
           panel, worker, keys, PanelRuns, RunView, Ends, RunBoot, RunPrepare,
           RunClose, Shows
<1>14. CASE RunOpen
    BY <1>14 DEF IInv, TypeOK, Gates, Sequence, Handling, Slots, OneAtATime, Awaited,
           Busy, Page, Task, Answers, PC, Action, NoCompletion, action, vars,
           panel, worker, keys, PanelRuns, RunOpen, Ends, Shows, Finished
<1>15. CASE RunDaily
    BY <1>15 DEF IInv, TypeOK, Gates, Sequence, Handling, Slots, OneAtATime, Awaited,
           Busy, Page, Task, Answers, PC, Action, NoCompletion, action, vars,
           panel, worker, keys, PanelRuns, RunDaily
<1>16. CASE Commit
    BY <1>16 DEF IInv, TypeOK, Gates, Sequence, Handling, Slots, OneAtATime, Awaited,
           Busy, Page, Task, Answers, PC, Action, NoCompletion, action, vars,
           panel, worker, keys, PanelRuns, Commit, Committed, Ends
<1>17. CASE Apply
    BY <1>17 DEF IInv, TypeOK, Gates, Sequence, Handling, Slots, OneAtATime, Awaited,
           Busy, Page, Task, Answers, PC, Action, NoCompletion, action, vars,
           panel, worker, keys, PanelRuns, Apply
<1>18. CASE Verify
    BY <1>18 DEF IInv, TypeOK, Gates, Sequence, Handling, Slots, OneAtATime, Awaited,
           Busy, Page, Task, Answers, PC, Action, NoCompletion, action, vars,
           panel, worker, keys, PanelRuns, Verify, Ends, Shows, Unresolved
<1>19. CASE Finish
    BY <1>19 DEF IInv, TypeOK, Gates, Sequence, Handling, Slots, OneAtATime, Awaited,
           Busy, Page, Task, Answers, PC, Action, NoCompletion, action, vars,
           panel, worker, keys, PanelRuns, Finish, Finished, Shows,
           ClosedWhenCancelled
<1>20. CASE Answer
    BY <1>20 DEF IInv, TypeOK, Gates, Sequence, Handling, Slots, OneAtATime, Awaited,
           Busy, Page, Task, Answers, PC, Action, NoCompletion, action, vars,
           panel, worker, keys, PanelRuns, Answer
<1>21. CASE Leave
    BY <1>21 DEF IInv, TypeOK, Gates, Sequence, Handling, Slots, OneAtATime, Awaited,
           Busy, Page, Task, Answers, PC, Action, NoCompletion, action, vars,
           panel, worker, keys, PanelRuns, Leave
<1>22. CASE Panic
    BY <1>22 DEF IInv, TypeOK, Gates, Sequence, Handling, Slots, OneAtATime, Awaited,
           Busy, Page, Task, Answers, PC, Action, NoCompletion, action, vars,
           panel, worker, keys, PanelRuns, Panic
<1>23. CASE UNCHANGED vars
    BY <1>23 DEF IInv, TypeOK, Gates, Sequence, Handling, Slots, OneAtATime, Awaited,
           Busy, Page, Task, Answers, PC, Action, NoCompletion, action, vars,
           panel, worker, keys, PanelRuns
<1> QED
    BY <1>1, <1>2, <1>3, <1>4, <1>5, <1>6, <1>7, <1>8, <1>9, <1>10, <1>11, <1>12, <1>13, <1>14, <1>15, <1>16, <1>17, <1>18, <1>19, <1>20, <1>21, <1>22, <1>23 DEF Next, WorkerRuns

\* A step keeps what the worker knows right.
LEMMA HandlingStep == IInv /\ [Next]_vars => Handling'
<1> SUFFICES ASSUME IInv, [Next]_vars PROVE Handling'
    OBVIOUS
<1> USE Identifiers
<1>1. CASE Flag
    BY <1>1 DEF IInv, TypeOK, Gates, Sequence, Handling, Slots, OneAtATime, Awaited,
           Busy, Page, Task, Answers, PC, Action, NoCompletion, action, vars,
           panel, worker, keys, PanelRuns, Flag
<1>2. CASE SourceAnswered
    BY <1>2 DEF IInv, TypeOK, Gates, Sequence, Handling, Slots, OneAtATime, Awaited,
           Busy, Page, Task, Answers, PC, Action, NoCompletion, action, vars,
           panel, worker, keys, PanelRuns, SourceAnswered, SendDeferred, TrySend,
           Sendable
<1>3. CASE Answered
    BY <1>3 DEF IInv, TypeOK, Gates, Sequence, Handling, Slots, OneAtATime, Awaited,
           Busy, Page, Task, Answers, PC, Action, NoCompletion, action, vars,
           panel, worker, keys, PanelRuns, Answered, Shown, Fresh, Issue,
           NewCommand, TrySend, Sent, Sendable
<1>4. CASE \E k \in Clicks : Click(k)
    BY <1>4 DEF IInv, TypeOK, Gates, Sequence, Handling, Slots, OneAtATime, Awaited,
           Busy, Page, Task, Answers, PC, Action, NoCompletion, action, vars,
           panel, worker, keys, PanelRuns, Click, Issue, NewCommand, TrySend,
           Sent, Sendable
<1>5. CASE StartSourcePoll
    BY <1>5 DEF IInv, TypeOK, Gates, Sequence, Handling, Slots, OneAtATime, Awaited,
           Busy, Page, Task, Answers, PC, Action, NoCompletion, action, vars,
           panel, worker, keys, PanelRuns, StartSourcePoll, NewCommand, TrySend,
           Sent, Sendable
<1>6. CASE Cancel
    BY <1>6 DEF IInv, TypeOK, Gates, Sequence, Handling, Slots, OneAtATime, Awaited,
           Busy, Page, Task, Answers, PC, Action, NoCompletion, action, vars,
           panel, worker, keys, PanelRuns, Cancel, Cancelled
<1>7. CASE CloseTool
    BY <1>7 DEF IInv, TypeOK, Gates, Sequence, Handling, Slots, OneAtATime, Awaited,
           Busy, Page, Task, Answers, PC, Action, NoCompletion, action, vars,
           panel, worker, keys, PanelRuns, CloseTool, Cancelled, Issue,
           NewCommand, TrySend, Sent, Sendable
<1>8. CASE Drop
    BY <1>8 DEF IInv, TypeOK, Gates, Sequence, Handling, Slots, OneAtATime, Awaited,
           Busy, Page, Task, Answers, PC, Action, NoCompletion, action, vars,
           panel, worker, keys, PanelRuns, Drop, Cancelled
<1>9. CASE Take
    <2>1. /\ commands \in Operations /\ commands = Awaited /\ completion.operation = None
          /\ ~ Busy /\ seen.operation < commands /\ commands <= issued
        BY <1>9 DEF IInv, TypeOK, Page, Slots, OneAtATime, Awaited, Take, Sequence
    <2>2. command[commands].epoch >= seen.epoch /\ commands # seen.operation
        BY <1>9, NothingIsSkipped DEF NothingSkipped, Take
    <2>3. ~ (command[commands].epoch < seen.epoch \/ commands = seen.operation)
        BY <2>1, <2>2 DEF IInv, TypeOK
    <2>4. /\ pc' = "checking" /\ operation' = commands /\ commands' = None
          /\ seen' = LastSeen(commands) /\ committed' = None
        BY <1>9, <2>3 DEF Take

    <2>5. commands \notin saved /\ saved' = saved
        BY <1>9, <2>1, Numbers, Identifiers DEF IInv, TypeOK, Gates, Take, Page
    <2> QED
        BY <2>4, <2>5 DEF Handling
<1>10. CASE Check
    BY <1>10 DEF IInv, TypeOK, Gates, Sequence, Handling, Slots, OneAtATime, Awaited,
           Busy, Page, Task, Answers, PC, Action, NoCompletion, action, vars,
           panel, worker, keys, PanelRuns, Check, Ends
<1>11. CASE Refuse
    BY <1>11 DEF IInv, TypeOK, Gates, Sequence, Handling, Slots, OneAtATime, Awaited,
           Busy, Page, Task, Answers, PC, Action, NoCompletion, action, vars,
           panel, worker, keys, PanelRuns, Refuse, Ends
<1>12. CASE RunPoll
    BY <1>12 DEF IInv, TypeOK, Gates, Sequence, Handling, Slots, OneAtATime, Awaited,
           Busy, Page, Task, Answers, PC, Action, NoCompletion, action, vars,
           panel, worker, keys, PanelRuns, RunPoll, Ends
<1>13. CASE RunView
    BY <1>13 DEF IInv, TypeOK, Gates, Sequence, Handling, Slots, OneAtATime, Awaited,
           Busy, Page, Task, Answers, PC, Action, NoCompletion, action, vars,
           panel, worker, keys, PanelRuns, RunView, Ends, RunBoot, RunPrepare,
           RunClose, Shows
<1>14. CASE RunOpen
    BY <1>14 DEF IInv, TypeOK, Gates, Sequence, Handling, Slots, OneAtATime, Awaited,
           Busy, Page, Task, Answers, PC, Action, NoCompletion, action, vars,
           panel, worker, keys, PanelRuns, RunOpen, Ends, Shows, Finished
<1>15. CASE RunDaily
    BY <1>15 DEF IInv, TypeOK, Gates, Sequence, Handling, Slots, OneAtATime, Awaited,
           Busy, Page, Task, Answers, PC, Action, NoCompletion, action, vars,
           panel, worker, keys, PanelRuns, RunDaily
<1>16. CASE Commit
    BY <1>16 DEF IInv, TypeOK, Gates, Sequence, Handling, Slots, OneAtATime, Awaited,
           Busy, Page, Task, Answers, PC, Action, NoCompletion, action, vars,
           panel, worker, keys, PanelRuns, Commit, Committed, Ends
<1>17. CASE Apply
    BY <1>17 DEF IInv, TypeOK, Gates, Sequence, Handling, Slots, OneAtATime, Awaited,
           Busy, Page, Task, Answers, PC, Action, NoCompletion, action, vars,
           panel, worker, keys, PanelRuns, Apply
<1>18. CASE Verify
    BY <1>18 DEF IInv, TypeOK, Gates, Sequence, Handling, Slots, OneAtATime, Awaited,
           Busy, Page, Task, Answers, PC, Action, NoCompletion, action, vars,
           panel, worker, keys, PanelRuns, Verify, Ends, Shows, Unresolved
<1>19. CASE Finish
    BY <1>19 DEF IInv, TypeOK, Gates, Sequence, Handling, Slots, OneAtATime, Awaited,
           Busy, Page, Task, Answers, PC, Action, NoCompletion, action, vars,
           panel, worker, keys, PanelRuns, Finish, Finished, Shows,
           ClosedWhenCancelled
<1>20. CASE Answer
    BY <1>20 DEF IInv, TypeOK, Gates, Sequence, Handling, Slots, OneAtATime, Awaited,
           Busy, Page, Task, Answers, PC, Action, NoCompletion, action, vars,
           panel, worker, keys, PanelRuns, Answer
<1>21. CASE Leave
    BY <1>21 DEF IInv, TypeOK, Gates, Sequence, Handling, Slots, OneAtATime, Awaited,
           Busy, Page, Task, Answers, PC, Action, NoCompletion, action, vars,
           panel, worker, keys, PanelRuns, Leave
<1>22. CASE Panic
    BY <1>22 DEF IInv, TypeOK, Gates, Sequence, Handling, Slots, OneAtATime, Awaited,
           Busy, Page, Task, Answers, PC, Action, NoCompletion, action, vars,
           panel, worker, keys, PanelRuns, Panic
<1>23. CASE UNCHANGED vars
    BY <1>23 DEF IInv, TypeOK, Gates, Sequence, Handling, Slots, OneAtATime, Awaited,
           Busy, Page, Task, Answers, PC, Action, NoCompletion, action, vars,
           panel, worker, keys, PanelRuns
<1> QED
    BY <1>1, <1>2, <1>3, <1>4, <1>5, <1>6, <1>7, <1>8, <1>9, <1>10, <1>11, <1>12, <1>13, <1>14, <1>15, <1>16, <1>17, <1>18, <1>19, <1>20, <1>21, <1>22, <1>23 DEF Next, WorkerRuns

\* A step keeps the answer on its way right.
LEMMA SendingStep == IInv /\ [Next]_vars => Sending'
<1> SUFFICES ASSUME IInv, [Next]_vars PROVE Sending'
    OBVIOUS
<1> USE Identifiers
<1>1. CASE Flag
    BY <1>1 DEF IInv, TypeOK, Gates, Handling, Sending, Slots, OneAtATime, Awaited,
           Busy, Page, Task, Answers, PC, Action, NoCompletion, vars, panel,
           worker, keys, PanelRuns, Flag
<1>2. CASE SourceAnswered
    BY <1>2 DEF IInv, TypeOK, Gates, Handling, Sending, Slots, OneAtATime, Awaited,
           Busy, Page, Task, Answers, PC, Action, NoCompletion, vars, panel,
           worker, keys, PanelRuns, SourceAnswered, SendDeferred, TrySend,
           Sendable
<1>3. CASE Answered
    BY <1>3 DEF IInv, TypeOK, Gates, Handling, Sending, Slots, OneAtATime, Awaited,
           Busy, Page, Task, Answers, PC, Action, NoCompletion, vars, panel,
           worker, keys, PanelRuns, Answered, Shown, Fresh, Issue, NewCommand,
           TrySend, Sent, Sendable
<1>4. CASE \E k \in Clicks : Click(k)
    BY <1>4 DEF IInv, TypeOK, Gates, Handling, Sending, Slots, OneAtATime, Awaited,
           Busy, Page, Task, Answers, PC, Action, NoCompletion, vars, panel,
           worker, keys, PanelRuns, Click, Issue, NewCommand, TrySend, Sent,
           Sendable
<1>5. CASE StartSourcePoll
    BY <1>5 DEF IInv, TypeOK, Gates, Handling, Sending, Slots, OneAtATime, Awaited,
           Busy, Page, Task, Answers, PC, Action, NoCompletion, vars, panel,
           worker, keys, PanelRuns, StartSourcePoll, NewCommand, TrySend, Sent,
           Sendable
<1>6. CASE Cancel
    BY <1>6 DEF IInv, TypeOK, Gates, Handling, Sending, Slots, OneAtATime, Awaited,
           Busy, Page, Task, Answers, PC, Action, NoCompletion, vars, panel,
           worker, keys, PanelRuns, Cancel, Cancelled
<1>7. CASE CloseTool
    BY <1>7 DEF IInv, TypeOK, Gates, Handling, Sending, Slots, OneAtATime, Awaited,
           Busy, Page, Task, Answers, PC, Action, NoCompletion, vars, panel,
           worker, keys, PanelRuns, CloseTool, Cancelled, Issue, NewCommand,
           TrySend, Sent, Sendable
<1>8. CASE Drop
    BY <1>8 DEF IInv, TypeOK, Gates, Handling, Sending, Slots, OneAtATime, Awaited,
           Busy, Page, Task, Answers, PC, Action, NoCompletion, vars, panel,
           worker, keys, PanelRuns, Drop, Cancelled
<1>9. CASE Take
    BY <1>9 DEF IInv, TypeOK, Gates, Handling, Sending, Slots, OneAtATime, Awaited,
           Busy, Page, Task, Answers, PC, Action, NoCompletion, vars, panel,
           worker, keys, PanelRuns, Take, LastSeen
<1>10. CASE Check
    BY <1>10 DEF IInv, TypeOK, Gates, Handling, Sending, Slots, OneAtATime, Awaited,
           Busy, Page, Task, Answers, PC, Action, NoCompletion, vars, panel,
           worker, keys, PanelRuns, Check, Ends, action
<1>11. CASE Refuse
    BY <1>11 DEF IInv, TypeOK, Gates, Handling, Sending, Slots, OneAtATime, Awaited,
           Busy, Page, Task, Answers, PC, Action, NoCompletion, vars, panel,
           worker, keys, PanelRuns, Refuse, Ends
<1>12. CASE RunPoll
    BY <1>12 DEF IInv, TypeOK, Gates, Handling, Sending, Slots, OneAtATime, Awaited,
           Busy, Page, Task, Answers, PC, Action, NoCompletion, vars, panel,
           worker, keys, PanelRuns, RunPoll, Ends, action
<1>13. CASE RunView
    BY <1>13 DEF IInv, TypeOK, Gates, Handling, Sending, Slots, OneAtATime, Awaited,
           Busy, Page, Task, Answers, PC, Action, NoCompletion, vars, panel,
           worker, keys, PanelRuns, RunView, Ends, action, RunBoot, RunPrepare,
           RunClose, Shows
<1>14. CASE RunOpen
    BY <1>14 DEF IInv, TypeOK, Gates, Handling, Sending, Slots, OneAtATime, Awaited,
           Busy, Page, Task, Answers, PC, Action, NoCompletion, vars, panel,
           worker, keys, PanelRuns, RunOpen, Ends, action, Shows, Finished
<1>15. CASE RunDaily
    BY <1>15 DEF IInv, TypeOK, Gates, Handling, Sending, Slots, OneAtATime, Awaited,
           Busy, Page, Task, Answers, PC, Action, NoCompletion, vars, panel,
           worker, keys, PanelRuns, RunDaily, action
<1>16. CASE Commit
    BY <1>16 DEF IInv, TypeOK, Gates, Handling, Sending, Slots, OneAtATime, Awaited,
           Busy, Page, Task, Answers, PC, Action, NoCompletion, vars, panel,
           worker, keys, PanelRuns, Commit, Committed, Ends
<1>17. CASE Apply
    BY <1>17 DEF IInv, TypeOK, Gates, Handling, Sending, Slots, OneAtATime, Awaited,
           Busy, Page, Task, Answers, PC, Action, NoCompletion, vars, panel,
           worker, keys, PanelRuns, Apply
<1>18. CASE Verify
    BY <1>18 DEF IInv, TypeOK, Gates, Handling, Sending, Slots, OneAtATime, Awaited,
           Busy, Page, Task, Answers, PC, Action, NoCompletion, vars, panel,
           worker, keys, PanelRuns, Verify, Ends, Shows, Unresolved
<1>19. CASE Finish
    BY <1>19 DEF IInv, TypeOK, Gates, Handling, Sending, Slots, OneAtATime, Awaited,
           Busy, Page, Task, Answers, PC, Action, NoCompletion, vars, panel,
           worker, keys, PanelRuns, Finish, Finished, Shows, action,
           ClosedWhenCancelled
<1>20. CASE Answer
    BY <1>20 DEF IInv, TypeOK, Gates, Handling, Sending, Slots, OneAtATime, Awaited,
           Busy, Page, Task, Answers, PC, Action, NoCompletion, vars, panel,
           worker, keys, PanelRuns, Answer
<1>21. CASE Leave
    BY <1>21 DEF IInv, TypeOK, Gates, Handling, Sending, Slots, OneAtATime, Awaited,
           Busy, Page, Task, Answers, PC, Action, NoCompletion, vars, panel,
           worker, keys, PanelRuns, Leave
<1>22. CASE Panic
    BY <1>22 DEF IInv, TypeOK, Gates, Handling, Sending, Slots, OneAtATime, Awaited,
           Busy, Page, Task, Answers, PC, Action, NoCompletion, vars, panel,
           worker, keys, PanelRuns, Panic
<1>23. CASE UNCHANGED vars
    BY <1>23 DEF IInv, TypeOK, Gates, Handling, Sending, Slots, OneAtATime, Awaited,
           Busy, Page, Task, Answers, PC, Action, NoCompletion, vars, panel,
           worker, keys, PanelRuns
<1> QED
    BY <1>1, <1>2, <1>3, <1>4, <1>5, <1>6, <1>7, <1>8, <1>9, <1>10, <1>11, <1>12, <1>13, <1>14, <1>15, <1>16, <1>17, <1>18, <1>19, <1>20, <1>21, <1>22, <1>23 DEF Next, WorkerRuns

\* A step keeps the answers given right.
LEMMA GivenStep == IInv /\ [Next]_vars => Given'
<1> SUFFICES ASSUME IInv, [Next]_vars PROVE Given'
    OBVIOUS
<1> USE Identifiers
<1>1. CASE Flag
    BY <1>1 DEF IInv, TypeOK, Sequence, Gates, Handling, Sending, Given,
           AnswersAreTrue, Slots, OneAtATime, Awaited, Busy, Page, Task, Answers,
           PC, Action, NoCompletion, vars, panel, worker, keys, PanelRuns, Flag
<1>2. CASE SourceAnswered
    BY <1>2 DEF IInv, TypeOK, Sequence, Gates, Handling, Sending, Given,
           AnswersAreTrue, Slots, OneAtATime, Awaited, Busy, Page, Task, Answers,
           PC, Action, NoCompletion, vars, panel, worker, keys, PanelRuns,
           SourceAnswered, SendDeferred, TrySend, Sendable
<1>3. CASE Answered
    <2>1. /\ pending \in Operations /\ completion.operation = pending
          /\ told' = [told EXCEPT ![pending] = completion.answer]
          /\ completion'.operation = None
          /\ saved' = saved /\ seen' = seen /\ operation' = operation /\ Busy' = Busy
        BY <1>3 DEF IInv, TypeOK, Answered, worker, Busy, NoCompletion, Page
    <2>2. pending <= seen.operation /\ ~ Busy /\ seen.operation <= issued
        BY <2>1 DEF IInv, Sending, Slots, OneAtATime, Sequence
    <2>3. \A o \in Operations : told'[o] # "nothing" => o <= seen.operation /\ o <= issued
        BY <2>1, <2>2, Numbers, Identifiers DEF IInv, TypeOK, Given, Page
    <2>4. \A o \in Operations : told'[o] # "nothing" => o # pending'
        <3>1. CASE closing
            <4>1. Issue("Close", epoch) /\ "Close" \in Action /\ epoch \in Nat
                BY <1>3, <3>1 DEF Answered, Action, IInv, TypeOK
            <4> QED
                BY <4>1, <2>3, GivenIssue DEF IInv
        <3>2. CASE ~ closing
            BY <1>3, <3>2 DEF Answered
        <3> QED
            BY <3>1, <3>2
    <2>5. AnswersAreTrue'
        BY <2>1 DEF IInv, TypeOK, Sending, Given, AnswersAreTrue
    <2> QED
        BY <2>1, <2>2, <2>3, <2>4, <2>5 DEF Given
<1>4. CASE \E k \in Clicks : Click(k)
    <2> PICK k \in Clicks : Click(k)
        BY <1>4
    <2>1. k \in Action /\ epoch \in Nat /\ Issue(k, epoch)
        BY DEF Click, IInv, TypeOK
    <2>2. /\ told' = told /\ completion' = completion /\ saved' = saved
          /\ seen' = seen /\ operation' = operation /\ Busy' = Busy
        BY DEF Click, worker, Busy
    <2>3. \A o \in Operations : told[o] # "nothing" => o <= issued
        BY Numbers, Identifiers DEF IInv, TypeOK, Given, Sequence, Page
    <2>4. \A o \in Operations : told[o] # "nothing" => o # pending'
        BY <2>1, <2>3, GivenIssue DEF IInv
    <2> QED
        BY <2>2, <2>4 DEF IInv, Given, AnswersAreTrue
<1>5. CASE StartSourcePoll
    BY <1>5 DEF IInv, TypeOK, Sequence, Gates, Handling, Sending, Given,
           AnswersAreTrue, Slots, OneAtATime, Awaited, Busy, Page, Task, Answers,
           PC, Action, NoCompletion, vars, panel, worker, keys, PanelRuns,
           StartSourcePoll, NewCommand, TrySend, Sent, Sendable
<1>6. CASE Cancel
    BY <1>6 DEF IInv, TypeOK, Sequence, Gates, Handling, Sending, Given,
           AnswersAreTrue, Slots, OneAtATime, Awaited, Busy, Page, Task, Answers,
           PC, Action, NoCompletion, vars, panel, worker, keys, PanelRuns, Cancel,
           Cancelled
<1>7. CASE CloseTool
    <2>1. /\ told' = told /\ completion' = completion /\ saved' = saved
          /\ seen' = seen /\ operation' = operation /\ Busy' = Busy
        BY <1>7 DEF CloseTool, worker, Busy
    <2>2. \A o \in Operations : told[o] # "nothing" => o <= issued
        BY Numbers, Identifiers DEF IInv, TypeOK, Given, Sequence, Page
    <2>3. \A o \in Operations : told[o] # "nothing" => o # pending'
        <3>1. CASE pending = None
            <4>1. Issue("Close", epoch + 1) /\ "Close" \in Action /\ epoch + 1 \in Nat
                BY <1>7, <3>1 DEF CloseTool, Action, IInv, TypeOK
            <4> QED
                BY <4>1, <2>2, GivenIssue DEF IInv
        <3>2. CASE pending # None
            BY <1>7, <3>2 DEF IInv, Given, CloseTool
        <3> QED
            BY <3>1, <3>2
    <2> QED
        BY <2>1, <2>3 DEF IInv, Given, AnswersAreTrue
<1>8. CASE Drop
    BY <1>8 DEF IInv, TypeOK, Sequence, Gates, Handling, Sending, Given,
           AnswersAreTrue, Slots, OneAtATime, Awaited, Busy, Page, Task, Answers,
           PC, Action, NoCompletion, vars, panel, worker, keys, PanelRuns, Drop,
           Cancelled
<1>9. CASE Take
    <2>1. /\ commands \in Operations /\ commands = Awaited /\ completion.operation = None
          /\ ~ Busy /\ seen.operation < commands /\ commands <= issued
        BY <1>9 DEF IInv, TypeOK, Page, Slots, OneAtATime, Awaited, Take, Sequence
    <2>2. command[commands].epoch >= seen.epoch /\ commands # seen.operation
        BY <1>9, NothingIsSkipped DEF NothingSkipped, Take
    <2>3. ~ (command[commands].epoch < seen.epoch \/ commands = seen.operation)
        BY <2>1, <2>2 DEF IInv, TypeOK
    <2>4. /\ pc' = "checking" /\ operation' = commands /\ commands' = None
          /\ seen' = LastSeen(commands) /\ committed' = None
        BY <1>9, <2>3 DEF Take

    <2>5. /\ told' = told /\ completion' = completion /\ pending' = pending /\ saved' = saved
        BY <1>9 DEF Take, panel
    <2>6. \A o \in Operations : told[o] # "nothing" => o < commands
        BY <2>1, Numbers, Identifiers DEF IInv, TypeOK, Given, Page
    <2> QED
        BY <2>1, <2>4, <2>5, <2>6 DEF IInv, TypeOK, Given, AnswersAreTrue, LastSeen, Page
<1>10. CASE Check
    BY <1>10 DEF IInv, TypeOK, Sequence, Gates, Handling, Sending, Given,
           AnswersAreTrue, Slots, OneAtATime, Awaited, Busy, Page, Task, Answers,
           PC, Action, NoCompletion, vars, panel, worker, keys, PanelRuns, Check,
           Ends, action
<1>11. CASE Refuse
    BY <1>11 DEF IInv, TypeOK, Sequence, Gates, Handling, Sending, Given,
           AnswersAreTrue, Slots, OneAtATime, Awaited, Busy, Page, Task, Answers,
           PC, Action, NoCompletion, vars, panel, worker, keys, PanelRuns, Refuse,
           Ends
<1>12. CASE RunPoll
    BY <1>12 DEF IInv, TypeOK, Sequence, Gates, Handling, Sending, Given,
           AnswersAreTrue, Slots, OneAtATime, Awaited, Busy, Page, Task, Answers,
           PC, Action, NoCompletion, vars, panel, worker, keys, PanelRuns,
           RunPoll, Ends, action
<1>13. CASE RunView
    BY <1>13 DEF IInv, TypeOK, Sequence, Gates, Handling, Sending, Given,
           AnswersAreTrue, Slots, OneAtATime, Awaited, Busy, Page, Task, Answers,
           PC, Action, NoCompletion, vars, panel, worker, keys, PanelRuns,
           RunView, Ends, action, RunBoot, RunPrepare, RunClose, Shows
<1>14. CASE RunOpen
    BY <1>14 DEF IInv, TypeOK, Sequence, Gates, Handling, Sending, Given,
           AnswersAreTrue, Slots, OneAtATime, Awaited, Busy, Page, Task, Answers,
           PC, Action, NoCompletion, vars, panel, worker, keys, PanelRuns,
           RunOpen, Ends, action, Shows, Finished
<1>15. CASE RunDaily
    BY <1>15 DEF IInv, TypeOK, Sequence, Gates, Handling, Sending, Given,
           AnswersAreTrue, Slots, OneAtATime, Awaited, Busy, Page, Task, Answers,
           PC, Action, NoCompletion, vars, panel, worker, keys, PanelRuns,
           RunDaily, action
<1>16. CASE Commit
    BY <1>16 DEF IInv, TypeOK, Sequence, Gates, Handling, Sending, Given,
           AnswersAreTrue, Slots, OneAtATime, Awaited, Busy, Page, Task, Answers,
           PC, Action, NoCompletion, vars, panel, worker, keys, PanelRuns, Commit,
           Committed, Ends
<1>17. CASE Apply
    BY <1>17 DEF IInv, TypeOK, Sequence, Gates, Handling, Sending, Given,
           AnswersAreTrue, Slots, OneAtATime, Awaited, Busy, Page, Task, Answers,
           PC, Action, NoCompletion, vars, panel, worker, keys, PanelRuns, Apply
<1>18. CASE Verify
    BY <1>18 DEF IInv, TypeOK, Sequence, Gates, Handling, Sending, Given,
           AnswersAreTrue, Slots, OneAtATime, Awaited, Busy, Page, Task, Answers,
           PC, Action, NoCompletion, vars, panel, worker, keys, PanelRuns, Verify,
           Ends, Shows, Unresolved
<1>19. CASE Finish
    BY <1>19 DEF IInv, TypeOK, Sequence, Gates, Handling, Sending, Given,
           AnswersAreTrue, Slots, OneAtATime, Awaited, Busy, Page, Task, Answers,
           PC, Action, NoCompletion, vars, panel, worker, keys, PanelRuns, Finish,
           Finished, Shows, action, ClosedWhenCancelled
<1>20. CASE Answer
    BY <1>20 DEF IInv, TypeOK, Sequence, Gates, Handling, Sending, Given,
           AnswersAreTrue, Slots, OneAtATime, Awaited, Busy, Page, Task, Answers,
           PC, Action, NoCompletion, vars, panel, worker, keys, PanelRuns, Answer
<1>21. CASE Leave
    BY <1>21 DEF IInv, TypeOK, Sequence, Gates, Handling, Sending, Given,
           AnswersAreTrue, Slots, OneAtATime, Awaited, Busy, Page, Task, Answers,
           PC, Action, NoCompletion, vars, panel, worker, keys, PanelRuns, Leave
<1>22. CASE Panic
    BY <1>22 DEF IInv, TypeOK, Sequence, Gates, Handling, Sending, Given,
           AnswersAreTrue, Slots, OneAtATime, Awaited, Busy, Page, Task, Answers,
           PC, Action, NoCompletion, vars, panel, worker, keys, PanelRuns, Panic
<1>23. CASE UNCHANGED vars
    BY <1>23 DEF IInv, TypeOK, Sequence, Gates, Handling, Sending, Given,
           AnswersAreTrue, Slots, OneAtATime, Awaited, Busy, Page, Task, Answers,
           PC, Action, NoCompletion, vars, panel, worker, keys, PanelRuns
<1> QED
    BY <1>1, <1>2, <1>3, <1>4, <1>5, <1>6, <1>7, <1>8, <1>9, <1>10, <1>11, <1>12, <1>13, <1>14, <1>15, <1>16, <1>17, <1>18, <1>19, <1>20, <1>21, <1>22, <1>23 DEF Next, WorkerRuns

\* A step keeps what is shown and what is held consistent.
LEMMA ViewsStep == IInv /\ [Next]_vars => Views'
<1> SUFFICES ASSUME IInv, [Next]_vars PROVE Views'
    OBVIOUS
<1> USE Identifiers
<1>1. CASE Flag
    BY <1>1 DEF IInv, TypeOK, Epochs, Handling, Views, ClosedStaysClosed, IdleAgrees,
           action, Slots, OneAtATime, Awaited, Busy, Page, Task, Answers, PC,
           Action, NoCompletion, vars, panel, worker, keys, PanelRuns, Flag
<1>2. CASE SourceAnswered
    BY <1>2 DEF IInv, TypeOK, Epochs, Handling, Views, ClosedStaysClosed, IdleAgrees,
           action, Slots, OneAtATime, Awaited, Busy, Page, Task, Answers, PC,
           Action, NoCompletion, vars, panel, worker, keys, PanelRuns,
           SourceAnswered, SendDeferred, TrySend, Sendable
<1>3. CASE Answered
    BY <1>3 DEF IInv, TypeOK, Epochs, Handling, Views, ClosedStaysClosed, IdleAgrees,
           action, Slots, OneAtATime, Awaited, Busy, Page, Task, Answers, PC,
           Action, NoCompletion, vars, panel, worker, keys, PanelRuns, Answered,
           Shown, Fresh, Issue, NewCommand, TrySend, Sent, Sendable
<1>4. CASE \E k \in Clicks : Click(k)
    BY <1>4 DEF IInv, TypeOK, Epochs, Handling, Views, ClosedStaysClosed, IdleAgrees,
           action, Slots, OneAtATime, Awaited, Busy, Page, Task, Answers, PC,
           Action, NoCompletion, vars, panel, worker, keys, PanelRuns, Click,
           Issue, NewCommand, TrySend, Sent, Sendable
<1>5. CASE StartSourcePoll
    BY <1>5 DEF IInv, TypeOK, Epochs, Handling, Views, ClosedStaysClosed, IdleAgrees,
           action, Slots, OneAtATime, Awaited, Busy, Page, Task, Answers, PC,
           Action, NoCompletion, vars, panel, worker, keys, PanelRuns,
           StartSourcePoll, NewCommand, TrySend, Sent, Sendable
<1>6. CASE Cancel
    BY <1>6 DEF IInv, TypeOK, Epochs, Handling, Views, ClosedStaysClosed, IdleAgrees,
           action, Slots, OneAtATime, Awaited, Busy, Page, Task, Answers, PC,
           Action, NoCompletion, vars, panel, worker, keys, PanelRuns, Cancel,
           Cancelled
<1>7. CASE CloseTool
    BY <1>7 DEF IInv, TypeOK, Epochs, Handling, Views, ClosedStaysClosed, IdleAgrees,
           action, Slots, OneAtATime, Awaited, Busy, Page, Task, Answers, PC,
           Action, NoCompletion, vars, panel, worker, keys, PanelRuns, CloseTool,
           Cancelled, Issue, NewCommand, TrySend, Sent, Sendable
<1>8. CASE Drop
    BY <1>8 DEF IInv, TypeOK, Epochs, Handling, Views, ClosedStaysClosed, IdleAgrees,
           action, Slots, OneAtATime, Awaited, Busy, Page, Task, Answers, PC,
           Action, NoCompletion, vars, panel, worker, keys, PanelRuns, Drop,
           Cancelled
<1>9. CASE Take
    BY <1>9 DEF IInv, TypeOK, Epochs, Handling, Views, ClosedStaysClosed, IdleAgrees,
           action, Slots, OneAtATime, Awaited, Busy, Page, Task, Answers, PC,
           Action, NoCompletion, vars, panel, worker, keys, PanelRuns, Take,
           LastSeen
<1>10. CASE Check
    BY <1>10 DEF IInv, TypeOK, Epochs, Handling, Views, ClosedStaysClosed, IdleAgrees,
           action, Slots, OneAtATime, Awaited, Busy, Page, Task, Answers, PC,
           Action, NoCompletion, vars, panel, worker, keys, PanelRuns, Check,
           Ends
<1>11. CASE Refuse
    BY <1>11 DEF IInv, TypeOK, Epochs, Handling, Views, ClosedStaysClosed, IdleAgrees,
           action, Slots, OneAtATime, Awaited, Busy, Page, Task, Answers, PC,
           Action, NoCompletion, vars, panel, worker, keys, PanelRuns, Refuse,
           Ends
<1>12. CASE RunPoll
    BY <1>12 DEF IInv, TypeOK, Epochs, Handling, Views, ClosedStaysClosed, IdleAgrees,
           action, Slots, OneAtATime, Awaited, Busy, Page, Task, Answers, PC,
           Action, NoCompletion, vars, panel, worker, keys, PanelRuns, RunPoll,
           Ends
<1>13. CASE RunView
    BY <1>13 DEF IInv, TypeOK, Epochs, Handling, Views, ClosedStaysClosed, IdleAgrees,
           action, Slots, OneAtATime, Awaited, Busy, Page, Task, Answers, PC,
           Action, NoCompletion, vars, panel, worker, keys, PanelRuns, RunView,
           Ends, RunBoot, RunPrepare, RunClose, Shows
<1>14. CASE RunOpen
    BY <1>14 DEF IInv, TypeOK, Epochs, Handling, Views, ClosedStaysClosed, IdleAgrees,
           action, Slots, OneAtATime, Awaited, Busy, Page, Task, Answers, PC,
           Action, NoCompletion, vars, panel, worker, keys, PanelRuns, RunOpen,
           Ends, Shows, Finished
<1>15. CASE RunDaily
    BY <1>15 DEF IInv, TypeOK, Epochs, Handling, Views, ClosedStaysClosed, IdleAgrees,
           action, Slots, OneAtATime, Awaited, Busy, Page, Task, Answers, PC,
           Action, NoCompletion, vars, panel, worker, keys, PanelRuns, RunDaily
<1>16. CASE Commit
    BY <1>16 DEF IInv, TypeOK, Epochs, Handling, Views, ClosedStaysClosed, IdleAgrees,
           action, Slots, OneAtATime, Awaited, Busy, Page, Task, Answers, PC,
           Action, NoCompletion, vars, panel, worker, keys, PanelRuns, Commit,
           Committed, Ends
<1>17. CASE Apply
    BY <1>17 DEF IInv, TypeOK, Epochs, Handling, Views, ClosedStaysClosed, IdleAgrees,
           action, Slots, OneAtATime, Awaited, Busy, Page, Task, Answers, PC,
           Action, NoCompletion, vars, panel, worker, keys, PanelRuns, Apply
<1>18. CASE Verify
    BY <1>18 DEF IInv, TypeOK, Epochs, Handling, Views, ClosedStaysClosed, IdleAgrees,
           action, Slots, OneAtATime, Awaited, Busy, Page, Task, Answers, PC,
           Action, NoCompletion, vars, panel, worker, keys, PanelRuns, Verify,
           Ends, Shows, Unresolved
<1>19. CASE Finish
    BY <1>19 DEF IInv, TypeOK, Epochs, Handling, Views, ClosedStaysClosed, IdleAgrees,
           action, Slots, OneAtATime, Awaited, Busy, Page, Task, Answers, PC,
           Action, NoCompletion, vars, panel, worker, keys, PanelRuns, Finish,
           Finished, Shows, ClosedWhenCancelled
<1>20. CASE Answer
    BY <1>20 DEF IInv, TypeOK, Epochs, Handling, Views, ClosedStaysClosed, IdleAgrees,
           action, Slots, OneAtATime, Awaited, Busy, Page, Task, Answers, PC,
           Action, NoCompletion, vars, panel, worker, keys, PanelRuns, Answer
<1>21. CASE Leave
    BY <1>21 DEF IInv, TypeOK, Epochs, Handling, Views, ClosedStaysClosed, IdleAgrees,
           action, Slots, OneAtATime, Awaited, Busy, Page, Task, Answers, PC,
           Action, NoCompletion, vars, panel, worker, keys, PanelRuns, Leave
<1>22. CASE Panic
    BY <1>22 DEF IInv, TypeOK, Epochs, Handling, Views, ClosedStaysClosed, IdleAgrees,
           action, Slots, OneAtATime, Awaited, Busy, Page, Task, Answers, PC,
           Action, NoCompletion, vars, panel, worker, keys, PanelRuns, Panic
<1>23. CASE UNCHANGED vars
    BY <1>23 DEF IInv, TypeOK, Epochs, Handling, Views, ClosedStaysClosed, IdleAgrees,
           action, Slots, OneAtATime, Awaited, Busy, Page, Task, Answers, PC,
           Action, NoCompletion, vars, panel, worker, keys, PanelRuns
<1> QED
    BY <1>1, <1>2, <1>3, <1>4, <1>5, <1>6, <1>7, <1>8, <1>9, <1>10, <1>11, <1>12, <1>13, <1>14, <1>15, <1>16, <1>17, <1>18, <1>19, <1>20, <1>21, <1>22, <1>23 DEF Next, WorkerRuns

\* Initially only the boot command is on its way.
LEMMA Initially == Init => IInv
<1> SUFFICES ASSUME Init PROVE IInv
    OBVIOUS
<1> USE Identifiers
<1>1. TypeOK
    <2>1. \A o \in Operations : command[o].epoch <= epoch
        BY DEF Init
    <2> QED
        BY <2>1 DEF Init, TypeOK, Page, Task, Answers, PC, Action, NoCompletion
<1>2. Slots /\ Sequence
    BY DEF Init, Slots, Sequence, OneAtATime, Awaited, Busy, NoCompletion, None
<1>3. Epochs /\ Gates
    BY DEF Init, Epochs, Gates, None
<1>4. Handling /\ Sending /\ Given /\ Views
    BY DEF Init, Handling, Sending, Given, Views, AnswersAreTrue, ClosedStaysClosed,
           IdleAgrees, NoCompletion, Busy, None
<1> QED
    BY <1>1, <1>2, <1>3, <1>4 DEF IInv

\* The invariant behind all the others holds in every state of every behaviour.
THEOREM Inductive == Spec => []IInv
<1>1. Init => IInv
    BY Initially
<1>2. IInv /\ [Next]_vars => IInv'
    BY TypeStep, SlotsStep, EpochsStep, SequenceStep, GatesStep, HandlingStep,
       SendingStep, GivenStep, ViewsStep DEF IInv
<1> QED
    BY <1>1, <1>2, PTL DEF Spec

\* Every variable of the panel and of the worker keeps its type.
THEOREM TypeCorrect == Spec => []TypeOK
<1>1. IInv => TypeOK
    BY DEF IInv
<1> QED
    BY <1>1, Inductive, PTL

\* poll() and run() never meet a full channel or a completion of a command they
\* do not wait for, with any number of commands and closings.
THEOREM OneAtATimeCorrect == Spec => []OneAtATime
<1>1. IInv => OneAtATime
    BY DEF IInv, Slots
<1> QED
    BY <1>1, Inductive, PTL

\* run() never passes over a command as old or repeated.
THEOREM NothingSkippedCorrect == Spec => []NothingSkipped
<1> QED
    BY NothingIsSkipped, Inductive, PTL

\* A command whose cancellation Gate.cancel accepted is never saved.
THEOREM CancelledCorrect == Spec => []CancelledIsUnsaved
<1>1. IInv => CancelledIsUnsaved
    BY DEF IInv, TypeOK, Gates, CancelledIsUnsaved
<1> QED
    BY <1>1, Inductive, PTL

\* What a completion told the user about the save is what the store holds.
THEOREM AnswersCorrect == Spec => []AnswersAreTrue
<1>1. IInv => AnswersAreTrue
    BY DEF IInv, Given
<1> QED
    BY <1>1, Inductive, PTL

\* No late completion reopens a tool the user closed.
THEOREM ClosedCorrect == Spec => []ClosedStaysClosed
<1>1. IInv => ClosedStaysClosed
    BY DEF IInv, Views
<1> QED
    BY <1>1, Inductive, PTL

\* An idle panel shows the page and the task the worker holds.
THEOREM IdleCorrect == Spec => []IdleAgrees
<1>1. IInv => IdleAgrees
    BY DEF IInv, Views
<1> QED
    BY <1>1, Inductive, PTL

\* The panel, the worker and the answers agree, for any number of clicks.
THEOREM AgreementCorrect == Spec => []PanelAgrees
<1>1. OneAtATime /\ CancelledIsUnsaved /\ AnswersAreTrue /\ ClosedStaysClosed /\ IdleAgrees
        => PanelAgrees
    BY DEF PanelAgrees
<1> QED
    BY <1>1, OneAtATimeCorrect, CancelledCorrect, AnswersCorrect, ClosedCorrect,
       IdleCorrect, PTL

-----------------------------------------------------------------------------
(***************************************************************************)
(* The session implements the cancellable requests.                        *)
(***************************************************************************)
Fates == [o \in Operations |-> Fate(o)]
Tellings == [o \in Operations |-> IF Requested(o) THEN told[o] ELSE "nothing"]

LEMMA InitRefines == Init => Requests!Init
BY Identifiers DEF Init, Requests!Init, Requested, Fate, None

\* What a step leaves alone.
LEMMA SameFate ==
    ASSUME NEW o \in Operations, Requested(o)' <=> Requested(o), o \in saved' <=> o \in saved,
           told'[o] = told[o], gate'[o] = "cancelled" <=> gate[o] = "cancelled"
    PROVE  Fates'[o] = Fates[o] /\ Tellings'[o] = Tellings[o]
BY DEF Fates, Tellings, Fate

LEMMA Stutters ==
    ASSUME \A o \in Operations : Fates'[o] = Fates[o] /\ Tellings'[o] = Tellings[o]
    PROVE  UNCHANGED Requests!vars
<1>1. Fates' = Fates /\ Tellings' = Tellings
    BY DEF Fates, Tellings
<1> QED
    BY <1>1 DEF Fates, Tellings, Requests!vars

\* One request is decided.
LEMMA Decides ==
    ASSUME NEW o \in Operations, NEW from, NEW to,
           Fates[o] = from, Fates'[o] = to, \A p \in Operations : Tellings'[p] = Tellings[p],
           \A p \in Operations \ {o} : Fates'[p] = Fates[p]
    PROVE  Requests!Decide(o, from, to)
<1>1. Tellings' = Tellings /\ Fates' = [Fates EXCEPT ![o] = to]
    BY DEF Fates, Tellings
<1> QED
    BY <1>1 DEF Fates, Tellings, Requests!Decide

\* Old commands stay what they are, and a boot, poll or close is no request.
LEMMA SameRequests ==
    ASSUME TypeOK, NEW k \in {"TaskPoll", "Close"}, NEW e \in Nat, NewCommand(k, e)
    PROVE  \A o \in Operations : Requested(o)' <=> Requested(o)
BY Identifiers, Numbers DEF TypeOK, NewCommand, Requested

LEMMA SameKeys ==
    ASSUME UNCHANGED keys
    PROVE  \A o \in Operations : Requested(o)' <=> Requested(o)
BY DEF keys, Requested

\* A click is a request nobody has cancelled, saved or answered.
LEMMA ClickAsks ==
    ASSUME IInv, NEW k \in Clicks, Click(k)
    PROVE  Requests!Next
<1> PICK n \in Operations : n = issued + 1
    BY Identifiers DEF Click, Issue, NewCommand, IInv, TypeOK
<1>1. /\ issued' = n /\ issued \in Nat /\ n \in Nat
      /\ n <= issued' /\ issued < n /\ ~ (n <= issued)
      /\ command' = [command EXCEPT ![n] = [action |-> k, epoch |-> epoch]]
      /\ saved' = saved /\ told' = told /\ gate' = gate
    BY Identifiers DEF Click, Issue, NewCommand, IInv, TypeOK
<1>2. k \notin {"Boot", "TaskPoll", "Close"}
    BY Identifiers
<1>3. \A o \in Operations \ {n} : Requested(o)' <=> Requested(o)
    BY <1>1, Identifiers DEF Requested, IInv, TypeOK
<1>4. \A o \in Operations \ {n} : Fates'[o] = Fates[o] /\ Tellings'[o] = Tellings[o]
    BY <1>1, <1>3, SameFate
<1>5. ~ Requested(n) /\ Requested(n)'
    BY <1>1, <1>2 DEF Requested, IInv, TypeOK
<1>6. n \notin saved /\ told[n] = "nothing" /\ gate[n] = "open"
    <2>1. ~ (n <= seen.operation)
        BY <1>1, Numbers DEF IInv, Sequence
    <2> QED
        BY <1>1, <2>1 DEF IInv, Gates, Given
<1>7. Fates[n] = "new" /\ Fates'[n] = "asked" /\ Tellings'[n] = Tellings[n]
    BY <1>1, <1>5, <1>6 DEF Fates, Tellings, Fate
<1> QED
    BY <1>1, <1>4, <1>7, Decides DEF Requests!Next, Requests!Ask

\* Cancelling what is in flight withdraws at most the pending request.
LEMMA CancelWithdraws ==
    ASSUME IInv, NEW s, s \subseteq {sourcePoll, pending}, gate' = Cancelled(s),
           saved' = saved, told' = told,
           \A o \in Operations : Requested(o)' <=> Requested(o)
    PROVE  [Requests!Next]_(Requests!vars)
<1>1. \A o \in Operations : gate[o] = "cancelled" => gate'[o] = "cancelled"
    BY DEF Cancelled
<1>2. \A o \in Operations : gate'[o] = "cancelled" =>
          gate[o] = "cancelled" \/ (o \in s /\ gate[o] = "open")
    BY DEF Cancelled
<1>3. \A o \in Operations \ {pending} : Fates'[o] = Fates[o] /\ Tellings'[o] = Tellings[o]
    <2> SUFFICES ASSUME NEW o \in Operations \ {pending}
                 PROVE  Fates'[o] = Fates[o] /\ Tellings'[o] = Tellings[o]
        OBVIOUS
    <2>1. CASE o = sourcePoll
        <3>1. ~ Requested(o)
            BY <2>1, Identifiers DEF IInv, Slots, Requested
        <3> QED
            BY <3>1 DEF Fates, Tellings, Fate
    <2>2. CASE o # sourcePoll
        BY <1>1, <1>2, <2>2, SameFate
    <2> QED
        BY <2>1, <2>2
<1>4. CASE \A o \in Operations : Fates'[o] = Fates[o] /\ Tellings'[o] = Tellings[o]
    BY <1>4, Stutters
<1>5. CASE ~ (\A o \in Operations : Fates'[o] = Fates[o] /\ Tellings'[o] = Tellings[o])
    <2>1. pending \in Operations /\ Requested(pending) /\ gate[pending] = "open"
          /\ gate'[pending] = "cancelled"
        <3>1. pending \in Operations
            BY <1>3, <1>5
        <3>2. ~ (Fates'[pending] = Fates[pending] /\ Tellings'[pending] = Tellings[pending])
            BY <1>3, <1>5
        <3>3. Requested(pending)
            BY <3>1, <3>2 DEF Fates, Tellings, Fate
        <3>4. ~ (gate'[pending] = "cancelled" <=> gate[pending] = "cancelled")
            BY <3>1, <3>2, SameFate
        <3> QED
            BY <3>1, <3>3, <3>4, <1>1, <1>2
    <2>2. pending \notin saved /\ told[pending] = "nothing"
        BY <2>1 DEF IInv, Gates, Given
    <2>3. Fates[pending] = "asked" /\ Fates'[pending] = "withdrawn"
          /\ Tellings'[pending] = Tellings[pending]
        BY <2>1, <2>2 DEF Fates, Tellings, Fate
    <2> QED
        BY <1>3, <2>1, <2>3, Decides DEF Requests!Next, Requests!Withdraw
<1> QED
    BY <1>4, <1>5

\* The save of the running command is the save of its request.
LEMMA ApplySaves ==
    ASSUME IInv, Apply
    PROVE  [Requests!Next]_(Requests!vars)
<1> PICK q \in Operations : q = operation
    BY DEF Apply, IInv, TypeOK, Slots, Busy, Page
<1>1. /\ \A o \in Operations : Requested(o)' <=> Requested(o)
      /\ told' = told /\ gate' = gate
      /\ saved' = saved \/ saved' = saved \cup {q}
    BY SameKeys DEF Apply, panel
<1>2. /\ Requested(q) /\ gate[q] = "committed"
      /\ q \notin saved /\ told[q] = "nothing"
    <2>1. Busy /\ q = seen.operation
        BY DEF Apply, IInv, Slots, Busy
    <2> QED
        BY <2>1 DEF Apply, IInv, Handling, Given, Sequence, Requested, action
<1>3. CASE saved' = saved
    BY <1>1, <1>3, SameFate, Stutters
<1>4. CASE saved' = saved \cup {q}
    <2>1. \A o \in Operations \ {q} : Fates'[o] = Fates[o]
        BY <1>1, <1>4, SameFate
    <2>2. \A o \in Operations : Tellings'[o] = Tellings[o]
        BY <1>1 DEF Tellings
    <2>3. Requested(q)' /\ q \in saved'
        BY <1>1, <1>2, <1>4
    <2>4. Fates[q] = "asked" /\ Fates'[q] = "saved"
        BY <1>2, <2>3 DEF Fates, Fate
    <2> QED
        BY <1>2, <2>1, <2>2, <2>4, Decides DEF Requests!Next, Requests!Save
<1> QED
    BY <1>1, <1>3, <1>4

\* A completion of a click is the answer to its request.
LEMMA AnsweredAnswers ==
    ASSUME IInv, Answered
    PROVE  [Requests!Next]_(Requests!vars)
<1> PICK q \in Operations : q = pending
    BY DEF Answered, IInv, TypeOK, Page
<1> PICK a \in Answers : a = completion.answer
    BY DEF IInv, TypeOK
<1>1. /\ completion.operation = q
      /\ told' = [told EXCEPT ![q] = a] /\ saved' = saved /\ gate' = gate
    BY DEF Answered, IInv, TypeOK, Page
<1>2. \A o \in Operations : Requested(o)' <=> Requested(o)
    <2>1. CASE closing
        <3>1. NewCommand("Close", epoch)
            BY <2>1 DEF Answered, Issue
        <3> QED
            BY <3>1, SameRequests DEF IInv, TypeOK
    <2>2. CASE ~ closing
        BY <2>2, SameKeys DEF Answered
    <2> QED
        BY <2>1, <2>2
<1>3. told \in [Operations -> Answers \cup {"nothing"}]
    BY DEF IInv, TypeOK
<1>4. \A o \in Operations \ {q} : Fates'[o] = Fates[o] /\ Tellings'[o] = Tellings[o]
    BY <1>1, <1>2, <1>3, SameFate
<1>5. CASE ~ Requested(q)
    <2>1. Fates'[q] = Fates[q] /\ Tellings'[q] = Tellings[q]
        BY <1>1, <1>2, <1>5 DEF Fates, Tellings, Fate
    <2> QED
        BY <1>4, <2>1, Stutters
<1>6. CASE Requested(q)
    <2>1. told[q] = "nothing" /\ told'[q] = a /\ a # "nothing"
        BY <1>1, <1>3 DEF IInv, Given, Answers
    <2>2. Tellings[q] = "nothing" /\ Tellings' = [Tellings EXCEPT ![q] = a]
        <3>1. Tellings[q] = "nothing" /\ Tellings'[q] = a
            BY <1>1, <1>2, <1>6, <2>1 DEF Tellings
        <3> QED
            BY <1>1, <1>4, <3>1 DEF Tellings
    <2>3. /\ a = "saved" => q \in saved
          /\ a \in {"done", "unsaved"} => q \notin saved
          /\ a = "unresolved" => gate[q] = "committed"
        BY <1>1, Identifiers DEF IInv, Sending
    <2>4. CASE q \in saved
        <3>1. Fates[q] = "saved" /\ Fates'[q] = "saved" /\ a \in {"saved", "unresolved"}
            BY <1>1, <1>2, <1>6, <2>3, <2>4 DEF Fates, Fate, Answers
        <3>2. Fates' = Fates /\ Fates' = [Fates EXCEPT ![q] = "saved"]
            BY <1>1, <1>4, <3>1 DEF Fates
        <3>3. Requests!Answer(q)
            BY <2>2, <3>1, <3>2 DEF Fates, Tellings, Requests!Answer
        <3> QED
            BY <1>1, <3>3 DEF Requests!Next
    <2>5. CASE q \notin saved
        <3>1. /\ Fates[q] = IF gate[q] = "cancelled" THEN "withdrawn" ELSE "asked"
              /\ Fates'[q] = "over"
              /\ a \in {"done", "unsaved", "unresolved"}
            BY <1>1, <1>2, <1>6, <2>1, <2>3, <2>5 DEF Fates, Fate, Answers
        <3>2. Fates' = [Fates EXCEPT ![q] = "over"]
            BY <1>1, <1>4, <3>1 DEF Fates
        <3>3. Fates[q] \in {"asked", "withdrawn"}
              /\ (a = "unresolved" => Fates[q] = "asked")
            BY <2>3, <3>1
        <3>4. Requests!Answer(q)
            BY <2>2, <3>1, <3>2, <3>3 DEF Fates, Tellings, Requests!Answer
        <3> QED
            BY <1>1, <3>4 DEF Requests!Next
    <2> QED
        BY <2>4, <2>5
<1> QED
    BY <1>5, <1>6

\* Every other step keeps what the requests are made of.
LEMMA OthersStutter ==
    ASSUME IInv,
           \/ Flag \/ SourceAnswered \/ StartSourcePoll
           \/ Take \/ Check \/ Refuse \/ RunPoll \/ RunView \/ RunOpen \/ RunDaily
           \/ Commit \/ Verify \/ Finish \/ Answer \/ Leave \/ Panic
           \/ UNCHANGED vars
    PROVE  UNCHANGED Requests!vars
<1>1. \A o \in Operations : Requested(o)' <=> Requested(o)
    <2>1. CASE StartSourcePoll
        BY <2>1, SameRequests DEF StartSourcePoll, IInv, TypeOK
    <2>2. CASE ~ StartSourcePoll
        BY <2>2, SameKeys DEF Flag, SourceAnswered, Take, Check, Refuse, RunPoll,
               RunView, RunOpen, RunDaily, Commit, Verify, Finish, Answer, Leave, Panic,
               vars, keys
    <2> QED
        BY <2>1, <2>2
<1>2. saved' = saved /\ told' = told
    BY DEF Flag, SourceAnswered, StartSourcePoll, Take, Check, Refuse, RunPoll,
           RunView, RunOpen, RunDaily, Commit, Verify, Finish, Answer, Leave, Panic,
           vars, panel
<1>3. \A o \in Operations : gate'[o] = "cancelled" <=> gate[o] = "cancelled"
    <2>1. CASE gate' = Finished(operation) \/ (gate[operation] = "open" /\ gate' = Committed(operation))
        BY <2>1 DEF IInv, TypeOK, Finished, Committed
    <2>2. CASE gate' = gate
        BY <2>2
    <2> QED
        BY <2>1, <2>2 DEF Flag, SourceAnswered, StartSourcePoll, Take, Check, Refuse, RunPoll,
           RunView, RunOpen, RunDaily, Commit, Verify, Finish, Answer, Leave, Panic,
           vars
<1> QED
    BY <1>1, <1>2, <1>3, SameFate, Stutters

LEMMA NextRefines ==
    ASSUME IInv, [Next]_vars
    PROVE  [Requests!Next]_(Requests!vars)
<1>1. CASE \E k \in Clicks : Click(k)
    BY <1>1, ClickAsks
<1>2. CASE Cancel
    BY <1>2, CancelWithdraws, SameKeys DEF Cancel
<1>3. CASE CloseTool
    <2>1. CASE pending = None
        <3>1. NewCommand("Close", epoch + 1) /\ epoch + 1 \in Nat
            BY <1>3, <2>1 DEF CloseTool, Issue, IInv, TypeOK
        <3>2. \A o \in Operations : Requested(o)' <=> Requested(o)
            BY <3>1, SameRequests DEF IInv
        <3> QED
            BY <1>3, <3>2, CancelWithdraws DEF CloseTool
    <2>2. CASE pending # None
        <3>1. UNCHANGED keys
            BY <1>3, <2>2 DEF CloseTool
        <3> QED
            BY <1>3, <3>1, CancelWithdraws, SameKeys DEF CloseTool
    <2> QED
        BY <2>1, <2>2
<1>4. CASE Drop
    BY <1>4, CancelWithdraws, SameKeys DEF Drop
<1>5. CASE Apply
    BY <1>5, ApplySaves
<1>6. CASE Answered
    BY <1>6, AnsweredAnswers
<1>7. CASE ~ (\E k \in Clicks : Click(k)) /\ ~ Cancel /\ ~ CloseTool /\ ~ Drop /\ ~ Apply /\ ~ Answered
    BY <1>7, OthersStutter DEF Next, WorkerRuns
<1> QED
    BY <1>1, <1>2, <1>3, <1>4, <1>5, <1>6, <1>7

\* The panel, the worker, their two channels and the gates behave, for any
\* number of commands and closings, as requests that are saved or withdrawn.
THEOREM Refinement == Spec => ImplementsRequests
<1>1. IInv /\ [Next]_vars => [Requests!Next]_(Requests!vars)
    BY NextRefines
<1> QED
    BY <1>1, InitRefines, Inductive, PTL DEF Spec, ImplementsRequests, Requests!Spec
=============================================================================
