-------------------------- MODULE TaskVerification ----------------------------
(* The verification of one task (task_verification.rs, its start in app.rs and *)
(* its record in tasks.rs): a command run in the task's worktree, bound to a    *)
(* fingerprint of the source, by one window at a time.  Changes of the registry *)
(* are single steps here; see TaskRegistry.                                    *)
(* A source is the contents of its parts: the files, the listings, the index,  *)
(* HEAD.  Nothing but contents is compared, so an edit that is undone leads    *)
(* back to the same fingerprint.  A fingerprint is read part by part, each at  *)
(* some moment of the read; a part that changes while it is itself being read  *)
(* is an error of the read.                                                    *)
(* The configured command is left out: a start whose command is no longer the  *)
(* saved one is refused and changes nothing, and a result of another command   *)
(* is never shown as passed.  A window's copy of the record is the record:     *)
(* each change it makes refreshes it.                                          *)
EXTENDS Naturals

CONSTANTS
    Windows,
    Parts,              \* the parts of a source
    MaxSource,          \* the contents a part may have are 0 .. MaxSource
    MaxRun,             \* bound on the runs started
    MaxEdit             \* bound on the edits of the worktree

Contents == 0 .. MaxSource
Sources == [Parts -> Contents]
Unread == [p \in Parts |-> MaxSource + 1]
Runs == 1 .. MaxRun

\* What each part has been since some moment; nothing when nobody keeps track.
Histories == [Parts -> SUBSET Contents]
NoHistory == [p \in Parts |-> {}]

NoResult == [run |-> 0, state |-> "none", source |-> Unread]

VARIABLES
    source, edits,      \* the worktree, and the number of edits of it
    result,             \* verification_result of the task's record
    holder,             \* the window with the task's verification lock, or "nobody"
    runs,               \* the runs started
    pc, run, reading, outcome, cancelled,   \* the worker of each window
    process,            \* each run's processes
    probe, own,         \* each window's probe of the source, and its own last run
    ran,                \* what the processes of the recorded run have run on (ghost)
    came                \* the parts that an edit has given the contents that are bound
                        \* to the run, since they were bound (ghost)

worker == <<pc, run, reading, outcome, cancelled>>
shown == <<probe, own>>
vars == <<source, edits, result, holder, runs, worker, process, ran, shown, came>>

NoProbe == [during |-> NoHistory, answer |-> Unread]
Nobody == "nobody"

Init ==
    /\ source = [p \in Parts |-> 0] /\ result = NoResult /\ holder = Nobody /\ runs = 0
    /\ pc = [w \in Windows |-> "idle"] /\ run = [w \in Windows |-> 0]
    /\ reading = [w \in Windows |-> NoHistory] /\ outcome = [w \in Windows |-> "none"]
    /\ cancelled = [w \in Windows |-> FALSE]
    /\ process = [r \in Runs |-> "none"] /\ ran = NoHistory
    /\ probe = [w \in Windows |-> NoProbe]
    /\ own = [w \in Windows |-> 0]
    /\ came = {} /\ edits = 0

Active(w) == pc[w] \notin {"idle", "sent"}

\* What is kept from now on, and what is kept when part p becomes c.
Begun == [p \in Parts |-> {source[p]}]
Seen(history, p, c) ==
    IF history[p] = {} THEN history ELSE [history EXCEPT ![p] = @ \cup {c}]

\* source_fingerprint: each part as it was at some moment of the read.
Fingerprints(during) == {s \in Sources : \A p \in Parts : s[p] \in during[p]}

\* The condition of both record operations: the run is current and still running.
IsCurrent(r) == result.run = r /\ result.state = "Running"

-----------------------------------------------------------------------------
LockFree == holder = Nobody

\* start_task_verification and start_verification.
Start(w) ==
    /\ pc[w] = "idle" /\ runs < MaxRun /\ LockFree
    /\ runs' = runs + 1 /\ holder' = w
    /\ result' = [run |-> runs', state |-> "Running", source |-> Unread]
    /\ pc' = [pc EXCEPT ![w] = "reading"] /\ run' = [run EXCEPT ![w] = runs']
    /\ reading' = [reading EXCEPT ![w] = Begun]
    /\ outcome' = [outcome EXCEPT ![w] = "none"]
    /\ cancelled' = [cancelled EXCEPT ![w] = FALSE]
    /\ probe' = [probe EXCEPT ![w] = NoProbe]
    /\ ran' = NoHistory /\ came' = {}
    /\ UNCHANGED <<source, edits, process, own>>

\* run_and_record: the fingerprint is read and bound to the run, or is not to be had.
Fingerprint(w) ==
    /\ pc[w] = "reading"
    /\ \/ \E f \in Fingerprints(reading[w]) :
            /\ IsCurrent(run[w])
            /\ result' = [result EXCEPT !.source = f] /\ came' = {}
            /\ pc' = [pc EXCEPT ![w] = "bound"] /\ UNCHANGED outcome
       \/ /\ pc' = [pc EXCEPT ![w] = "ended"] /\ UNCHANGED <<result, came>>
          /\ outcome' =
               [outcome EXCEPT ![w] = IF cancelled[w] THEN "Cancelled" ELSE "Error"]
       \/ pc' = [pc EXCEPT ![w] = "sent"] /\ UNCHANGED <<result, outcome, came>>
    /\ reading' = [reading EXCEPT ![w] = NoHistory]
    /\ UNCHANGED <<source, edits, holder, runs, run, cancelled, process, ran, shown>>

\* execute_command up to the spawn.
Spawn(w) ==
    /\ pc[w] = "bound"
    /\ \/ /\ cancelled[w] /\ outcome' = [outcome EXCEPT ![w] = "Cancelled"]
          /\ pc' = [pc EXCEPT ![w] = "ended"] /\ UNCHANGED <<process, ran>>
       \/ /\ outcome' = [outcome EXCEPT ![w] = "Error"]
          /\ pc' = [pc EXCEPT ![w] = "ended"] /\ UNCHANGED <<process, ran>>
       \/ /\ process' = [process EXCEPT ![run[w]] = "live"]
          /\ ran' = Begun
          /\ pc' = [pc EXCEPT ![w] = "running"] /\ UNCHANGED outcome
    /\ UNCHANGED <<source, edits, result, holder, runs, run, reading, cancelled, shown,
                   came>>

\* ProcessTreeControl::terminate, which decides whether the state stands.
Stopped(w, state) ==
    \/ /\ outcome' = [outcome EXCEPT ![w] = state]
       /\ process' = [process EXCEPT ![run[w]] = "ended"]
    \/ /\ outcome' = [outcome EXCEPT ![w] = "Error"] /\ UNCHANGED process

\* The command exits, is cancelled or runs out of time.
CommandEnds(w) ==
    /\ pc[w] = "running"
    /\ \/ \E state \in {"Passed", "Failed", "TimedOut"} : Stopped(w, state)
       \/ cancelled[w] /\ Stopped(w, "Cancelled")
    /\ pc' = [pc EXCEPT ![w] = "collecting"]
    /\ UNCHANGED <<source, edits, result, holder, runs, run, reading, cancelled, ran, shown,
                   came>>

\* collect_output: a cancellation meanwhile, or output that does not close.
Collect(w) ==
    /\ pc[w] = "collecting"
    /\ pc' = [pc EXCEPT ![w] = "ended"]
    /\ \/ ~cancelled[w] /\ UNCHANGED <<outcome, process>>
       \/ cancelled[w] /\ outcome[w] \in {"Passed", "Failed"} /\ Stopped(w, "Cancelled")
       \/ /\ outcome[w] \in {"Cancelled", "TimedOut", "Error"}
          /\ UNCHANGED <<outcome, process>>
       \/ outcome[w] \in {"Passed", "Failed"} /\ Stopped(w, outcome[w])
    /\ UNCHANGED <<source, edits, result, holder, runs, run, reading, cancelled, ran, shown,
                   came>>

\* record_verification_result; the registry may refuse or fail, and the run stays Running.
RecordResult(w) ==
    /\ pc[w] = "ended"
    /\ \/ IsCurrent(run[w]) /\ result' = [result EXCEPT !.state = outcome[w]]
       \/ UNCHANGED result
    /\ pc' = [pc EXCEPT ![w] = "sent"]
    /\ outcome' = [outcome EXCEPT ![w] = "none"]
    /\ cancelled' = [cancelled EXCEPT ![w] = FALSE]
    /\ UNCHANGED <<source, edits, holder, runs, run, reading, process, ran, shown, came>>

\* The worker of the window is gone.
Idle(w) ==
    /\ pc' = [pc EXCEPT ![w] = "idle"] /\ run' = [run EXCEPT ![w] = 0]
    /\ reading' = [reading EXCEPT ![w] = NoHistory]
    /\ outcome' = [outcome EXCEPT ![w] = "none"]
    /\ cancelled' = [cancelled EXCEPT ![w] = FALSE]

\* Mutated form of ProcessResult: the probe made meanwhile is kept.
ProcessKeepingProbe(w) ==
    /\ pc[w] = "sent"
    /\ Idle(w) /\ own' = [own EXCEPT ![w] = run[w]]
    /\ holder' = IF holder = w THEN Nobody ELSE holder
    /\ UNCHANGED probe
    /\ UNCHANGED <<source, edits, result, runs, process, ran, came>>

\* process_task_verification: the window's frame after the worker has ended.
ProcessResult(w) ==
    /\ pc[w] = "sent"
    /\ Idle(w) /\ own' = [own EXCEPT ![w] = run[w]]
    /\ holder' = IF holder = w THEN Nobody ELSE holder
    /\ probe' = [probe EXCEPT ![w] = NoProbe]
    /\ UNCHANGED <<source, edits, result, runs, process, ran, came>>

-----------------------------------------------------------------------------
Cancel(w) ==
    /\ Active(w) /\ cancelled' = [cancelled EXCEPT ![w] = TRUE]
    /\ UNCHANGED <<source, edits, result, holder, runs, pc, run, reading, outcome, process,
                   ran, shown, came>>

\* request_task_source_fingerprint: a probe is started when the last is old, and answers.
StartProbe(w) ==
    /\ probe' = [probe EXCEPT ![w] = [during |-> Begun, answer |-> Unread]]
    /\ UNCHANGED <<source, edits, result, holder, runs, worker, process, ran, own, came>>

AnswerProbe(w) ==
    /\ \E f \in Fingerprints(probe[w].during) :
         probe' = [probe EXCEPT ![w] = [during |-> NoHistory, answer |-> f]]
    /\ UNCHANGED <<source, edits, result, holder, runs, worker, process, ran, own, came>>

\* The window is killed: its lock goes with it, the command's process does not.  It
\* comes back with the registry as it is.
Dies(w) ==
    /\ Idle(w) /\ own' = [own EXCEPT ![w] = 0]
    /\ holder' = IF holder = w THEN Nobody ELSE holder
    /\ probe' = [probe EXCEPT ![w] = NoProbe]
    /\ UNCHANGED <<source, edits, result, runs, process, ran, came>>

\* A process nobody waits for ends.
OrphanEnds(r) ==
    /\ process[r] = "live" /\ \A w \in Windows : ~(run[w] = r /\ pc[w] = "running")
    /\ process' = [process EXCEPT ![r] = "ended"]
    /\ UNCHANGED <<source, edits, result, holder, runs, worker, ran, shown, came>>

\* The user, the agent or the command itself edits the worktree, or puts it back.
Edit(p, c) ==
    /\ edits < MaxEdit /\ edits' = edits + 1
    /\ source[p] # c /\ source' = [source EXCEPT ![p] = c]
    /\ ran' = IF result.run # 0 /\ process[result.run] = "live" THEN Seen(ran, p, c)
              ELSE ran
    /\ reading' = [w \in Windows |-> Seen(reading[w], p, c)]
    /\ probe' = [w \in Windows |-> [probe[w] EXCEPT !.during = Seen(@, p, c)]]
    /\ came' = IF result.source[p] = c THEN came \cup {p} ELSE came
    /\ UNCHANGED <<result, holder, runs, pc, run, outcome, cancelled, process, own>>

Next ==
    \/ \E p \in Parts, c \in Contents : Edit(p, c)
    \/ \E r \in Runs : OrphanEnds(r)
    \/ \E w \in Windows :
         \/ Start(w) \/ Fingerprint(w) \/ Spawn(w) \/ CommandEnds(w) \/ Collect(w)
         \/ RecordResult(w) \/ ProcessResult(w) \/ Cancel(w)
         \/ StartProbe(w) \/ AnswerProbe(w) \/ Dies(w)

Spec == Init /\ [][Next]_vars

-----------------------------------------------------------------------------
States == {"none", "Running", "Passed", "Failed", "Cancelled", "TimedOut", "Error"}

ResultOK ==
    result \in [run : 0 .. runs, state : States, source : Sources \cup {Unread}]

TypeOK ==
    /\ ResultOK
    /\ source \in Sources /\ edits \in 0 .. MaxEdit
    /\ holder \in Windows \cup {Nobody} /\ runs \in 0 .. MaxRun
    /\ pc \in [Windows ->
                 {"idle", "reading", "bound", "running", "collecting", "ended", "sent"}]
    /\ run \in [Windows -> 0 .. runs] /\ own \in [Windows -> 0 .. runs]
    /\ reading \in [Windows -> Histories]
    /\ outcome \in [Windows -> States] /\ cancelled \in [Windows -> BOOLEAN]
    /\ process \in [Runs -> {"none", "live", "ended"}] /\ ran \in Histories
    /\ probe \in [Windows -> [during : Histories, answer : Sources \cup {Unread}]]
    /\ came \in SUBSET Parts

\* verification_status of the review queue.
ShownPassed(w) == result.state = "Passed" /\ result.source = probe[w].answer

\* The run a window shows as passed, and ran itself, ran from its start to its end on the
\* very source the window shows, whoever edited the worktree before, during or after it;
\* but for the parts that were put back to what they were when the run was bound to them,
\* which nothing tells from parts that never changed.
PassedMeansRun ==
    \A w \in Windows :
        pc[w] = "idle" /\ own[w] # 0 /\ result.run = own[w] /\ ShownPassed(w) =>
            \A p \in Parts \ came : ran[p] = {probe[w].answer[p]}

\* While a window runs the task's command the record has that run as running, whatever the
\* other windows do; and once a run is recorded as over nothing of it runs any more, unless
\* the record says that it could not be stopped.
RunsAreRecorded ==
    /\ \A w \in Windows : Active(w) => IsCurrent(run[w])
    /\ result.state \in {"Passed", "Failed", "Cancelled", "TimedOut"} =>
         process[result.run] # "live"

\* What they rest on.  One window at a time works for the task, on a run of its own that
\* no window remembers yet.
Over == {"Passed", "Failed", "Cancelled", "TimedOut"}

HasRun == \A p \in Parts : ran[p] # {}

HeldBy(w) ==
    /\ pc[w] = "idle" <=> run[w] = 0
    /\ pc[w] # "idle" => holder = w /\ \A u \in Windows : own[u] # run[w]
    /\ Active(w) => IsCurrent(run[w])
    /\ pc[w] \in {"reading", "bound"} => process[run[w]] = "none" /\ ran = NoHistory
    /\ pc[w] \in {"bound", "running"} => result.source # Unread
    /\ pc[w] = "running" => HasRun
    /\ pc[w] \in {"collecting", "ended"} =>
         /\ outcome[w] \in Over => process[run[w]] # "live"
         /\ outcome[w] = "Passed" => result.source # Unread /\ HasRun

WorkersAreHeld == \A w \in Windows : HeldBy(w)

\* A part that is as it was when the run was bound, and was never put back, is all the
\* run has seen of it,
RunsAreOfTheirTime ==
    /\ \A r \in Runs : r > runs => process[r] = "none"
    /\ result.run # 0 =>
         \A p \in Parts \ came :
            result.source[p] = source[p] => ran[p] \subseteq {source[p]}
    /\ result.state \in Over => result.run # 0 /\ process[result.run] # "live"
    /\ result.state = "Passed" => result.source # Unread /\ HasRun

\* and so is a part that a probe has seen that way in a window that ran it.
ProbesAreOfTheirTime ==
    \A w \in Windows :
        result.state = "Passed" /\ own[w] = result.run =>
            \A p \in Parts \ came :
                result.source[p] \in probe[w].during[p] \cup {probe[w].answer[p]} =>
                    ran[p] \subseteq {result.source[p]}

IInv == TypeOK /\ WorkersAreHeld /\ RunsAreOfTheirTime /\ ProbesAreOfTheirTime
=============================================================================
