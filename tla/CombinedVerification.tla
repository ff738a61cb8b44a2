------------------------ MODULE CombinedVerification ------------------------
(* The review queue's merge preview and the verification of its tree           *)
(* (task_merge_preview.rs, task_integrated_verification.rs,                    *)
(* ui/task_review_queue.rs).  A preview's worker captures the base branch and  *)
(* the selected sources, merges them in a temporary repository and reads       *)
(* everything again before it answers; a verification runs the tasks' commands *)
(* on the merged tree, with the same reads before each command and at the end. *)
(* Meanwhile the base moves, sources are edited, and the tasks' records change *)
(* in this window or in another one; and each of them may be put back.         *)
(* Contents are compared, never moments.  A source stands for a part of a      *)
(* worktree that a fingerprint reads at once; TaskVerification has the parts   *)
(* of one read at different moments.                                           *)
EXTENDS Naturals, Sequences, FiniteSets, SequencesExt

CONSTANTS
    Configs,            \* the versions of the tasks' records, in the order they are saved:
                        \* each task's command, which task is before which, and the links
    MaxSource,          \* a source, and the base, has one of the contents 0 .. MaxSource
    MaxEdit             \* bound on the edits of the sources and the moves of the base

Tasks == DOMAIN Configs[1].command
Versions == DOMAIN Configs
Contents == 0 .. MaxSource
Unread == MaxSource + 1
Gone == MaxSource + 2
NoSources == [t \in Tasks |-> Unread]
NoIdentity == [tasks |-> {}, order |-> {}, links |-> {}]

VARIABLES
    base, sources,      \* the base branch, the worktrees
    edits,              \* the number of changes of them
    saved, entries,     \* tasks.json, and what this window has loaded of it
    selected,           \* the tasks ticked in the queue
    preview, capture,   \* TaskMergePreviewController, and its worker
    verified, check     \* TaskIntegratedVerificationController, and its worker

outside == <<base, sources, edits, saved>>
previewing == <<preview, capture>>
checking == <<verified, check>>
combined == <<outside, entries, selected, previewing, checking>>

\* ordered_tasks of some tasks, as the set of them and which is before which, with what
\* PreviewIdentity keeps of each record.
Identity(version, tasks) ==
    [tasks |-> tasks, order |-> Configs[version].order \cap (tasks \X tasks),
     links |-> Configs[version].links]
Shown == Identity(entries, selected)
IsFirst(t, tasks, of) == t \in tasks /\ \A u \in tasks : <<u, t>> \notin of.order

\* resolve_command_coverage: every command once.
Covered(version, tasks) == {Configs[version].command[t] : t \in tasks} \ {"none"}
Unconfigured(version, tasks) == {t \in tasks : Configs[version].command[t] = "none"}

NoPreview == [state |-> "Idle", of |-> NoIdentity, base |-> Unread, sources |-> NoSources]
NoCapture == [pc |-> "none", base |-> Unread, sources |-> NoSources]
NoInputs == [of |-> NoIdentity, version |-> 1, base |-> Unread, sources |-> NoSources]
NoResult == [status |-> "none", inputs |-> NoInputs, done |-> <<>>, held |-> {}]
NoCheck == [pc |-> "none", left |-> {}, failed |-> "none", stop |-> FALSE, cancel |-> FALSE,
            unprepared |-> FALSE, status |-> "none"]

PreviewRunning == capture.pc # "none"
CheckRunning == check.pc # "none"

Init ==
    /\ base = 0 /\ sources = [t \in Tasks |-> 0] /\ edits = 0 /\ saved = 1 /\ entries = 1
    /\ selected = {}
    /\ preview = NoPreview /\ capture = NoCapture
    /\ verified = NoResult /\ check = NoCheck

-----------------------------------------------------------------------------
\* start: the selection's button.
StartPreview ==
    /\ ~PreviewRunning /\ ~CheckRunning /\ selected # {}
    /\ preview' = [NoPreview EXCEPT !.state = "Running", !.of = Shown]
    /\ capture' = [NoCapture EXCEPT !.pc = "base"]
    /\ UNCHANGED <<outside, entries, selected, checking>>

\* run_preview, one read of the outside at a time: the base, then each task, clean and
\* with the same fingerprint before and after its review.
Captures ==
    \/ /\ capture.pc = "base"
       /\ capture' = [capture EXCEPT !.pc = "sources", !.base = base]
    \/ /\ capture.pc = "sources"
       /\ LET rest == {t \in preview.of.tasks : capture.sources[t] = Unread}
          IN  \/ rest = {} /\ capture' = [capture EXCEPT !.pc = "merging"]
              \/ \E t \in rest : /\ IsFirst(t, rest, preview.of)
                                  /\ capture' = [capture EXCEPT !.sources[t] = sources[t]]

\* verify_captured_sources, which the worker passes before either answer.  Its reads are
\* one step: a change between two of them is one the next frames find, or one put back.
Recheck ==
    /\ base = capture.base
    /\ \A t \in preview.of.tasks : sources[t] = capture.sources[t]

\* What is left of run_preview: merges in order up to a conflict, the recheck, and the
\* tree in a directory of its own.  Any of it may fail.
Answers ==
    /\ capture.pc = "merging"
    /\ \E answer \in {"ConflictFree", "Conflicted", "Unavailable"} :
         /\ answer # "Unavailable" => Recheck
         /\ capture' = IF answer = "Unavailable" THEN [NoCapture EXCEPT !.pc = answer]
                       ELSE [capture EXCEPT !.pc = answer]

PreviewStep ==
    /\ Captures \/ Answers \/ (capture.pc \in {"base", "sources"}
                               /\ capture' = [NoCapture EXCEPT !.pc = "Unavailable"])
    /\ UNCHANGED <<outside, entries, selected, preview, checking>>

\* TaskMergePreviewController::poll; a worker that panicked has no answer.
Polled ==
    CASE capture.pc \in {"ConflictFree", "Conflicted"} ->
           [preview EXCEPT !.state = capture.pc, !.base = capture.base,
                           !.sources = capture.sources]
      [] capture.pc = "Unavailable" -> [preview EXCEPT !.state = "Unavailable"]
      [] OTHER -> preview

-----------------------------------------------------------------------------
\* start_task_integrated_verification: for the preview shown, of the selection shown.
StartCheck(current) ==
    /\ preview.state = "ConflictFree" /\ current = "yes" /\ preview.of = Shown
    /\ Covered(entries, Shown.tasks) # {}
    /\ verified' =
         [NoResult EXCEPT
            !.inputs = [of |-> Shown, version |-> entries, base |-> preview.base,
                        sources |-> preview.sources],
            !.status = "Running"]
    /\ check' = [NoCheck EXCEPT !.pc = "starting"]

Inputs == verified.inputs
Plan == Covered(Inputs.version, Inputs.of.tasks)
Ran(done) == Len(done) = Cardinality(Plan)

\* The reads of check_inputs: the base, the registry, and each source in their order.
Reads == {"base", "records"} \cup Inputs.of.tasks

IsNext(read, left) ==
    CASE read = "base" -> read \in left
      [] read = "records" -> read \in left /\ "base" \notin left
      [] OTHER -> left \subseteq Tasks /\ IsFirst(read, left, Inputs.of)

\* A read agrees with the inputs when the base is b, the sources are ss and the records are
\* version v; and which reads would agree now.
Agrees(read, b, ss, v) ==
    CASE read = "base" -> b = Inputs.base
      [] read = "records" ->
           /\ Identity(v, Inputs.of.tasks) = Inputs.of
           /\ \A t \in Inputs.of.tasks :
                Configs[v].command[t] = Configs[Inputs.version].command[t]
      [] OTHER -> ss[read] = Inputs.sources[read]
Matches(read) == Agrees(read, base, sources, saved)
AsCaptured == {read \in Reads : Matches(read)}

\* The outcomes of one read: it agrees, it differs, it cannot be made, or a cancellation
\* is noticed while a source is read.
Outcomes(read) ==
    {IF Matches(read) THEN "ok" ELSE "Stale", "Unavailable"}
    \cup (IF check.cancel /\ read \in Tasks THEN {"Cancelled"} ELSE {})

\* aggregate_status.
Aggregate ==
    LET states == ToSet(verified.done)
    IN  IF "Cancelled" \in states THEN "Cancelled"
        ELSE IF "Error" \in states THEN "Error"
        ELSE IF "TimedOut" \in states THEN "TimedOut"
        ELSE IF "Failed" \in states THEN "Failed"
        ELSE IF /\ Unconfigured(Inputs.version, Inputs.of.tasks) = {}
                /\ Ran(verified.done)
             THEN "Passed" ELSE "Partial"

\* The status run_verification ends with, after its last check_inputs.
Final(outcome) ==
    LET error == "Error" \in ToSet(verified.done)
        found == check.failed # "none"
    IN  IF outcome \in {"Stale", "Unavailable"} THEN outcome
        ELSE IF found THEN check.failed
        ELSE IF outcome = "Cancelled" \/ check.stop \/ check.cancel
             THEN IF error THEN "Error" ELSE "Cancelled"
        ELSE IF check.unprepared THEN "Unavailable" ELSE Aggregate

\* The worker's answer, which is all that is left of it.
Sent(status) == [NoCheck EXCEPT !.pc = "sent", !.status = status, !.cancel = check.cancel]

\* Mutated form of Ended: the last check is made only if something went wrong.
EndedUnchecked(c) ==
    IF c.failed = "none" /\ ~c.stop THEN Sent(Aggregate)
    ELSE [c EXCEPT !.pc = "final", !.left = Reads]

\* The loop over the commands is left for the last check.
Ended(c) == [c EXCEPT !.pc = "final", !.left = Reads]

\* run_verification up to its loop.
CheckStarts ==
    /\ check.pc = "starting"
    /\ check' = IF check.cancel THEN Sent("Cancelled")
                ELSE [check EXCEPT !.pc = "first", !.left = Reads]
    /\ UNCHANGED verified

\* After a read: the next one, or what the whole check_inputs decides.
AfterRead(read, outcome) ==
    LET more == outcome = "ok" /\ check.left # {read}
    IN  CASE more -> [check EXCEPT !.left = @ \ {read}]
          [] ~more /\ check.pc = "final" -> Sent(Final(outcome))
          [] ~more /\ outcome = "ok" /\ check.pc = "first" -> [check EXCEPT !.pc = "next"]
          [] ~more /\ outcome = "ok" /\ check.pc = "before" ->
               [check EXCEPT !.pc = "command"]
          [] outcome # "ok" /\ check.pc = "first" -> Sent(outcome)
          [] outcome # "ok" /\ check.pc = "before" ->
               Ended(IF outcome = "Cancelled" THEN [check EXCEPT !.stop = TRUE]
                     ELSE [check EXCEPT !.failed = outcome])

\* One read of a check_inputs: the first, the one before a command, or the last.
CheckReads ==
    /\ check.pc \in {"first", "before", "final"}
    /\ UNCHANGED verified
    /\ \E read \in check.left :
         /\ IsNext(read, check.left)
         /\ \E outcome \in Outcomes(read) : check' = AfterRead(read, outcome)

\* Mutated form of NextCommand: one turn of the loop too many.
NextCommandAgain ==
    /\ check.pc = "next"
    /\ check' = IF Len(verified.done) > Cardinality(Plan) THEN Ended(check)
                ELSE IF check.cancel THEN Ended([check EXCEPT !.stop = TRUE])
                ELSE [check EXCEPT !.pc = "before", !.left = Reads]
    /\ UNCHANGED verified

\* The head of the loop: the commands are exhausted, cancelled, or one is next.
NextCommand ==
    /\ check.pc = "next"
    /\ check' = IF Ran(verified.done) THEN Ended(check)
                ELSE IF check.cancel THEN Ended([check EXCEPT !.stop = TRUE])
                ELSE [check EXCEPT !.pc = "before", !.left = Reads]
    /\ UNCHANGED verified

\* The tree is copied for the command, and the command runs on the copy.
RunsCommand ==
    /\ check.pc = "command"
    /\ \/ /\ check' = Ended(IF check.cancel THEN [check EXCEPT !.stop = TRUE]
                            ELSE [check EXCEPT !.unprepared = TRUE])
          /\ UNCHANGED verified
       \/ \E state \in {"Passed", "Failed", "TimedOut", "Error"}
                       \cup (IF check.cancel THEN {"Cancelled"} ELSE {}) :
            /\ verified' = [verified EXCEPT !.done = Append(@, state),
                                            !.held = IF Ran(Append(verified.done, state))
                                                     THEN AsCaptured ELSE {}]
            /\ check' = IF state \in {"Cancelled", "Error"} THEN Ended(check)
                        ELSE [check EXCEPT !.pc = "next"]

CheckStep ==
    /\ CheckStarts \/ CheckReads \/ NextCommand \/ RunsCommand
    /\ UNCHANGED <<outside, entries, selected, previewing>>

CancelCheck ==
    /\ CheckRunning /\ ~check.cancel /\ check' = [check EXCEPT !.cancel = TRUE]
    /\ UNCHANGED <<outside, entries, selected, previewing, verified>>

-----------------------------------------------------------------------------
Complete(p) == p.state \in {"ConflictFree", "Conflicted"}
Unavailable == [NoPreview EXCEPT !.state = "Unavailable"]

\* What the queue's probes may have answered: they begin every five seconds and may be late,
\* so an answer may be of any contents.  Gone: the source is unavailable; Unread: no
\* answer yet.
Known == [selected -> Contents \cup {Unread, Gone}]

OfSelection(p) == p.of = Shown

\* What a frame leaves of a result: the selection is compared, then the queue's probes,
\* then, every five seconds, the base.
Kept(p, moved, known) ==
    IF /\ Complete(p)
       /\ \/ ~OfSelection(p)
          \/ \E t \in p.of.tasks : known[t] \notin {p.sources[t], Unread}
          \/ moved
    THEN Unavailable ELSE p

\* preview_is_current.
IsCurrent(p, moved, known) ==
    IF ~OfSelection(p) \/ moved THEN "no"
    ELSE CASE p.state = "ConflictFree" ->
                IF \E t \in Shown.tasks : known[t] \notin {p.sources[t], Unread} THEN "no"
                ELSE IF \E t \in Shown.tasks : known[t] = Unread THEN "unknown" ELSE "yes"
           [] p.state = "Running" -> "unknown"
           [] OTHER -> "no"

\* refresh_current_state.  It is never asked with a source unread and the preview current.
Refreshed(v, p, current, known) ==
    IF v.status \in {"none", "Running", "Stale"} \/ current = "unknown" THEN v
    ELSE IF \/ current = "no"
            \/ p.base # v.inputs.base \/ p.sources # v.inputs.sources
            \/ Shown # v.inputs.of
            \/ \E t \in Shown.tasks :
                 \/ known[t] # v.inputs.sources[t]
                 \/ Configs[entries].command[t] # Configs[v.inputs.version].command[t]
    THEN [NoResult EXCEPT !.status = "Stale"] ELSE v

\* The controller's poll.  Of a verification that has not passed its inputs are compared
\* further, and what its commands gave is only shown.
Taken ==
    IF check.status = "Passed" THEN [verified EXCEPT !.status = check.status]
    ELSE [verified EXCEPT !.status = check.status, !.done = <<>>, !.held = {}]

\* A frame of the review queue: both workers are polled, what is shown is compared with
\* what is known, and then a button may be pressed.
Frame ==
    /\ capture' = IF capture.pc \in {"ConflictFree", "Conflicted", "Unavailable"}
                  THEN NoCapture ELSE capture
    /\ \E moved \in BOOLEAN, known \in Known :
         /\ moved => Complete(Polled) /\ base # Polled.base
         /\ LET taken == IF check.pc = "sent" THEN Taken ELSE verified
                idle == check.pc \in {"none", "sent"}
                p == Kept(Polled, moved, known)
                current == IsCurrent(p, moved, known)
            IN  /\ preview' = p
                /\ \/ /\ verified' = IF idle THEN Refreshed(taken, p, current, known)
                                      ELSE taken
                      /\ check' = IF idle THEN NoCheck ELSE check
                   \/ idle /\ ~PreviewRunning /\ p = preview /\ StartCheck(current)
    /\ UNCHANGED <<outside, entries, selected>>

Select ==
    /\ ~PreviewRunning /\ ~CheckRunning
    /\ selected' \in SUBSET Tasks
    /\ UNCHANGED <<outside, entries, previewing, checking>>

\* What a read would have found as captured since the last command ended, with what is put
\* back until the last check has read it (ghost).
Noted ==
    LET matching == {read \in Reads : Agrees(read, base', sources', saved')}
    IN  verified' = IF check.pc \in {"next", "final"} /\ Ran(verified.done)
                    THEN [verified EXCEPT !.held = @ \cup matching] ELSE verified

\* The records are saved by this window, or by another one.
Configure ==
    /\ saved < Len(Configs) /\ saved' = saved + 1
    /\ entries' \in {entries, saved'}
    /\ UNCHANGED <<base, sources, edits, selected, previewing, check>>
    /\ Noted

\* The registry is loaded again.
Reload ==
    /\ entries' = saved
    /\ UNCHANGED <<outside, selected, previewing, checking>>

\* The base moves or a source is edited, forth or back.
Change ==
    /\ edits < MaxEdit /\ edits' = edits + 1
    /\ \E content \in Contents :
         \/ content # base /\ base' = content /\ UNCHANGED sources
         \/ \E t \in Tasks : /\ content # sources[t] /\ UNCHANGED base
                              /\ sources' = [sources EXCEPT ![t] = content]
    /\ UNCHANGED <<saved, entries, selected, previewing, check>>
    /\ Noted

Next ==
    \/ StartPreview \/ PreviewStep \/ CheckStep \/ CancelCheck \/ Frame
    \/ Select \/ Configure \/ Reload \/ Change

Spec == Init /\ [][Next]_combined

-----------------------------------------------------------------------------
Captured == Contents \cup {Unread}
Links == {Configs[version].links : version \in Versions} \cup {{}}
Identities == [tasks : SUBSET Tasks, order : SUBSET (Tasks \X Tasks), links : Links]
Failures == {"Stale", "Unavailable", "Cancelled"}
Ends == {"Passed", "Failed", "TimedOut", "Error", "Cancelled"}
Stages == {"none", "starting", "first", "next", "before", "command", "final", "sent"}

Previews ==
    [state : {"Idle", "Running", "ConflictFree", "Conflicted", "Unavailable"},
     of : Identities, base : Captured, sources : [Tasks -> Captured]]
Workers ==
    [pc : {"none", "base", "sources", "merging", "ConflictFree", "Conflicted", "Unavailable"},
     base : Captured, sources : [Tasks -> Captured]]
Results ==
    [status : {"none", "Running", "Partial"} \cup Failures \cup Ends,
     inputs : [of : Identities, version : Versions, base : Captured,
               sources : [Tasks -> Captured]],
     done : Seq(Ends), held : SUBSET ({"base", "records"} \cup Tasks)]
Checks ==
    [pc : Stages, left : SUBSET ({"base", "records"} \cup Tasks),
     failed : {"none", "Stale", "Unavailable"}, stop : BOOLEAN, cancel : BOOLEAN,
     unprepared : BOOLEAN, status : {"none", "Partial"} \cup Failures \cup Ends]

ResultOK == verified \in Results /\ Len(verified.done) <= Cardinality(Plan)

TypeOK ==
    /\ base \in Contents /\ sources \in [Tasks -> Contents] /\ edits \in 0 .. MaxEdit
    /\ saved \in Versions /\ entries \in 1 .. saved /\ selected \subseteq Tasks
    /\ preview \in Previews /\ capture \in Workers /\ ResultOK /\ check \in Checks

\* A combined result shown as passed is of every command of every selected task, each of
\* which passed on the tree of the preview; and at the moment the last command had ended
\* the base, the sources and the records were still the ones that tree was made of, but
\* for what was put back before the last check came to read it.
Real ==
    /\ Reads \subseteq verified.held
    /\ Ran(verified.done) /\ ToSet(verified.done) = {"Passed"}
    /\ Unconfigured(Inputs.version, Inputs.of.tasks) = {}
CombinedPassIsReal == verified.status = "Passed" => Real

-----------------------------------------------------------------------------
(* The inductive invariant. *)

\* A verification is of commands, at most all of which have run.
ChecksArePlanned ==
    /\ CheckRunning => Plan # {} /\ verified.status = "Running"
    /\ check.pc \in {"first", "before", "final"} => check.left \subseteq Reads
    /\ check.pc \in {"starting", "first", "before", "command"} =>
         Len(verified.done) < Cardinality(Plan)

\* What had changed as the last command ended, and was not put back since, is still to be
\* read as it is.
ChangesAreFound ==
    check.pc \in {"next", "final"} /\ Ran(verified.done) =>
        \A read \in Reads \ verified.held :
            ~Matches(read) /\ (check.pc = "final" => read \in check.left)

SentIsReal == check.pc = "sent" /\ check.status = "Passed" => Real

IInv ==
    /\ TypeOK /\ CombinedPassIsReal /\ ChecksArePlanned /\ ChangesAreFound /\ SentIsReal
=============================================================================
